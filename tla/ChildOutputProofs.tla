-------------------------- MODULE ChildOutputProofs -------------------------
(***************************************************************************)
(* What run_ffmpeg makes of ffmpeg's stderr, for any output, cut into any  *)
(* chunks, and a tail of any length.                                       *)
(***************************************************************************)
EXTENDS ChildOutput, FiniteSetTheorems, SequenceTheorems, WellFoundedInduction, TLAPS

-----------------------------------------------------------------------------
(* Loops.  A fold is a recursive function; that it has a value is shown here *)
(* by the least number of rounds at which it would have none.                *)

\* A nonempty set of naturals has a least member.
LEMMA LeastMember ==
  ASSUME NEW B \in SUBSET Nat, B # {}
  PROVE  \E n \in B : \A m \in B : n <= m
<1>1. IsWellFoundedOn(OpToRel(<, Nat), Nat)
  BY NatLessThanWellFounded
<1>2. PICK n \in B : \A m \in B : ~(<<m, n>> \in OpToRel(<, Nat))
  BY <1>1, WFMin
<1>3. \A m \in B : ~(m < n)
  BY <1>2 DEF OpToRel
<1> QED BY <1>3

\* f: the values of a loop, from base, with a step h[i] for each i in 1 .. n.
LoopOf(V, n, base, h, f) ==
  f \in [0 .. n -> V] /\ f[0] = base /\ \A i \in 1 .. n : f[i] = h[i][f[i - 1]]

\* A loop has values.
LEMMA LoopExists ==
  ASSUME NEW V, NEW n \in Nat, NEW base \in V, NEW h \in [1 .. n -> [V -> V]]
  PROVE  \E f : LoopOf(V, n, base, h, f)
<1> USE DEF LoopOf
<1> DEFINE Good(k, f) == /\ f \in [0 .. k -> V] /\ f[0] = base
                         /\ \A i \in 1 .. k : f[i] = h[i][f[i - 1]]
           bad == {k \in 0 .. n : ~\E f : Good(k, f)}
<1> SUFFICES ASSUME bad # {} PROVE FALSE
  <2>1. n \notin bad => \E f : Good(n, f)
    OBVIOUS
  <2> QED BY <2>1
<1>1. PICK k \in bad : \A m \in bad : k <= m
  <2>1. bad \in SUBSET Nat
    OBVIOUS
  <2> HIDE DEF bad
  <2> QED BY <2>1, LeastMember
<1>2. k \in 0 .. n /\ ~\E f : Good(k, f)
  BY <1>1
<1>3. k # 0
  <2>1. Good(0, [i \in 0 .. 0 |-> base])
    OBVIOUS
  <2> HIDE DEF Good
  <2> QED BY <1>2, <2>1
<1>4. k - 1 \in 0 .. n /\ k - 1 \notin bad
  <2> HIDE DEF bad
  <2> QED BY <1>1, <1>2, <1>3
<1>5. PICK f : Good(k - 1, f)
  <2> HIDE DEF Good
  <2> QED BY <1>4
<1> DEFINE g == [i \in 0 .. k |-> IF i = k THEN h[k][f[k - 1]] ELSE f[i]]
<1>6. Good(k, g)
  <2>1. g \in [0 .. k -> V]
    BY <1>2, <1>3, <1>5
  <2>2. \A i \in 1 .. k : g[i] = h[i][g[i - 1]]
    BY <1>2, <1>3, <1>5
  <2>3. g[0] = base
    BY <1>2, <1>3, <1>5
  <2> QED BY <2>1, <2>2, <2>3
<1> HIDE DEF Good, g
<1> QED BY <1>2, <1>6

\* The greatest element of an initial segment of the naturals.
LEMMA MaxIs ==
  ASSUME NEW S \in SUBSET Int, NEW x \in S, \A y \in S : y <= x
  PROVE  Max(S) = x
<1> DEFINE m == CHOOSE z \in S : \A y \in S : z >= y
<1>1. \A y \in S : x >= y
  OBVIOUS
<1>2. m \in S /\ \A y \in S : m >= y
  BY <1>1
<1>3. m = x
  <2> HIDE DEF m
  <2> QED BY <1>1, <1>2
<1> QED BY <1>3 DEF Max

\* F folds over the elements of a set of rounds from the last one down, as
\* MapThenFoldSet does in FoldLeft.
FoldOf(V, n, base, h, F) ==
  /\ F \in [SUBSET (1 .. n) -> V]
  /\ \A T \in SUBSET (1 .. n) :
       F[T] = IF T = {} THEN base ELSE h[Max(T)][F[T \ {Max(T)}]]

\* A set of rounds has a last one.
LEMMA MaxExists ==
  ASSUME NEW n \in Nat, NEW T \in SUBSET (1 .. n), T # {}
  PROVE  Max(T) \in T /\ \A y \in T : y <= Max(T)
<1> DEFINE B == {n - x : x \in T}
<1>0. PICK z \in T : TRUE
  OBVIOUS
<1>1. B \in SUBSET Nat /\ n - z \in B
  OBVIOUS
<1>2. PICK b \in B : \A c \in B : b <= c
  <2> HIDE DEF B
  <2> QED BY <1>1, LeastMember
<1>3. PICK x \in T : b = n - x
  OBVIOUS
<1>4. \A y \in T : y <= x
  <2> SUFFICES ASSUME NEW y \in T PROVE y <= x
    OBVIOUS
  <2>1. n - x <= n - y
    BY <1>2, <1>3
  <2> QED BY <2>1
<1> QED BY <1>3, <1>4, MaxIs

\* Folds of any number of rounds have values.
LEMMA FoldExists ==
  ASSUME NEW V, NEW n \in Nat, NEW base \in V, NEW h \in [1 .. n -> [V -> V]]
  PROVE  \E F : FoldOf(V, n, base, h, F)
<1> DEFINE bad == {k \in 0 .. n : ~\E F : FoldOf(V, k, base, h, F)}
<1> SUFFICES ASSUME bad # {} PROVE FALSE
  <2>1. n \notin bad => \E F : FoldOf(V, n, base, h, F)
    OBVIOUS
  <2> QED BY <2>1
<1>1. PICK k \in bad : \A m \in bad : k <= m
  <2>1. bad \in SUBSET Nat
    OBVIOUS
  <2> HIDE DEF bad
  <2> QED BY <2>1, LeastMember
<1>2. k \in 0 .. n /\ ~\E F : FoldOf(V, k, base, h, F)
  BY <1>1
<1>3. k # 0
  <2> SUFFICES ASSUME k = 0 PROVE FALSE
    OBVIOUS
  <2> DEFINE F == [T \in SUBSET (1 .. 0) |-> base]
  <2>1. 1 .. 0 = {}
    OBVIOUS
  <2>2. FoldOf(V, 0, base, h, F)
    BY <2>1 DEF FoldOf
  <2> QED BY <1>2, <2>2
<1>4. PICK E : FoldOf(V, k - 1, base, h, E)
  <2>1. k - 1 \in 0 .. n /\ k - 1 \notin bad
    <3> HIDE DEF bad
    <3> QED BY <1>1, <1>2, <1>3
  <2> QED BY <2>1
<1> DEFINE F == [T \in SUBSET (1 .. k) |-> IF k \in T THEN h[k][E[T \ {k}]] ELSE E[T]]
<1>5. ASSUME NEW T \in SUBSET (1 .. k)
      PROVE  T \ {k} \in SUBSET (1 .. (k - 1)) /\ (k \in T => Max(T) = k)
  <2>1. k \in Nat /\ \A y \in T : y \in Int /\ y <= k
    BY <1>2, <1>5
  <2>2. T \ {k} \in SUBSET (1 .. (k - 1))
    BY <1>2, <1>5
  <2>3. k \in T => Max(T) = k
    BY <2>1, MaxIs
  <2> QED BY <2>2, <2>3
<1>6. F \in [SUBSET (1 .. k) -> V]
  <2> SUFFICES ASSUME NEW T \in SUBSET (1 .. k)
               PROVE  (IF k \in T THEN h[k][E[T \ {k}]] ELSE E[T]) \in V
    OBVIOUS
  <2>1. E[T \ {k}] \in V
    BY <1>4, <1>5 DEF FoldOf
  <2>2. k \in 1 .. n
    BY <1>2, <1>3
  <2>3. k \notin T => T \ {k} = T
    OBVIOUS
  <2> QED BY <2>1, <2>2, <2>3
<1>7. ASSUME NEW T \in SUBSET (1 .. k)
      PROVE  F[T] = IF T = {} THEN base ELSE h[Max(T)][F[T \ {Max(T)}]]
  <2>1. CASE k \in T
    <3>1. Max(T) = k /\ T # {} /\ T \ {k} \in SUBSET (1 .. k) /\ k \notin T \ {k}
      BY <1>5, <2>1
    <3>2. F[T \ {k}] = E[T \ {k}]
      BY <3>1
    <3>3. F[T] = h[k][E[T \ {k}]]
      BY <2>1
    <3> HIDE DEF F
    <3> QED BY <3>1, <3>2, <3>3
  <2>2. CASE k \notin T
    <3>1. T \in SUBSET (1 .. (k - 1)) /\ T \ {k} = T
      BY <1>5, <2>2
    <3>2. F[T] = E[T]
      BY <2>2
    <3>3. E[T] = IF T = {} THEN base ELSE h[Max(T)][E[T \ {Max(T)}]]
      BY <1>4, <3>1 DEF FoldOf
    <3>4. T \ {Max(T)} \in SUBSET (1 .. k) /\ k \notin T \ {Max(T)}
      BY <2>2
    <3>5. F[T \ {Max(T)}] = E[T \ {Max(T)}]
      BY <3>4
    <3> HIDE DEF F
    <3> QED BY <3>2, <3>3, <3>5
  <2> QED BY <2>1, <2>2
<1>8. FoldOf(V, k, base, h, F)
  <2> HIDE DEF F
  <2> QED BY <1>6, <1>7 DEF FoldOf
<1> QED BY <1>2, <1>8

\* A recursive function of sets of rounds, on the initial segments of them.
Segments(n, e) == [i \in 0 .. n |-> e[1 .. i]]

\* What the recursion of a fold says of e there.
Solves(V, n, base, h, e) ==
  /\ e[{}] = base
  /\ \A i \in 1 .. n : e[1 .. (i - 1)] \in V => e[1 .. i] = h[i][e[1 .. (i - 1)]]

\* Whatever solves the recursion of a fold, on initial segments it is the loop.
LEMMA FoldIsLoop ==
  ASSUME NEW V, NEW n \in Nat, NEW base \in V, NEW h \in [1 .. n -> [V -> V]],
         NEW e, Solves(V, n, base, h, e)
  PROVE  LoopOf(V, n, base, h, Segments(n, e))
<1> USE DEF Solves, Segments
<1> DEFINE bad == {i \in 0 .. n : e[1 .. i] \notin V}
<1>0. 1 .. 0 = {}
  OBVIOUS
<1>1. bad = {}
  <2> SUFFICES ASSUME bad # {} PROVE FALSE
    OBVIOUS
  <2>1. PICK i \in bad : \A j \in bad : i <= j
    <3>1. bad \in SUBSET Nat
      OBVIOUS
    <3> HIDE DEF bad
    <3> QED BY <3>1, LeastMember
  <2>2. i \in 0 .. n /\ e[1 .. i] \notin V
    BY <2>1
  <2>3. i # 0
    BY <1>0, <2>2
  <2>4. e[1 .. (i - 1)] \in V
    BY <2>1, <2>2, <2>3
  <2>5. i \in 1 .. n
    BY <2>2, <2>3
  <2> QED BY <2>2, <2>4, <2>5
<1>2. \A i \in 0 .. n : e[1 .. i] \in V
  BY <1>1
<1>3. \A i \in 1 .. n : e[1 .. i] = h[i][e[1 .. (i - 1)]]
  <2> SUFFICES ASSUME NEW i \in 1 .. n PROVE e[1 .. (i - 1)] \in V
    OBVIOUS
  <2> QED BY <1>2
<1> QED BY <1>0, <1>2, <1>3 DEF LoopOf

\* A loop that goes on for one more round starts it where the shorter one ended.
LEMMA LoopGoesOn ==
  ASSUME NEW V, NEW n \in Nat, NEW base, NEW h, NEW f, LoopOf(V, n, base, h, f),
         NEW h2, NEW g, LoopOf(V, n + 1, base, h2, g), \A i \in 1 .. n : h2[i] = h[i]
  PROVE  f[n] \in V /\ g[n + 1] = h2[n + 1][f[n]]
<1> USE DEF LoopOf
<1> DEFINE bad == {i \in 0 .. n : f[i] # g[i]}
<1>1. bad = {}
  <2> SUFFICES ASSUME bad # {} PROVE FALSE
    OBVIOUS
  <2>1. PICK i \in bad : \A j \in bad : i <= j
    <3>1. bad \in SUBSET Nat
      OBVIOUS
    <3> HIDE DEF bad
    <3> QED BY <3>1, LeastMember
  <2>2. i \in 0 .. n /\ f[i] # g[i] /\ i # 0
    BY <2>1
  <2>3. f[i - 1] = g[i - 1]
    BY <2>1, <2>2
  <2>4. i \in 1 .. n /\ i \in 1 .. (n + 1)
    BY <2>2
  <2>5. f[i] = h[i][f[i - 1]] /\ g[i] = h2[i][g[i - 1]]
    BY <2>4
  <2> QED BY <2>2, <2>3, <2>4, <2>5
<1>2. f[n] = g[n] /\ n + 1 \in 1 .. (n + 1)
  BY <1>1
<1> QED BY <1>2

\* The last of the first i rounds is round i.
LEMMA LastRound ==
  ASSUME NEW n \in Nat, NEW i \in 1 .. n
  PROVE  /\ 1 .. i \in SUBSET (1 .. n) /\ 1 .. i # {}
         /\ Max(1 .. i) = i /\ (1 .. i) \ {i} = 1 .. (i - 1)
<1>1. 1 .. i \in SUBSET Int /\ i \in 1 .. i /\ \A y \in 1 .. i : y <= i
  OBVIOUS
<1>2. Max(1 .. i) = i
  BY <1>1, MaxIs
<1> QED BY <1>1, <1>2

-----------------------------------------------------------------------------
(* Bytes of a sequence of marks *)

\* What Size counts a mark as.
Bytes(k) == IF k.kind = "char" THEN k.n ELSE 1

\* A mark is of one byte or two.
LEMMA Marked ==
  ASSUME NEW k \in Mark
  PROVE  /\ Bytes(k) \in Nat /\ Bytes(k) >= 1
         /\ k.kind \in {"Duration:", "time=", "char", "eol"} /\ k.n \in Nat
BY DEF Mark, Marks, Bytes

\* The rounds of Size: a mark adds its bytes.
AddBytes(s) == [i \in 1 .. Len(s) |-> [v \in Nat |-> v + Bytes(s[i])]]

\* Size adds up bytes, mark by mark.
LEMMA SizeLoop ==
  ASSUME NEW s \in Seq(Mark)
  PROVE  \E f : LoopOf(Nat, Len(s), 0, AddBytes(s), f) /\ f[Len(s)] = Size(s)
<1> DEFINE n == Len(s)
           h == AddBytes(s)
           R(e) == [T \in SUBSET (1 .. n) |->
                      IF T = {} THEN 0 ELSE e[T \ {Max(T)}] + Bytes(s[Max(T)])]
           e == CHOOSE e : e = R(e)
<1>1. /\ n \in Nat /\ DOMAIN s = 1 .. n
      /\ \A i \in 1 .. n : Bytes(s[i]) \in Nat
  BY Marked, LenProperties
<1>2. h \in [1 .. n -> [Nat -> Nat]] /\ \A i \in 1 .. n, v \in Nat : h[i][v] = v + Bytes(s[i])
  BY <1>1 DEF AddBytes
<1> HIDE DEF h
<1>3. PICK F : FoldOf(Nat, n, 0, h, F)
  BY <1>1, <1>2, FoldExists
<1>4. F = R(F)
  <2>1. \A T \in SUBSET (1 .. n) : T # {} => Max(T) \in 1 .. n /\ F[T \ {Max(T)}] \in Nat
    BY <1>1, <1>3, MaxExists DEF FoldOf
  <2>2. \A T \in SUBSET (1 .. n) :
          F[T] = IF T = {} THEN 0 ELSE F[T \ {Max(T)}] + Bytes(s[Max(T)])
    BY <1>2, <1>3, <2>1 DEF FoldOf
  <2> QED BY <1>3, <2>2 DEF FoldOf
<1> HIDE DEF R
<1>5. e = R(e)
  BY <1>4
<1>6. Size(s) = e[1 .. n]
  BY <1>1 DEF Size, FoldLeft, MapThenFoldSet, R, Bytes
<1> HIDE DEF e
<1>7. Solves(Nat, n, 0, h, e)
  <2>1. e[{}] = 0
    BY <1>5 DEF R
  <2>2. \A i \in 1 .. n : e[1 .. i] = e[1 .. (i - 1)] + Bytes(s[i])
    <3> SUFFICES ASSUME NEW i \in 1 .. n PROVE e[1 .. i] = e[1 .. (i - 1)] + Bytes(s[i])
      OBVIOUS
    <3>1. /\ 1 .. i \in SUBSET (1 .. n) /\ 1 .. i # {}
          /\ Max(1 .. i) = i /\ (1 .. i) \ {i} = 1 .. (i - 1)
      BY <1>1, LastRound
    <3> QED BY <1>5, <3>1 DEF R
  <2> QED BY <1>2, <2>1, <2>2 DEF Solves
<1>8. LoopOf(Nat, n, 0, h, Segments(n, e))
  BY <1>1, <1>2, <1>7, FoldIsLoop
<1>9. Segments(n, e)[n] = Size(s)
  BY <1>1, <1>6 DEF Segments
<1> QED BY <1>8, <1>9 DEF h

\* Size of the empty sequence, and of one mark more.
LEMMA SizeSteps ==
  /\ Size(<<>>) = 0
  /\ \A s \in Seq(Mark) : Size(s) \in Nat
  /\ \A s \in Seq(Mark), k \in Mark : Size(Append(s, k)) = Size(s) + Bytes(k)
<1>1. ASSUME NEW s \in Seq(Mark) PROVE Size(s) \in Nat
  BY SizeLoop, LenProperties DEF LoopOf
<1>2. Size(<<>>) = 0
  <2>1. <<>> \in Seq(Mark) /\ Len(<<>>) = 0
    BY EmptySeq
  <2> QED BY <2>1, SizeLoop DEF LoopOf
<1>3. ASSUME NEW s \in Seq(Mark), NEW k \in Mark
      PROVE  Size(Append(s, k)) = Size(s) + Bytes(k)
  <2> DEFINE t == Append(s, k)
             n == Len(s)
  <2>1. /\ t \in Seq(Mark) /\ n \in Nat /\ Len(t) = n + 1
        /\ \A i \in 1 .. n : t[i] = s[i]
        /\ t[n + 1] = k
    OBVIOUS
  <2> HIDE DEF t
  <2>2. PICK f : LoopOf(Nat, n, 0, AddBytes(s), f) /\ f[n] = Size(s)
    BY SizeLoop
  <2>3. PICK g : LoopOf(Nat, n + 1, 0, AddBytes(t), g) /\ g[n + 1] = Size(t)
    BY <2>1, SizeLoop
  <2>4. \A i \in 1 .. n : AddBytes(t)[i] = AddBytes(s)[i]
    BY <2>1 DEF AddBytes
  <2>5. g[n + 1] = AddBytes(t)[n + 1][f[n]] /\ f[n] \in Nat
    <3> HIDE DEF n
    <3> QED BY <2>1, <2>2, <2>3, <2>4, LoopGoesOn
  <2>6. AddBytes(t)[n + 1][f[n]] = f[n] + Bytes(k)
    BY <2>1, <2>5 DEF AddBytes
  <2> QED BY <2>2, <2>3, <2>5, <2>6 DEF t
<1> QED BY <1>1, <1>2, <1>3

-----------------------------------------------------------------------------
(* Text of a sequence of marks *)

\* TextTo, of any sequence of marks.
TextOf(s) == FoldLeft(LAMBDA t, k : IF k.kind = "eol" THEN t ELSE Append(t, k), <<>>, s)

\* One mark more of it.
AddMark(t, k) == IF k.kind = "eol" THEN t ELSE Append(t, k)

\* The rounds of TextOf: a mark that ends no line is added.
AddMarks(s) == [i \in 1 .. Len(s) |-> [v \in Seq(Mark) |-> AddMark(v, s[i])]]

\* TextOf puts the marks that end no line one after the other.
LEMMA TextLoop ==
  ASSUME NEW s \in Seq(Mark)
  PROVE  \E f : LoopOf(Seq(Mark), Len(s), <<>>, AddMarks(s), f) /\ f[Len(s)] = TextOf(s)
<1> DEFINE n == Len(s)
           h == AddMarks(s)
           R(e) == [T \in SUBSET (1 .. n) |->
                      IF T = {} THEN <<>> ELSE AddMark(e[T \ {Max(T)}], s[Max(T)])]
           e == CHOOSE e : e = R(e)
<1>1. /\ n \in Nat /\ DOMAIN s = 1 .. n /\ <<>> \in Seq(Mark)
      /\ \A i \in 1 .. n, v \in Seq(Mark) : AddMark(v, s[i]) \in Seq(Mark)
  BY LenProperties, EmptySeq DEF AddMark
<1>2. /\ h \in [1 .. n -> [Seq(Mark) -> Seq(Mark)]]
      /\ \A i \in 1 .. n, v \in Seq(Mark) : h[i][v] = AddMark(v, s[i])
  BY <1>1 DEF AddMarks
<1> HIDE DEF h
<1>3. PICK F : FoldOf(Seq(Mark), n, <<>>, h, F)
  BY <1>1, <1>2, FoldExists
<1>4. F = R(F)
  <2>1. \A T \in SUBSET (1 .. n) : T # {} => Max(T) \in 1 .. n /\ F[T \ {Max(T)}] \in Seq(Mark)
    BY <1>1, <1>3, MaxExists DEF FoldOf
  <2>2. \A T \in SUBSET (1 .. n) :
          F[T] = IF T = {} THEN <<>> ELSE AddMark(F[T \ {Max(T)}], s[Max(T)])
    BY <1>2, <1>3, <2>1 DEF FoldOf
  <2> QED BY <1>3, <2>2 DEF FoldOf
<1> HIDE DEF R
<1>5. e = R(e)
  BY <1>4
<1>6. TextOf(s) = e[1 .. n]
  BY <1>1 DEF TextOf, FoldLeft, MapThenFoldSet, R, AddMark
<1> HIDE DEF e
<1>7. Solves(Seq(Mark), n, <<>>, h, e)
  <2>1. e[{}] = <<>>
    BY <1>5 DEF R
  <2>2. \A i \in 1 .. n : e[1 .. i] = AddMark(e[1 .. (i - 1)], s[i])
    <3> SUFFICES ASSUME NEW i \in 1 .. n PROVE e[1 .. i] = AddMark(e[1 .. (i - 1)], s[i])
      OBVIOUS
    <3>1. /\ 1 .. i \in SUBSET (1 .. n) /\ 1 .. i # {}
          /\ Max(1 .. i) = i /\ (1 .. i) \ {i} = 1 .. (i - 1)
      BY <1>1, LastRound
    <3> QED BY <1>5, <3>1 DEF R
  <2> QED BY <1>2, <2>1, <2>2 DEF Solves
<1>8. LoopOf(Seq(Mark), n, <<>>, h, Segments(n, e))
  BY <1>1, <1>2, <1>7, FoldIsLoop
<1>9. Segments(n, e)[n] = TextOf(s)
  BY <1>1, <1>6 DEF Segments
<1> QED BY <1>8, <1>9 DEF h

\* The text of the empty sequence, and of one mark more.
LEMMA TextSteps ==
  /\ TextOf(<<>>) = <<>>
  /\ \A s \in Seq(Mark) : TextOf(s) \in Seq(Mark)
  /\ \A s \in Seq(Mark), k \in Mark : TextOf(Append(s, k)) = AddMark(TextOf(s), k)
<1>1. ASSUME NEW s \in Seq(Mark) PROVE TextOf(s) \in Seq(Mark)
  BY TextLoop, LenProperties DEF LoopOf
<1>2. TextOf(<<>>) = <<>>
  <2>1. <<>> \in Seq(Mark) /\ Len(<<>>) = 0
    BY EmptySeq
  <2> QED BY <2>1, TextLoop DEF LoopOf
<1>3. ASSUME NEW s \in Seq(Mark), NEW k \in Mark
      PROVE  TextOf(Append(s, k)) = AddMark(TextOf(s), k)
  <2> DEFINE t == Append(s, k)
             n == Len(s)
  <2>1. /\ t \in Seq(Mark) /\ n \in Nat /\ Len(t) = n + 1
        /\ \A i \in 1 .. n : t[i] = s[i]
        /\ t[n + 1] = k
    OBVIOUS
  <2> HIDE DEF t
  <2>2. PICK f : LoopOf(Seq(Mark), n, <<>>, AddMarks(s), f) /\ f[n] = TextOf(s)
    BY TextLoop
  <2>3. PICK g : LoopOf(Seq(Mark), n + 1, <<>>, AddMarks(t), g) /\ g[n + 1] = TextOf(t)
    BY <2>1, TextLoop
  <2>4. \A i \in 1 .. n : AddMarks(t)[i] = AddMarks(s)[i]
    BY <2>1 DEF AddMarks
  <2>5. g[n + 1] = AddMarks(t)[n + 1][f[n]] /\ f[n] \in Seq(Mark)
    <3> HIDE DEF n
    <3> QED BY <2>1, <2>2, <2>3, <2>4, LoopGoesOn
  <2>6. AddMarks(t)[n + 1][f[n]] = AddMark(f[n], k)
    BY <2>1, <2>5 DEF AddMarks
  <2> QED BY <2>2, <2>3, <2>5, <2>6 DEF t
<1> QED BY <1>1, <1>2, <1>3

-----------------------------------------------------------------------------
(* A chunk, byte by byte *)

\* The locals of the loop.
State == [line: Seq(Mark), duration: Int, tail: Seq(Mark), pct: Int, panicked: BOOLEAN]

\* The rounds of a chunk.
Takes(c) == [i \in 1 .. Len(c) |-> [st \in State |-> Take(st, c[i])]]

\* A chunk is taken in mark by mark.
LEMMA TakeLoop ==
  ASSUME NEW c \in Seq(Mark), NEW st \in State,
         \A v \in State, k \in Mark : Take(v, k) \in State
  PROVE  \E f : LoopOf(State, Len(c), st, Takes(c), f) /\ f[Len(c)] = FoldLeft(Take, st, c)
<1> DEFINE n == Len(c)
           h == Takes(c)
           R(e) == [T \in SUBSET (1 .. n) |->
                      IF T = {} THEN st ELSE Take(e[T \ {Max(T)}], c[Max(T)])]
           e == CHOOSE e : e = R(e)
<1>1. /\ n \in Nat /\ DOMAIN c = 1 .. n
      /\ \A i \in 1 .. n, v \in State : Take(v, c[i]) \in State
  BY LenProperties
<1>2. /\ h \in [1 .. n -> [State -> State]]
      /\ \A i \in 1 .. n, v \in State : h[i][v] = Take(v, c[i])
  BY <1>1 DEF Takes
<1> HIDE DEF h
<1>3. PICK F : FoldOf(State, n, st, h, F)
  BY <1>1, <1>2, FoldExists
<1>4. F = R(F)
  <2>1. \A T \in SUBSET (1 .. n) : T # {} => Max(T) \in 1 .. n /\ F[T \ {Max(T)}] \in State
    BY <1>1, <1>3, MaxExists DEF FoldOf
  <2>2. \A T \in SUBSET (1 .. n) :
          F[T] = IF T = {} THEN st ELSE Take(F[T \ {Max(T)}], c[Max(T)])
    BY <1>2, <1>3, <2>1 DEF FoldOf
  <2> QED BY <1>3, <2>2 DEF FoldOf
<1> HIDE DEF R
<1>5. e = R(e)
  BY <1>4
<1>6. FoldLeft(Take, st, c) = e[1 .. n]
  BY <1>1 DEF FoldLeft, MapThenFoldSet, R
<1> HIDE DEF e
<1>7. Solves(State, n, st, h, e)
  <2>1. e[{}] = st
    BY <1>5 DEF R
  <2>2. \A i \in 1 .. n : e[1 .. i] = Take(e[1 .. (i - 1)], c[i])
    <3> SUFFICES ASSUME NEW i \in 1 .. n PROVE e[1 .. i] = Take(e[1 .. (i - 1)], c[i])
      OBVIOUS
    <3>1. /\ 1 .. i \in SUBSET (1 .. n) /\ 1 .. i # {}
          /\ Max(1 .. i) = i /\ (1 .. i) \ {i} = 1 .. (i - 1)
      BY <1>1, LastRound
    <3> QED BY <1>5, <3>1 DEF R
  <2> QED BY <1>2, <2>1, <2>2 DEF Solves
<1>8. LoopOf(State, n, st, h, Segments(n, e))
  BY <1>1, <1>2, <1>7, FoldIsLoop
<1>9. Segments(n, e)[n] = FoldLeft(Take, st, c)
  BY <1>1, <1>6 DEF Segments
<1> QED BY <1>8, <1>9 DEF h

-----------------------------------------------------------------------------
(* Sequences put together and cut *)

\* The bytes of two sequences put together are those of both.
LEMMA SizeOfConcat ==
  ASSUME NEW s \in Seq(Mark), NEW t \in Seq(Mark)
  PROVE  Size(s \o t) = Size(s) + Size(t)
<1> DEFINE P(i) == SubSeq(t, 1, i)
           bad == {i \in 0 .. Len(t) : Size(s \o P(i)) # Size(s) + Size(P(i))}
<1>1. Len(t) \in Nat /\ P(0) = <<>> /\ P(Len(t)) = t
  BY LenProperties, SubSeqEmpty, SubSeqFull
<1>2. \A i \in 0 .. Len(t) : P(i) \in Seq(Mark)
  BY <1>1, SubSeqProperties
<1>3. ASSUME NEW i \in 1 .. Len(t)
      PROVE  P(i) = Append(P(i - 1), t[i]) /\ s \o P(i) = Append(s \o P(i - 1), t[i])
  <2>1. P(i) = Append(P(i - 1), t[i])
    BY <1>1
  <2>2. P(i - 1) \in Seq(Mark) /\ t[i] \in Mark
    BY <1>2
  <2> HIDE DEF P
  <2>3. s \o Append(P(i - 1), t[i]) = Append(s \o P(i - 1), t[i])
    BY <2>2
  <2> QED BY <2>1, <2>3
<1> HIDE DEF P
<1>4. bad = {}
  <2> SUFFICES ASSUME bad # {} PROVE FALSE
    OBVIOUS
  <2>1. PICK i \in bad : \A j \in bad : i <= j
    <3>1. bad \in SUBSET Nat
      OBVIOUS
    <3> HIDE DEF bad
    <3> QED BY <3>1, LeastMember
  <2>2. i \in 0 .. Len(t) /\ Size(s \o P(i)) # Size(s) + Size(P(i))
    BY <2>1
  <2>3. i # 0
    <3> SUFFICES ASSUME i = 0 PROVE FALSE
      OBVIOUS
    <3>1. P(i) = <<>> /\ s \o <<>> = s /\ Size(<<>>) = 0 /\ Size(s) \in Nat
      BY <1>1, ConcatEmptySeq, SizeSteps
    <3>2. Size(s \o P(i)) = Size(s) /\ Size(P(i)) = 0
      BY <3>1
    <3> QED BY <2>2, <3>1, <3>2
  <2>4. i \in 1 .. Len(t) /\ i - 1 \in 0 .. Len(t)
    BY <2>2, <2>3
  <2>5. Size(s \o P(i - 1)) = Size(s) + Size(P(i - 1))
    BY <2>1, <2>4
  <2>6. s \o P(i - 1) \in Seq(Mark) /\ P(i - 1) \in Seq(Mark) /\ t[i] \in Mark
    BY <1>2, <2>4, ConcatProperties
  <2>7. /\ Size(s \o P(i)) = Size(s \o P(i - 1)) + Bytes(t[i])
        /\ Size(P(i)) = Size(P(i - 1)) + Bytes(t[i])
    BY <1>3, <2>4, <2>6, SizeSteps
  <2>8. Size(s) \in Nat /\ Size(P(i - 1)) \in Nat /\ Bytes(t[i]) \in Nat
    BY <2>6, SizeSteps, Marked
  <2> QED BY <2>2, <2>5, <2>7, <2>8
<1>5. Len(t) \in 0 .. Len(t)
  BY <1>1
<1> QED BY <1>1, <1>4, <1>5

\* A sequence that is not empty has a byte at least.
LEMMA SomeBytes ==
  ASSUME NEW s \in Seq(Mark), s # <<>>
  PROVE  Size(s) >= 1
<1>1. PICK r \in Seq(Mark), k \in Mark : s = Append(r, k)
  BY SequenceEmptyOrAppend
<1> QED BY <1>1, SizeSteps, Marked

\* y is the end of s.
EndOf(s, y) == \E x \in Seq(Mark) : s = x \o y

\* The last bytes of s are an end of s with TailMax bytes.
LEMMA LastBytesAre ==
  ASSUME NEW s \in Seq(Mark), TailMax \in Nat
  PROVE  \A y : y \in LastBytes(s) <=> y \in Seq(Mark) /\ Size(y) = TailMax /\ EndOf(s, y)
<1>1. Len(s) \in Nat /\ Size(s) \in Nat
  BY LenProperties, SizeSteps
<1>2. ASSUME NEW y \in LastBytes(s)
      PROVE  y \in Seq(Mark) /\ Size(y) = TailMax /\ EndOf(s, y)
  <2>1. PICK i \in 0 .. Len(s) : /\ Size(SubSeq(s, 1, i)) = Size(s) - TailMax
                                 /\ y = SubSeq(s, i + 1, Len(s))
    BY <1>2 DEF LastBytes, CutsAt
  <2> DEFINE x == SubSeq(s, 1, i)
  <2>2. x \in Seq(Mark) /\ y \in Seq(Mark) /\ s = x \o y
    <3>1. x \in Seq(Mark) /\ y \in Seq(Mark)
      BY <1>1, <2>1, SubSeqProperties
    <3>2. x \o y = SubSeq(s, 1, Len(s))
      <4>1. 1 \in 1 .. Len(s) + 1 /\ i \in 1 - 1 .. Len(s) /\ Len(s) \in i .. Len(s)
        BY <1>1
      <4> QED BY <2>1, <4>1, ConcatAdjacentSubSeq
    <3> QED BY <3>1, <3>2, SubSeqFull
  <2>3. Size(s) = Size(x) + Size(y) /\ Size(x) \in Nat /\ Size(y) \in Nat
    <3> HIDE DEF x
    <3> QED BY <2>2, SizeOfConcat, SizeSteps
  <2>4. Size(x) = Size(s) - TailMax
    BY <2>1
  <2>5. Size(y) = TailMax
    <3> HIDE DEF x
    <3> QED BY <1>1, <2>3, <2>4
  <2> QED BY <2>2, <2>5 DEF EndOf
<1>3. ASSUME NEW y \in Seq(Mark), Size(y) = TailMax, EndOf(s, y)
      PROVE  y \in LastBytes(s)
  <2>1. PICK x \in Seq(Mark) : s = x \o y
    BY <1>3 DEF EndOf
  <2>2. /\ Len(x) \in 0 .. Len(s) /\ x = SubSeq(s, 1, Len(x))
        /\ y = SubSeq(s, Len(x) + 1, Len(s))
    BY <2>1
  <2>3. Size(x) = Size(s) - TailMax
    BY <1>1, <1>3, <2>1, SizeOfConcat, SizeSteps
  <2> QED BY <2>2, <2>3 DEF LastBytes, CutsAt
<1> QED BY <1>2, <1>3

\* Of two ends of a sequence, the one of fewer bytes is an end of the other.
LEMMA EndsNest ==
  ASSUME NEW s \in Seq(Mark), NEW y \in Seq(Mark), NEW z \in Seq(Mark),
         EndOf(s, y), EndOf(s, z), Size(y) <= Size(z)
  PROVE  EndOf(z, y)
<1>1. PICK a \in Seq(Mark) : s = a \o y
  BY DEF EndOf
<1>2. PICK b \in Seq(Mark) : s = b \o z
  BY DEF EndOf
<1>0. /\ Len(a) \in Nat /\ Len(b) \in Nat /\ Len(y) \in Nat /\ Len(z) \in Nat
      /\ Len(a) + Len(y) = Len(b) + Len(z)
  <2>1. Len(s) = Len(a) + Len(y)
    BY <1>1
  <2>2. Len(s) = Len(b) + Len(z)
    BY <1>2
  <2> QED BY <2>1, <2>2, LenProperties
<1>3. CASE Len(y) <= Len(z)
  <2> DEFINE x == SubSeq(z, 1, Len(z) - Len(y))
  <2>1. x \in Seq(Mark) /\ Len(x) = Len(z) - Len(y)
    BY <1>3, LenProperties
  <2>2. z = x \o y
    <3>1. Len(x \o y) = Len(z) /\ x \o y \in Seq(Mark)
      BY <1>3, <2>1
    <3>2. ASSUME NEW i \in 1 .. Len(z) PROVE (x \o y)[i] = z[i]
      <4>1. CASE i <= Len(z) - Len(y)
        BY <1>3, <4>1, LenProperties
      <4>2. CASE i > Len(z) - Len(y)
        <5> DEFINE j == i - (Len(z) - Len(y))
        <5>1. j \in 1 .. Len(y)
          BY <1>3, <4>2, LenProperties
        <5>2. (x \o y)[i] = y[j]
          <6> HIDE DEF x
          <6> QED BY <2>1, <4>2, <5>1, LenProperties
        <5>4. s[Len(a) + j] = y[j]
          <6> HIDE DEF j
          <6> QED BY <1>1, <5>1, LenProperties
        <5>5. s[Len(b) + i] = z[i]
          BY <1>2, LenProperties
        <5>6. Len(a) + j = Len(b) + i
          <6> DEFINE la == Len(a)
                     lb == Len(b)
                     ly == Len(y)
                     lz == Len(z)
          <6>1. /\ la \in Int /\ lb \in Int /\ ly \in Int /\ lz \in Int /\ i \in Int
                /\ la + ly = lb + lz /\ j = i - (lz - ly)
            BY <1>0
          <6> HIDE DEF j, la, lb, ly, lz
          <6>2. la + j = lb + i
            BY <6>1
          <6> QED BY <6>2 DEF la, lb
        <5> QED BY <5>2, <5>4, <5>5, <5>6
      <4> QED BY <4>1, <4>2, LenProperties
    <3> HIDE DEF x
    <3> QED BY <3>1, <3>2, SeqEqual
  <2> QED BY <2>1, <2>2 DEF EndOf
<1>4. CASE Len(y) > Len(z)
  <2> DEFINE x == SubSeq(y, 1, Len(y) - Len(z))
  <2>1. x \in Seq(Mark) /\ Len(x) = Len(y) - Len(z) /\ x # <<>>
    <3>1. x \in Seq(Mark) /\ Len(x) = Len(y) - Len(z) /\ Len(x) > 0
      BY <1>0, <1>4
    <3> HIDE DEF x
    <3> QED BY <3>1, EmptySeq
  <2>2. y = x \o z
    <3>1. Len(x \o z) = Len(y) /\ x \o z \in Seq(Mark)
      BY <1>4, <2>1
    <3>2. ASSUME NEW i \in 1 .. Len(y) PROVE (x \o z)[i] = y[i]
      <4>1. CASE i <= Len(y) - Len(z)
        BY <1>4, <4>1, LenProperties
      <4>2. CASE i > Len(y) - Len(z)
        <5> DEFINE j == i - (Len(y) - Len(z))
        <5>1. j \in 1 .. Len(z)
          BY <1>4, <4>2, LenProperties
        <5>2. (x \o z)[i] = z[j]
          <6> HIDE DEF x
          <6> QED BY <2>1, <4>2, <5>1, LenProperties
        <5>4. s[Len(b) + j] = z[j]
          <6> HIDE DEF j
          <6> QED BY <1>2, <5>1, LenProperties
        <5>5. s[Len(a) + i] = y[i]
          BY <1>1, LenProperties
        <5>6. Len(b) + j = Len(a) + i
          <6> DEFINE la == Len(a)
                     lb == Len(b)
                     ly == Len(y)
                     lz == Len(z)
          <6>1. /\ la \in Int /\ lb \in Int /\ ly \in Int /\ lz \in Int /\ i \in Int
                /\ la + ly = lb + lz /\ j = i - (ly - lz)
            BY <1>0
          <6> HIDE DEF j, la, lb, ly, lz
          <6>2. lb + j = la + i
            BY <6>1
          <6> QED BY <6>2 DEF la, lb
        <5> QED BY <5>2, <5>4, <5>5, <5>6
      <4> QED BY <4>1, <4>2, LenProperties
    <3> HIDE DEF x
    <3> QED BY <3>1, <3>2, SeqEqual
  <2>3. Size(y) = Size(x) + Size(z) /\ Size(x) >= 1 /\ Size(x) \in Nat /\ Size(z) \in Nat
    <3> HIDE DEF x
    <3> QED BY <2>1, <2>2, SizeOfConcat, SizeSteps, SomeBytes
  <2> QED BY <2>3
<1> QED BY <1>3, <1>4, LenProperties

\* A nonempty set of naturals has its Min.
LEMMA MinExists ==
  ASSUME NEW B \in SUBSET Nat, B # {}
  PROVE  Min(B) \in B /\ \A m \in B : Min(B) <= m
BY LeastMember DEF Min

\* What the tail is of all the text up to now.
TailOf(s, text) == IF Short(text) THEN s = text ELSE s \in LastBytes(text)

\* There is no place to cut this text.
Lost(text) == ~Short(text) /\ LastBytes(text) = {}

\* More text has the same last bytes after a tail as after all the text before:
\* to forget what the tail has dropped loses nothing.
LEMMA TailStep ==
  ASSUME TailMax \in Nat, NEW text \in Seq(Mark), NEW s \in Seq(Mark), TailOf(s, text),
         NEW more \in Seq(Mark), more # <<>>
  PROVE  /\ Lost(s \o more) <=> Lost(text \o more)
         /\ Short(s \o more) => TailOf(s \o more, text \o more)
         /\ \A y \in LastBytes(s \o more) : ~Short(s \o more) => TailOf(y, text \o more)
<1> DEFINE t == s \o more
           F == text \o more
<1>0. \A a, b, c \in Seq(Mark) : (a \o b) \o c = a \o (b \o c)
  BY ConcatAssociative
<1>1. /\ t \in Seq(Mark) /\ F \in Seq(Mark)
      /\ Size(t) = Size(s) + Size(more) /\ Size(F) = Size(text) + Size(more)
      /\ Size(s) \in Nat /\ Size(text) \in Nat /\ Size(more) \in Nat /\ Size(more) >= 1
  BY ConcatProperties, SizeOfConcat, SizeSteps, SomeBytes
<1>2. \A y : y \in LastBytes(t) <=> y \in Seq(Mark) /\ Size(y) = TailMax /\ EndOf(t, y)
  <2> HIDE DEF t
  <2> QED BY <1>1, LastBytesAre
<1>3. \A y : y \in LastBytes(F) <=> y \in Seq(Mark) /\ Size(y) = TailMax /\ EndOf(F, y)
  <2> HIDE DEF F
  <2> QED BY <1>1, LastBytesAre
<1>4. CASE Short(text)
  <2>1. t = F
    BY <1>4 DEF TailOf
  <2> HIDE DEF t, F
  <2>2. Short(F) => TailOf(F, F)
    BY DEF TailOf
  <2>3. \A y \in LastBytes(F) : ~Short(F) => TailOf(y, F)
    BY DEF TailOf
  <2> QED BY <2>1, <2>2, <2>3 DEF t, F
<1>5. CASE ~Short(text)
  <2>1. Size(s) = TailMax /\ EndOf(text, s)
    BY <1>5, LastBytesAre DEF TailOf
  <2>2. ~Short(t) /\ ~Short(F) /\ TailMax <= Size(t)
    <3> HIDE DEF t, F
    <3> QED BY <1>1, <1>5, <2>1 DEF Short
  <2>3. PICK x \in Seq(Mark) : text = x \o s
    BY <2>1 DEF EndOf
  <2>4. F = x \o t
    BY <2>3, ConcatAssociative
  <2> HIDE DEF t, F
  <2>5. EndOf(F, t)
    BY <2>4 DEF EndOf
  <2>6. ASSUME NEW y \in LastBytes(t) PROVE y \in LastBytes(F)
    <3>1. PICK z \in Seq(Mark) : t = z \o y
      BY <1>2, <2>6 DEF EndOf
    <3>2. y \in Seq(Mark) /\ Size(y) = TailMax
      BY <1>2, <2>6
    <3>3. F = (x \o z) \o y /\ x \o z \in Seq(Mark)
      <4>1. F = x \o (z \o y)
        BY <2>4, <3>1
      <4>2. x \o (z \o y) = (x \o z) \o y
        BY <1>0, <3>2
      <4> QED BY <4>1, <4>2, ConcatProperties
    <3> QED BY <1>3, <3>2, <3>3 DEF EndOf
  <2>7. ASSUME NEW y \in LastBytes(F) PROVE y \in LastBytes(t)
    <3>1. y \in Seq(Mark) /\ Size(y) = TailMax /\ EndOf(F, y)
      BY <1>3, <2>7
    <3>2. EndOf(t, y)
      BY <1>1, <2>2, <2>5, <3>1, EndsNest
    <3> QED BY <1>2, <3>1, <3>2
  <2>8. Lost(t) <=> Lost(F)
    BY <2>2, <2>6, <2>7 DEF Lost
  <2>9. \A y \in LastBytes(t) : TailOf(y, F)
    BY <2>2, <2>6 DEF TailOf
  <2> QED BY <2>2, <2>8, <2>9 DEF t, F
<1> QED BY <1>4, <1>5

\* What EndLine makes of the tail.
LEMMA EndLineTail ==
  ASSUME TailMax \in Nat, NEW st \in State
  PROVE  LET text == st.tail \o st.line
             end  == EndLine(st)
         IN  /\ end.panicked \in BOOLEAN /\ end.tail \in Seq(Mark)
             /\ end.panicked <=> Lost(text)
             /\ Short(text) => end.tail = text
             /\ ~Short(text) /\ ~Lost(text) => end.tail \in LastBytes(text)
<1> DEFINE text == st.tail \o st.line
           cut == CutsAt(text, Excess(text))
           end == EndLine(st)
<1>1. text \in Seq(Mark) /\ Size(text) \in Nat /\ Len(text) \in Nat
  BY SizeSteps, ConcatProperties, LenProperties DEF State
<1>2. /\ end.panicked = (Excess(text) > 0 /\ cut = {})
      /\ end.tail = IF Excess(text) <= 0 \/ cut = {} THEN text
                    ELSE SubSeq(text, Min(cut) + 1, Len(text))
  BY DEF EndLine
<1> HIDE DEF text, end
<1>3. Excess(text) > 0 <=> ~Short(text)
  BY <1>1 DEF Excess, Short
<1>4. Excess(text) \in Int /\ (Excess(text) <= 0 <=> Short(text))
  BY <1>1 DEF Excess, Short
<1>5. LastBytes(text) = {SubSeq(text, i + 1, Len(text)) : i \in cut}
  BY DEF LastBytes, Excess
<1>6. cut \in SUBSET Nat /\ \A i \in cut : i \in 0 .. Len(text)
  BY <1>1 DEF CutsAt
<1> HIDE DEF cut
<1>7. cut = {} <=> LastBytes(text) = {}
  BY <1>5
<1>8. ASSUME cut # {}
      PROVE  SubSeq(text, Min(cut) + 1, Len(text)) \in LastBytes(text)
  <2>1. Min(cut) \in cut
    BY <1>6, <1>8, MinExists
  <2> QED BY <1>5, <2>1
<1>9. \A y \in LastBytes(text) : y \in Seq(Mark)
  BY <1>1, LastBytesAre
<1>10. end.panicked <=> Lost(text)
  BY <1>2, <1>3, <1>7 DEF Lost
<1>11. Short(text) => end.tail = text
  BY <1>2, <1>4
<1>12. ~Short(text) /\ ~Lost(text) => end.tail \in LastBytes(text)
  BY <1>2, <1>4, <1>7, <1>8 DEF Lost
<1>13. end.tail \in Seq(Mark)
  BY <1>1, <1>2, <1>4, <1>7, <1>8, <1>9
<1>14. end.panicked \in BOOLEAN
  BY <1>2
<1> QED BY <1>10, <1>11, <1>12, <1>13, <1>14 DEF text, end

-----------------------------------------------------------------------------
(* Lines of the output w: Eols, Leads, DurationAt and ProgressIsCurrent of it *)

EolsIn(w) == {e \in DOMAIN w : w[e].kind = "eol"}

LeadsIn(w, p, kind) ==
  /\ w[p].kind = kind
  /\ \E e \in EolsIn(w) : e > p
  /\ \A q \in 1 .. p - 1 : w[q].kind = kind => \E e \in EolsIn(w) : q < e /\ e < p

DurationIn(w, p) ==
  LET end   == Min({e \in EolsIn(w) : e > p})
      known == {q \in 1 .. end : LeadsIn(w, q, "Duration:")}
  IN  IF known = {} THEN 0 ELSE w[Max(known)].n

TimesIn(w) == {p \in DOMAIN w : LeadsIn(w, p, "time=") /\ DurationIn(w, p) > 0}

Newest(w) ==
  LET times == TimesIn(w)
  IN  IF times = {} THEN None ELSE Percent(w[Max(times)].n, DurationIn(w, Max(times)))

\* The end of the last complete line, and what is after it.
LastEol(w) == IF EolsIn(w) = {} THEN 0 ELSE Max(EolsIn(w))

LineIn(w) == SubSeq(w, LastEol(w) + 1, Len(w))

\* Where the complete lines have this kind of mark first, and the last duration.
KnownIn(w, kind) == {p \in DOMAIN w : LeadsIn(w, p, kind)}

Total(w) ==
  LET known == KnownIn(w, "Duration:")
  IN  IF known = {} THEN 0 ELSE w[Max(known)].n

\* One mark more leaves the others where they are.
LEMMA OneMore ==
  ASSUME NEW w \in Seq(Mark), NEW k \in Mark
  PROVE  /\ Append(w, k) \in Seq(Mark) /\ Len(w) \in Nat
         /\ DOMAIN w = 1 .. Len(w) /\ DOMAIN Append(w, k) = 1 .. Len(w) + 1
         /\ Len(Append(w, k)) = Len(w) + 1
         /\ \A i \in 1 .. Len(w) : Append(w, k)[i] = w[i] /\ w[i] \in Mark
         /\ Append(w, k)[Len(w) + 1] = k
OBVIOUS

\* The last end of a line is the greatest of them.
LEMMA LastEolIs ==
  ASSUME NEW w \in Seq(Mark)
  PROVE  /\ LastEol(w) \in 0 .. Len(w)
         /\ \A e \in EolsIn(w) : e <= LastEol(w)
         /\ LastEol(w) \in EolsIn(w) \/ (LastEol(w) = 0 /\ EolsIn(w) = {})
<1>1. Len(w) \in Nat /\ EolsIn(w) \in SUBSET (1 .. Len(w))
  BY LenProperties DEF EolsIn
<1>2. CASE EolsIn(w) = {}
  BY <1>1, <1>2 DEF LastEol
<1>3. CASE EolsIn(w) # {}
  <2>1. Max(EolsIn(w)) \in EolsIn(w) /\ \A y \in EolsIn(w) : y <= Max(EolsIn(w))
    BY <1>1, <1>3, MaxExists
  <2>2. LastEol(w) = Max(EolsIn(w))
    BY <1>3 DEF LastEol
  <2> QED BY <1>1, <2>1, <2>2
<1> QED BY <1>2, <1>3

\* Ends of lines with one mark more.
LEMMA EolsGrow ==
  ASSUME NEW w \in Seq(Mark), NEW k \in Mark
  PROVE  /\ k.kind # "eol" => EolsIn(Append(w, k)) = EolsIn(w) /\ LastEol(Append(w, k)) = LastEol(w)
         /\ k.kind = "eol" => /\ EolsIn(Append(w, k)) = EolsIn(w) \cup {Len(w) + 1}
                              /\ LastEol(Append(w, k)) = Len(w) + 1
<1> DEFINE w2 == Append(w, k)
           n == Len(w)
<1>1. /\ w2 \in Seq(Mark) /\ n \in Nat /\ DOMAIN w = 1 .. n /\ DOMAIN w2 = 1 .. n + 1
      /\ Len(w2) = n + 1 /\ (\A i \in 1 .. n : w2[i] = w[i]) /\ w2[n + 1] = k
  BY OneMore
<1> HIDE DEF w2, n
<1>2. k.kind # "eol" => EolsIn(w2) = EolsIn(w)
  BY <1>1 DEF EolsIn
<1>3. k.kind = "eol" => EolsIn(w2) = EolsIn(w) \cup {n + 1}
  BY <1>1 DEF EolsIn
<1>4. k.kind # "eol" => LastEol(w2) = LastEol(w)
  BY <1>2 DEF LastEol
<1>5. k.kind = "eol" => LastEol(w2) = n + 1
  <2> SUFFICES ASSUME k.kind = "eol" PROVE LastEol(w2) = n + 1
    OBVIOUS
  <2>1. LastEol(w2) \in 0 .. n + 1 /\ \A e \in EolsIn(w2) : e <= LastEol(w2)
    BY <1>1, LastEolIs
  <2>2. n + 1 \in EolsIn(w2)
    BY <1>3
  <2>3. n + 1 <= LastEol(w2)
    BY <2>1, <2>2
  <2> QED BY <1>1, <2>1, <2>3
<1> QED BY <1>2, <1>3, <1>4, <1>5 DEF w2, n

\* A mark leads its line when it is the first of its kind since the line before,
\* and the line is complete.
LEMMA LeadsAre ==
  ASSUME NEW w \in Seq(Mark), NEW p \in Nat, NEW kind
  PROVE  LeadsIn(w, p, kind) <=>
           /\ w[p].kind = kind
           /\ p < LastEol(w)
           /\ \A q \in 1 .. p - 1 : w[q].kind = kind => \E e \in EolsIn(w) : q < e /\ e < p
<1>1. /\ LastEol(w) \in 0 .. Len(w) /\ Len(w) \in Nat
      /\ \A e \in EolsIn(w) : e <= LastEol(w) /\ e \in 1 .. Len(w)
      /\ LastEol(w) \in EolsIn(w) \/ (LastEol(w) = 0 /\ EolsIn(w) = {})
  BY LastEolIs, LenProperties DEF EolsIn
<1> QED BY <1>1 DEF LeadsIn

\* Known marks are settled: one mark more changes neither that they lead their
\* lines, nor which durations they are measured by.
LEMMA LeadsStay ==
  ASSUME NEW w \in Seq(Mark), NEW k \in Mark, NEW kind \in {"Duration:", "time="},
         NEW p \in 1 .. Len(w), p <= LastEol(w)
  PROVE  LeadsIn(Append(w, k), p, kind) <=> LeadsIn(w, p, kind)
<1> DEFINE w2 == Append(w, k)
           n == Len(w)
<1>1. w2 \in Seq(Mark) /\ n \in Nat /\ (\A i \in 1 .. n : w2[i] = w[i]) /\ p \in Nat
  BY OneMore
<1>2. \/ EolsIn(w2) = EolsIn(w) /\ LastEol(w2) = LastEol(w)
      \/ EolsIn(w2) = EolsIn(w) \cup {n + 1} /\ LastEol(w2) = n + 1
  <2>1. CASE k.kind = "eol"
    BY <2>1, EolsGrow
  <2>2. CASE k.kind # "eol"
    BY <2>2, EolsGrow
  <2> QED BY <2>1, <2>2
<1>3. LastEol(w) \in EolsIn(w) /\ LastEol(w) \in 0 .. n /\ w[LastEol(w)].kind = "eol"
  BY <1>1, LastEolIs DEF EolsIn
<1> HIDE DEF w2, n
<1>4. LeadsIn(w, p, kind) <=>
        /\ w[p].kind = kind
        /\ p < LastEol(w)
        /\ \A q \in 1 .. p - 1 : w[q].kind = kind => \E e \in EolsIn(w) : q < e /\ e < p
  BY <1>1, LeadsAre
<1>5. LeadsIn(w2, p, kind) <=>
        /\ w2[p].kind = kind
        /\ p < LastEol(w2)
        /\ \A q \in 1 .. p - 1 : w2[q].kind = kind => \E e \in EolsIn(w2) : q < e /\ e < p
  BY <1>1, LeadsAre
<1>6. w2[p] = w[p] /\ \A q \in 1 .. p - 1 : w2[q] = w[q]
  BY <1>1 DEF n
<1>7. w[p].kind = kind => p < LastEol(w)
  BY <1>3, <1>1
<1>8. p < LastEol(w) => p < LastEol(w2)
  BY <1>1, <1>2, <1>3
<1>9. \A q \in 1 .. p - 1 :
        (\E e \in EolsIn(w2) : q < e /\ e < p) <=> (\E e \in EolsIn(w) : q < e /\ e < p)
  BY <1>1, <1>2 DEF n
<1> QED BY <1>4, <1>5, <1>6, <1>7, <1>8, <1>9 DEF w2

\* All known marks are in complete lines.
LEMMA KnownAre ==
  ASSUME NEW w \in Seq(Mark), NEW kind
  PROVE  \A p \in KnownIn(w, kind) : p \in 1 .. Len(w) /\ p < LastEol(w)
<1>1. DOMAIN w = 1 .. Len(w)
  BY LenProperties
<1> QED BY <1>1, LeadsAre DEF KnownIn

\* Within a line nothing new is known.
LEMMA KnownInLine ==
  ASSUME NEW w \in Seq(Mark), NEW k \in Mark, k.kind # "eol", NEW kind \in {"Duration:", "time="}
  PROVE  KnownIn(Append(w, k), kind) = KnownIn(w, kind)
<1> DEFINE w2 == Append(w, k)
           n == Len(w)
<1>1. w2 \in Seq(Mark) /\ n \in Nat /\ DOMAIN w = 1 .. n /\ DOMAIN w2 = 1 .. n + 1
  BY OneMore
<1>2. LastEol(w2) = LastEol(w) /\ LastEol(w) \in 0 .. n
  BY EolsGrow, LastEolIs
<1>3. \A p \in KnownIn(w2, kind) : p < LastEol(w) /\ p \in 1 .. n + 1
  <2> HIDE DEF w2
  <2> QED BY <1>1, <1>2, KnownAre DEF KnownIn
<1>4. \A p \in KnownIn(w, kind) : p < LastEol(w) /\ p \in 1 .. n
  BY KnownAre
<1>5. \A p \in 1 .. n : p <= LastEol(w) => (LeadsIn(w2, p, kind) <=> LeadsIn(w, p, kind))
  BY LeadsStay
<1> HIDE DEF w2, n
<1>6. ASSUME NEW p \in KnownIn(w2, kind) PROVE p \in KnownIn(w, kind)
  <2>1. p \in 1 .. n /\ p <= LastEol(w)
    BY <1>1, <1>2, <1>3, <1>6
  <2> QED BY <1>1, <1>5, <1>6, <2>1 DEF KnownIn
<1>7. ASSUME NEW p \in KnownIn(w, kind) PROVE p \in KnownIn(w2, kind)
  <2>1. p \in 1 .. n /\ p <= LastEol(w) /\ p \in 1 .. n + 1
    BY <1>1, <1>2, <1>4, <1>7
  <2> QED BY <1>1, <1>5, <1>7, <2>1 DEF KnownIn
<1>8. KnownIn(w2, kind) = KnownIn(w, kind)
  BY <1>6, <1>7
<1> QED BY <1>8 DEF w2

\* The first place of a kind in the line after the last end of a line.
NewIn(w, kind) ==
  {p \in LastEol(w) + 1 .. Len(w) :
     w[p].kind = kind /\ \A q \in LastEol(w) + 1 .. p - 1 : w[q].kind # kind}

\* At the end of a line, its first mark of a kind becomes known.
LEMMA KnownAtEol ==
  ASSUME NEW w \in Seq(Mark), NEW k \in Mark, k.kind = "eol", NEW kind \in {"Duration:", "time="}
  PROVE  KnownIn(Append(w, k), kind) = KnownIn(w, kind) \cup NewIn(w, kind)
<1> DEFINE w2 == Append(w, k)
           n == Len(w)
           L == LastEol(w)
<1>1. /\ w2 \in Seq(Mark) /\ n \in Nat /\ DOMAIN w = 1 .. n /\ DOMAIN w2 = 1 .. n + 1
      /\ (\A i \in 1 .. n : w2[i] = w[i])
  BY OneMore
<1>2. /\ EolsIn(w2) = EolsIn(w) \cup {n + 1} /\ LastEol(w2) = n + 1
  BY EolsGrow
<1>3. /\ L \in 0 .. n /\ (\A e \in EolsIn(w) : e <= L /\ e \in 1 .. n)
      /\ L \in EolsIn(w) \/ L = 0
      /\ L # 0 => w[L].kind = "eol"
  BY <1>1, LastEolIs DEF EolsIn
<1>4. \A p \in 1 .. n : p <= L => (LeadsIn(w2, p, kind) <=> LeadsIn(w, p, kind))
  BY LeadsStay
<1>5. \A p \in KnownIn(w2, kind) : p \in 1 .. n
  <2>1. \A p \in KnownIn(w2, kind) : p < LastEol(w2) /\ p \in 1 .. n + 1
    <3> HIDE DEF w2
    <3> QED BY <1>1, KnownAre DEF KnownIn
  <2> QED BY <1>1, <1>2, <2>1
<1>6. \A p \in KnownIn(w, kind) : p <= L /\ p \in 1 .. n
  <2>1. \A p \in KnownIn(w, kind) : p < L /\ p \in 1 .. n
    BY KnownAre
  <2> QED BY <1>3, <2>1
<1>7. ASSUME NEW p \in L + 1 .. n
      PROVE  LeadsIn(w2, p, kind) <=> w[p].kind = kind /\ \A q \in L + 1 .. p - 1 : w[q].kind # kind
  <2>1. LeadsIn(w2, p, kind) <=>
          /\ w2[p].kind = kind
          /\ p < LastEol(w2)
          /\ \A q \in 1 .. p - 1 : w2[q].kind = kind => \E e \in EolsIn(w2) : q < e /\ e < p
    <3>1. p \in Nat
      BY <1>3, <1>7
    <3> HIDE DEF w2
    <3> QED BY <1>1, <3>1, LeadsAre
  <2> HIDE DEF w2, n, L
  <2>2. p < LastEol(w2) /\ w2[p] = w[p]
    BY <1>1, <1>2, <1>3, <1>7
  <2>3. ASSUME NEW q \in 1 .. p - 1
        PROVE  (w2[q].kind = kind => \E e \in EolsIn(w2) : q < e /\ e < p)
                 <=> (q \in L + 1 .. p - 1 => w[q].kind # kind)
    <3>1. q \in 1 .. n /\ w2[q] = w[q] /\ q \in Nat /\ p \in Nat /\ p <= n
      BY <1>1, <1>3, <1>7
    <3>2. CASE q > L
      <4>1. ~\E e \in EolsIn(w2) : q < e /\ e < p
        BY <1>1, <1>2, <1>3, <3>1, <3>2
      <4>2. q \in L + 1 .. p - 1
        BY <1>3, <3>1, <3>2
      <4> QED BY <3>1, <4>1, <4>2
    <3>3. CASE q = L
      BY <1>3, <3>1, <3>3
    <3>4. CASE q < L
      <4>1. L \in EolsIn(w2) /\ L < p
        BY <1>2, <1>3, <1>7, <3>1, <3>4
      <4> QED BY <1>3, <3>1, <3>4, <4>1
    <3> QED BY <1>3, <3>1, <3>2, <3>3, <3>4
  <2>4. \A q \in L + 1 .. p - 1 : q \in 1 .. p - 1
    BY <1>3, <1>7
  <2> QED BY <2>1, <2>2, <2>3, <2>4
<1> HIDE DEF w2
<1>8. ASSUME NEW p \in KnownIn(w2, kind) PROVE p \in KnownIn(w, kind) \cup NewIn(w, kind)
  <2>1. p \in 1 .. n /\ LeadsIn(w2, p, kind)
    BY <1>5, <1>8 DEF KnownIn
  <2>2. CASE p <= L
    BY <1>1, <1>4, <2>1, <2>2 DEF KnownIn
  <2>3. CASE p > L
    <3>1. p \in L + 1 .. n
      BY <1>3, <2>1, <2>3
    <3> QED BY <1>7, <2>1, <3>1 DEF NewIn
  <2> QED BY <1>3, <2>1, <2>2, <2>3
<1>9. ASSUME NEW p \in KnownIn(w, kind) PROVE p \in KnownIn(w2, kind)
  BY <1>1, <1>4, <1>6, <1>9 DEF KnownIn
<1>10. ASSUME NEW p \in NewIn(w, kind) PROVE p \in KnownIn(w2, kind)
  <2>1. p \in L + 1 .. n /\ p \in 1 .. n + 1
    BY <1>1, <1>3, <1>10 DEF NewIn
  <2>2. LeadsIn(w2, p, kind)
    BY <1>7, <1>10, <2>1 DEF NewIn
  <2> QED BY <1>1, <2>1, <2>2 DEF KnownIn
<1>11. KnownIn(w2, kind) = KnownIn(w, kind) \cup NewIn(w, kind)
  BY <1>8, <1>9, <1>10
<1> QED BY <1>11 DEF w2

\* The Min of a set is the one member below all others.
LEMMA MinIs ==
  ASSUME NEW S \in SUBSET Int, NEW x \in S, \A y \in S : x <= y
  PROVE  Min(S) = x
<1> DEFINE m == CHOOSE z \in S : \A y \in S : z <= y
<1>1. m \in S /\ \A y \in S : m <= y
  OBVIOUS
<1>2. m = x
  <2> HIDE DEF m
  <2> QED BY <1>1
<1> QED BY <1>2 DEF Min

\* The duration of a known mark stays.
LEMMA DurationStays ==
  ASSUME NEW w \in Seq(Mark), NEW k \in Mark, NEW p \in 1 .. Len(w), p < LastEol(w)
  PROVE  DurationIn(Append(w, k), p) = DurationIn(w, p)
<1> DEFINE w2 == Append(w, k)
           n == Len(w)
           later(v) == {e \in EolsIn(v) : e > p}
           end == Min(later(w))
           known(v) == {q \in 1 .. end : LeadsIn(v, q, "Duration:")}
<1>1. /\ w2 \in Seq(Mark) /\ n \in Nat /\ DOMAIN w = 1 .. n /\ DOMAIN w2 = 1 .. n + 1
      /\ (\A i \in 1 .. n : w2[i] = w[i])
  BY OneMore
<1>2. \/ EolsIn(w2) = EolsIn(w)
      \/ EolsIn(w2) = EolsIn(w) \cup {n + 1}
  BY EolsGrow
<1>3. /\ LastEol(w) \in EolsIn(w) /\ LastEol(w) \in 0 .. n
      /\ \A e \in EolsIn(w) : e <= LastEol(w) /\ e \in 1 .. n
  BY <1>1, LastEolIs DEF EolsIn
<1>4. later(w) # {} /\ later(w) \in SUBSET Nat /\ LastEol(w) \in later(w)
  BY <1>3
<1>5. end \in later(w) /\ \A e \in later(w) : end <= e
  <2> HIDE DEF later
  <2> QED BY <1>4, MinExists
<1>6. end \in 1 .. n /\ end <= LastEol(w)
  <2> HIDE DEF end
  <2> QED BY <1>3, <1>4, <1>5
<1>7. Min(later(w2)) = end
  <2>1. end \in later(w2) /\ later(w2) \in SUBSET Int /\ \A e \in later(w2) : end <= e
    <3> HIDE DEF w2, n, end
    <3>1. end \in later(w2)
      BY <1>2, <1>5
    <3>2. ASSUME NEW e \in later(w2) PROVE e \in Int /\ end <= e
      <4>1. CASE e = n + 1
        BY <1>1, <1>6, <4>1
      <4>2. CASE e # n + 1
        <5>1. e \in later(w) /\ e \in 1 .. n
          BY <1>2, <1>3, <3>2, <4>2
        <5> QED BY <1>5, <5>1
      <4> QED BY <4>1, <4>2
    <3> QED BY <3>1, <3>2
  <2> HIDE DEF later, end
  <2> QED BY <2>1, MinIs
<1>8. \A q \in 1 .. end : LeadsIn(w2, q, "Duration:") <=> LeadsIn(w, q, "Duration:")
  <2> SUFFICES ASSUME NEW q \in 1 .. end
               PROVE  LeadsIn(w2, q, "Duration:") <=> LeadsIn(w, q, "Duration:")
    OBVIOUS
  <2>1. q \in 1 .. Len(w) /\ q <= LastEol(w)
    <3> HIDE DEF end
    <3> QED BY <1>1, <1>3, <1>6
  <2>2. "Duration:" \in {"Duration:", "time="}
    OBVIOUS
  <2> QED BY <2>1, <2>2, LeadsStay
<1>9. /\ DurationIn(w, p) = IF known(w) = {} THEN 0 ELSE w[Max(known(w))].n
      /\ DurationIn(w2, p) = IF known(w2) = {} THEN 0 ELSE w2[Max(known(w2))].n
  <2>1. DurationIn(w, p) = IF known(w) = {} THEN 0 ELSE w[Max(known(w))].n
    BY DEF DurationIn
  <2>2. DurationIn(w2, p) = IF known(w2) = {} THEN 0 ELSE w2[Max(known(w2))].n
    <3> HIDE DEF w2, end
    <3> QED BY <1>7 DEF DurationIn
  <2> QED BY <2>1, <2>2
<1> HIDE DEF w2, n, end
<1>10. known(w2) = known(w)
  BY <1>8
<1>11. known(w) # {} => Max(known(w)) \in 1 .. n
  <2>1. known(w) \in SUBSET (1 .. n)
    BY <1>1, <1>6
  <2> HIDE DEF known
  <2> QED BY <1>1, <2>1, MaxExists
<1>12. DurationIn(w2, p) = DurationIn(w, p)
  <2> HIDE DEF known
  <2> QED BY <1>1, <1>9, <1>10, <1>11
<1> QED BY <1>12 DEF w2

\* The duration of a mark that has just become known is the newest one.
LEMMA DurationNow ==
  ASSUME NEW w \in Seq(Mark), NEW k \in Mark, k.kind = "eol",
         NEW p \in LastEol(w) + 1 .. Len(w)
  PROVE  DurationIn(Append(w, k), p) = Total(Append(w, k))
<1> DEFINE w2 == Append(w, k)
           n == Len(w)
           later == {e \in EolsIn(w2) : e > p}
<1>1. w2 \in Seq(Mark) /\ n \in Nat /\ DOMAIN w2 = 1 .. n + 1
  BY OneMore
<1>2. EolsIn(w2) = EolsIn(w) \cup {n + 1}
  BY EolsGrow
<1>3. LastEol(w) \in 0 .. n /\ \A e \in EolsIn(w) : e <= LastEol(w) /\ e \in Int
  BY LastEolIs, LenProperties DEF EolsIn
<1> HIDE DEF w2, n
<1>4. later = {n + 1}
  BY <1>1, <1>2, <1>3 DEF n
<1>5. Min(later) = n + 1
  <2>1. n + 1 \in later /\ later \in SUBSET Int /\ \A e \in later : n + 1 <= e
    BY <1>1, <1>4
  <2> HIDE DEF later
  <2> QED BY <2>1, MinIs
<1>6. DurationIn(w2, p) = Total(w2)
  <2>1. {q \in 1 .. Min(later) : LeadsIn(w2, q, "Duration:")} = KnownIn(w2, "Duration:")
    <3> HIDE DEF later
    <3> QED BY <1>1, <1>5 DEF KnownIn
  <2> QED BY <2>1 DEF DurationIn, Total
<1> QED BY <1>6 DEF w2

\* What parse_hms finds in a line is what the line makes known.
LEMMA ParsedIsNew ==
  ASSUME NEW w \in Seq(Mark), NEW kind
  PROVE  \/ NewIn(w, kind) = {} /\ ParseHms(LineIn(w), kind) = None
         \/ \E p \in LastEol(w) + 1 .. Len(w) :
              NewIn(w, kind) = {p} /\ ParseHms(LineIn(w), kind) = w[p].n
<1> DEFINE s == LineIn(w)
           n == Len(w)
           L == LastEol(w)
           at == {i \in DOMAIN s : s[i].kind = kind}
<1>1. n \in Nat /\ L \in 0 .. n
  BY LenProperties, LastEolIs
<1>2. s \in Seq(Mark) /\ DOMAIN s = 1 .. n - L /\ \A i \in 1 .. n - L : s[i] = w[L + i]
  <2> HIDE DEF L
  <2>1. \A i \in L + 1 .. n : w[i] \in Mark
    BY <1>1
  <2>2. s = SubSeq(w, L + 1, n)
    BY DEF LineIn, L
  <2> HIDE DEF s, n
  <2>3. /\ s \in Seq(Mark) /\ Len(s) = n - L
        /\ \A i \in 1 .. n - (L + 1) + 1 : s[i] = w[L + 1 + i - 1]
    BY <1>1, <2>1, <2>2, SubSeqProperties
  <2>4. DOMAIN s = 1 .. n - L
    BY <2>3, LenProperties
  <2>5. \A i \in 1 .. n - L : s[i] = w[L + i]
    <3> SUFFICES ASSUME NEW i \in 1 .. n - L PROVE s[i] = w[L + i]
      OBVIOUS
    <3>1. i \in 1 .. n - (L + 1) + 1 /\ L + 1 + i - 1 = L + i
      BY <1>1
    <3> QED BY <2>3, <3>1
  <2> QED BY <2>3, <2>4, <2>5
<1>3. ParseHms(s, kind) = IF at = {} THEN None ELSE s[Min(at)].n
  BY DEF ParseHms
<1> HIDE DEF s, n, L
<1>4. at = {i \in 1 .. n - L : w[L + i].kind = kind}
  BY <1>2
<1> HIDE DEF at
<1>5. NewIn(w, kind) =
        {p \in L + 1 .. n : w[p].kind = kind /\ \A q \in L + 1 .. p - 1 : w[q].kind # kind}
  BY DEF NewIn, L, n
<1>6. CASE at = {}
  <2>1. \A p \in L + 1 .. n : w[p].kind # kind
    <3> SUFFICES ASSUME NEW p \in L + 1 .. n, w[p].kind = kind PROVE FALSE
      OBVIOUS
    <3>1. p - L \in 1 .. n - L /\ L + (p - L) = p
      BY <1>1
    <3> QED BY <1>4, <1>6, <3>1
  <2>2. NewIn(w, kind) = {}
    BY <1>5, <2>1
  <2> QED BY <1>3, <1>6, <2>2 DEF s
<1>7. CASE at # {}
  <2> DEFINE m == Min(at)
             p == L + m
  <2>1. m \in at /\ \A i \in at : m <= i
    <3>1. at \in SUBSET Nat
      BY <1>1, <1>4
    <3> QED BY <1>7, <3>1, MinExists
  <2> HIDE DEF m
  <2>2. m \in 1 .. n - L /\ p \in L + 1 .. n /\ w[p].kind = kind /\ p \in Int
    BY <1>1, <1>4, <2>1
  <2>3. ASSUME NEW q \in L + 1 .. n, w[q].kind = kind PROVE p <= q
    <3>1. q - L \in 1 .. n - L /\ L + (q - L) = q
      BY <1>1
    <3>2. q - L \in at
      BY <1>4, <2>3, <3>1
    <3>3. m <= q - L
      BY <2>1, <3>2
    <3> QED BY <1>1, <2>2, <3>3
  <2> HIDE DEF p
  <2>4. NewIn(w, kind) = {p}
    <3>1. p \in NewIn(w, kind)
      <4>1. \A q \in L + 1 .. p - 1 : q \in L + 1 .. n /\ ~(p <= q)
        BY <1>1, <2>2
      <4> QED BY <1>5, <2>2, <2>3, <4>1
    <3>2. ASSUME NEW q \in NewIn(w, kind) PROVE q = p
      <4>1. q \in L + 1 .. n /\ w[q].kind = kind /\ \A r \in L + 1 .. q - 1 : w[r].kind # kind
        BY <1>5, <3>2
      <4>2. p <= q
        BY <2>3, <4>1
      <4>3. ~(p < q)
        BY <1>1, <2>2, <4>1
      <4> QED BY <1>1, <2>2, <4>1, <4>2, <4>3
    <3> QED BY <3>1, <3>2
  <2>5. ParseHms(s, kind) = w[p].n
    BY <1>2, <1>3, <1>7, <2>2 DEF m, p
  <2> QED BY <2>2, <2>4, <2>5 DEF s, L, n
<1> QED BY <1>6, <1>7

\* The durations and the times that count, with one mark more.
LEMMA TotalStep ==
  ASSUME NEW w \in Seq(Mark), NEW k \in Mark
  PROVE  /\ Total(w) \in Nat
         /\ k.kind # "eol" => Total(Append(w, k)) = Total(w)
         /\ k.kind = "eol" =>
              Total(Append(w, k)) =
                IF ParseHms(LineIn(w), "Duration:") = None THEN Total(w)
                ELSE ParseHms(LineIn(w), "Duration:")
<1> DEFINE w2 == Append(w, k)
           n == Len(w)
           L == LastEol(w)
           D == "Duration:"
           known == KnownIn(w, D)
<1>1. /\ w2 \in Seq(Mark) /\ n \in Nat /\ \A i \in 1 .. n : w2[i] = w[i] /\ w[i] \in Mark
  BY OneMore
<1>2. L \in 0 .. n
  BY LastEolIs
<1>3. \A p \in known : p \in 1 .. n /\ p < L
  BY KnownAre
<1>4. known # {} => Max(known) \in known
  <2>1. known \in SUBSET (1 .. n)
    BY <1>3
  <2> HIDE DEF known, n
  <2> QED BY <1>1, <2>1, MaxExists
<1>5. Total(w) = IF known = {} THEN 0 ELSE w[Max(known)].n
  BY DEF Total
<1>6. Total(w) \in Nat
  <2>1. known # {} => w[Max(known)] \in Mark
    BY <1>1, <1>3, <1>4
  <2> HIDE DEF known
  <2> QED BY <1>5, <2>1, Marked
<1>7. Total(w2) = IF KnownIn(w2, D) = {} THEN 0 ELSE w2[Max(KnownIn(w2, D))].n
  BY DEF Total
<1>8. D \in {"Duration:", "time="}
  OBVIOUS
<1> HIDE DEF D
<1>9. KnownIn(w2, D) = known => Total(w2) = Total(w)
  <2> SUFFICES ASSUME KnownIn(w2, D) = known PROVE Total(w2) = Total(w)
    OBVIOUS
  <2>1. CASE known = {}
    BY <1>5, <1>7, <2>1
  <2>2. CASE known # {}
    <3>1. w2[Max(known)] = w[Max(known)]
      BY <1>1, <1>3, <1>4, <2>2
    <3> HIDE DEF known, w2
    <3> QED BY <1>5, <1>7, <2>2, <3>1
  <2> QED BY <2>1, <2>2
<1>10. CASE k.kind # "eol"
  <2>1. KnownIn(w2, D) = known
    BY <1>8, <1>10, KnownInLine
  <2> QED BY <1>6, <1>9, <1>10, <2>1 DEF D
<1>11. CASE k.kind = "eol"
  <2>1. KnownIn(w2, D) = known \cup NewIn(w, D)
    BY <1>8, <1>11, KnownAtEol
  <2>2. CASE NewIn(w, D) = {} /\ ParseHms(LineIn(w), D) = None
    <3>1. KnownIn(w2, D) = known
      BY <2>1, <2>2
    <3> QED BY <1>6, <1>9, <1>11, <2>2, <3>1 DEF D
  <2>3. ASSUME NEW p \in L + 1 .. n, NewIn(w, D) = {p}, ParseHms(LineIn(w), D) = w[p].n
        PROVE  Total(w2) = w[p].n /\ w[p].n # None
    <3>1. p \in 1 .. n /\ \A q \in known \cup {p} : q <= p /\ q \in Int
      BY <1>1, <1>2, <1>3, <2>3
    <3>2. Max(known \cup {p}) = p
      <4>1. known \cup {p} \in SUBSET Int /\ p \in known \cup {p}
        BY <3>1
      <4> HIDE DEF known
      <4> QED BY <3>1, <4>1, MaxIs
    <3>3. w[p].n \in Nat
      BY <1>1, <3>1, Marked
    <3>4. KnownIn(w2, D) = known \cup {p} /\ w2[p] = w[p]
      BY <1>1, <2>1, <2>3, <3>1
    <3> HIDE DEF w2, known
    <3> QED BY <1>7, <3>2, <3>3, <3>4 DEF None
  <2>4. \/ NewIn(w, D) = {} /\ ParseHms(LineIn(w), D) = None
        \/ \E p \in L + 1 .. n : NewIn(w, D) = {p} /\ ParseHms(LineIn(w), D) = w[p].n
    BY ParsedIsNew
  <2>5. Total(w2) = IF ParseHms(LineIn(w), D) = None THEN Total(w) ELSE ParseHms(LineIn(w), D)
    <3>1. CASE NewIn(w, D) = {} /\ ParseHms(LineIn(w), D) = None
      BY <1>9, <2>1, <3>1
    <3>2. CASE \E p \in L + 1 .. n : NewIn(w, D) = {p} /\ ParseHms(LineIn(w), D) = w[p].n
      <4>1. PICK p \in L + 1 .. n : NewIn(w, D) = {p} /\ ParseHms(LineIn(w), D) = w[p].n
        BY <3>2
      <4>2. Total(w2) = w[p].n /\ w[p].n # None
        BY <2>3, <4>1
      <4> QED BY <4>1, <4>2
    <3> QED BY <2>4, <3>1, <3>2
  <2> QED BY <1>6, <1>11, <2>5 DEF D
<1> QED BY <1>10, <1>11

\* The times that count.
LEMMA TimesStep ==
  ASSUME NEW w \in Seq(Mark), NEW k \in Mark
  PROVE  /\ k.kind # "eol" => TimesIn(Append(w, k)) = TimesIn(w)
         /\ k.kind = "eol" =>
              TimesIn(Append(w, k)) =
                TimesIn(w) \cup {p \in NewIn(w, "time=") : Total(Append(w, k)) > 0}
<1> DEFINE w2 == Append(w, k)
           T == "time="
<1>1. \A v : TimesIn(v) = {p \in KnownIn(v, T) : DurationIn(v, p) > 0}
  BY DEF TimesIn, KnownIn
<1>2. \A p \in KnownIn(w, T) : DurationIn(w2, p) = DurationIn(w, p)
  BY KnownAre, DurationStays
<1>3. T \in {"Duration:", "time="}
  OBVIOUS
<1>4. k.kind # "eol" => KnownIn(w2, T) = KnownIn(w, T)
  BY <1>3, KnownInLine
<1>5. k.kind = "eol" => KnownIn(w2, T) = KnownIn(w, T) \cup NewIn(w, T)
  BY <1>3, KnownAtEol
<1>6. k.kind = "eol" => \A p \in NewIn(w, T) : DurationIn(w2, p) = Total(w2)
  BY DurationNow DEF NewIn
<1> HIDE DEF w2, T
<1>7. k.kind # "eol" => TimesIn(w2) = TimesIn(w)
  BY <1>1, <1>2, <1>4
<1>8. k.kind = "eol" => TimesIn(w2) = TimesIn(w) \cup {p \in NewIn(w, T) : Total(w2) > 0}
  BY <1>1, <1>2, <1>5, <1>6
<1> QED BY <1>7, <1>8 DEF w2, T

\* The percentage of the newest time, with one mark more.
LEMMA NewestStep ==
  ASSUME NEW w \in Seq(Mark), NEW k \in Mark
  PROVE  /\ k.kind # "eol" => Newest(Append(w, k)) = Newest(w)
         /\ k.kind = "eol" =>
              Newest(Append(w, k)) =
                IF Total(Append(w, k)) > 0 /\ ParseHms(LineIn(w), "time=") # None
                THEN Percent(ParseHms(LineIn(w), "time="), Total(Append(w, k)))
                ELSE Newest(w)
<1> DEFINE w2 == Append(w, k)
           n == Len(w)
           L == LastEol(w)
           T == "time="
           times == TimesIn(w)
<1>1. /\ w2 \in Seq(Mark) /\ n \in Nat /\ \A i \in 1 .. n : w2[i] = w[i] /\ w[i] \in Mark
  BY OneMore
<1>2. L \in 0 .. n
  BY LastEolIs
<1>3. \A p \in times : p \in 1 .. n /\ p < L
  <2>1. times \subseteq KnownIn(w, T)
    BY DEF TimesIn, KnownIn
  <2> QED BY <2>1, KnownAre
<1>4. times # {} => Max(times) \in times
  <2>1. times \in SUBSET (1 .. n)
    BY <1>3
  <2> HIDE DEF times, n
  <2> QED BY <1>1, <2>1, MaxExists
<1>5. Newest(w) = IF times = {} THEN None ELSE Percent(w[Max(times)].n, DurationIn(w, Max(times)))
  BY DEF Newest
<1>6. Newest(w2) = IF TimesIn(w2) = {} THEN None
                   ELSE Percent(w2[Max(TimesIn(w2))].n, DurationIn(w2, Max(TimesIn(w2))))
  BY DEF Newest
<1>7. ASSUME TimesIn(w2) = times PROVE Newest(w2) = Newest(w)
  <2>1. CASE times = {}
    BY <1>5, <1>6, <1>7, <2>1
  <2>2. CASE times # {}
    <3>1. w2[Max(times)] = w[Max(times)]
      BY <1>1, <1>3, <1>4, <2>2
    <3>2. DurationIn(w2, Max(times)) = DurationIn(w, Max(times))
      BY <1>3, <1>4, <2>2, DurationStays
    <3> HIDE DEF times, w2
    <3> QED BY <1>5, <1>6, <1>7, <2>2, <3>1, <3>2
  <2> QED BY <2>1, <2>2
<1>8. CASE k.kind # "eol"
  <2>1. TimesIn(w2) = times
    BY <1>8, TimesStep
  <2> QED BY <1>7, <1>8, <2>1
<1>9. CASE k.kind = "eol"
  <2>1. TimesIn(w2) = times \cup {p \in NewIn(w, T) : Total(w2) > 0}
    BY <1>9, TimesStep
  <2>2. CASE NewIn(w, T) = {} /\ ParseHms(LineIn(w), T) = None
    <3>1. TimesIn(w2) = times
      BY <2>1, <2>2
    <3> QED BY <1>7, <1>9, <2>2, <3>1
  <2>3. ASSUME NEW p \in L + 1 .. n, NewIn(w, T) = {p}, ParseHms(LineIn(w), T) = w[p].n
        PROVE  Newest(w2) = IF Total(w2) > 0 /\ ParseHms(LineIn(w), T) # None
                            THEN Percent(ParseHms(LineIn(w), T), Total(w2)) ELSE Newest(w)
    <3>1. p \in 1 .. n /\ \A q \in times \cup {p} : q <= p /\ q \in Int
      BY <1>1, <1>2, <1>3, <2>3
    <3>2. w2[p] = w[p] /\ w[p].n \in Nat
      BY <1>1, <3>1, Marked
    <3>3. CASE Total(w2) > 0
      <4>1. TimesIn(w2) = times \cup {p}
        <5> HIDE DEF w2, times
        <5> QED BY <2>1, <2>3, <3>3
      <4>2. Max(times \cup {p}) = p
        <5>1. times \cup {p} \in SUBSET Int /\ p \in times \cup {p}
          BY <3>1
        <5> HIDE DEF times
        <5> QED BY <3>1, <5>1, MaxIs
      <4>3. DurationIn(w2, p) = Total(w2)
        BY <1>9, DurationNow
      <4> HIDE DEF w2, times
      <4> QED BY <1>6, <2>3, <3>2, <3>3, <4>1, <4>2, <4>3 DEF None
    <3>4. CASE ~(Total(w2) > 0)
      <4>1. TimesIn(w2) = times
        <5> HIDE DEF w2, times
        <5> QED BY <2>1, <3>4
      <4> QED BY <1>7, <3>4, <4>1
    <3> QED BY <3>3, <3>4
  <2>4. \/ NewIn(w, T) = {} /\ ParseHms(LineIn(w), T) = None
        \/ \E p \in L + 1 .. n : NewIn(w, T) = {p} /\ ParseHms(LineIn(w), T) = w[p].n
    BY ParsedIsNew
  <2> HIDE DEF L, n
  <2> QED BY <1>9, <2>2, <2>3, <2>4
<1> QED BY <1>8, <1>9

-----------------------------------------------------------------------------
(* One mark, one chunk *)

\* The text of all complete lines of w.
Ended(w) == TextOf(SubSeq(w, 1, LastEol(w)))

\* What the loop has made of the output w: unless the cut of some line had no
\* place, everything is as the complete lines say.
OutInv(w, st) ==
  /\ st.panicked => \E e \in EolsIn(w) : Lost(TextOf(SubSeq(w, 1, e)))
  /\ ~st.panicked =>
       /\ st.line = LineIn(w)
       /\ TextOf(w) = Ended(w) \o st.line
       /\ st.duration = Total(w)
       /\ st.pct = Newest(w)
       /\ TailOf(st.tail, Ended(w))
       /\ \A e \in EolsIn(w) : ~Lost(TextOf(SubSeq(w, 1, e)))

\* The locals as they are.
Now == [line |-> line, duration |-> duration, tail |-> tail, pct |-> pct, panicked |-> panicked]

\* Take makes a state of a state.
LEMMA TakeTyped ==
  ASSUME TailMax \in Nat, NEW st \in State, NEW k \in Mark
  PROVE  Take(st, k) \in State
<1> USE DEF State
<1>1. CASE st.panicked
  BY <1>1 DEF Take
<1>2. CASE ~st.panicked /\ k.kind # "eol"
  <2>1. Take(st, k) = [st EXCEPT !.line = Append(@, k)]
    BY <1>2 DEF Take
  <2>2. Append(st.line, k) \in Seq(Mark)
    BY AppendProperties
  <2> QED BY <2>1, <2>2
<1>3. CASE ~st.panicked /\ k.kind = "eol" /\ st.line = <<>>
  <2>1. Take(st, k) = st
    BY <1>3 DEF Take
  <2> QED BY <2>1
<1>4. CASE ~st.panicked /\ k.kind = "eol" /\ st.line # <<>>
  <2>1. Take(st, k) = EndLine(st)
    BY <1>4 DEF Take
  <2>2. EndLine(st).panicked \in BOOLEAN /\ EndLine(st).tail \in Seq(Mark)
    BY EndLineTail
  <2>3. ASSUME NEW kind PROVE ParseHms(st.line, kind) \in Int
    <3> DEFINE at == {i \in DOMAIN st.line : st.line[i].kind = kind}
    <3>1. at \in SUBSET Nat /\ \A i \in at : st.line[i] \in Mark
      BY LenProperties
    <3>2. ParseHms(st.line, kind) = IF at = {} THEN None ELSE st.line[Min(at)].n
      BY DEF ParseHms
    <3> HIDE DEF at
    <3>3. ASSUME at # {} PROVE st.line[Min(at)].n \in Int
      <4>1. Min(at) \in at
        BY <3>1, <3>3, MinExists
      <4>2. st.line[Min(at)] \in Mark
        BY <3>1, <4>1
      <4> QED BY <4>2, Marked
    <3> QED BY <3>2, <3>3 DEF None
  <2>4. ASSUME NEW t \in Int, NEW d \in Int, d > 0 PROVE Percent(t, d) \in Int
    <3> DEFINE q == (100 * t) \div d
    <3>1. q \in Int
      BY <2>4
    <3> HIDE DEF q
    <3>2. Min({q, 100}) \in Int
      <4> DEFINE S == {q, 100}
      <4>0. S \in SUBSET Int /\ q \in S /\ 100 \in S
        BY <3>1
      <4>1. CASE q <= 100
        <5>1. \A y \in S : q <= y
          BY <3>1, <4>1
        <5> HIDE DEF S
        <5>2. Min(S) = q
          BY <4>0, <5>1, MinIs
        <5> QED BY <3>1, <5>2 DEF S
      <4>2. CASE q > 100
        <5>1. \A y \in S : 100 <= y
          BY <3>1, <4>2
        <5> HIDE DEF S
        <5>2. Min(S) = 100
          BY <4>0, <5>1, MinIs
        <5> QED BY <5>2 DEF S
      <4> QED BY <3>1, <4>1, <4>2
    <3> QED BY <3>2 DEF Percent, q
  <2> DEFINE d == ParseHms(st.line, "Duration:")
             t == ParseHms(st.line, "time=")
             total == IF d = None THEN st.duration ELSE d
             announced == IF total > 0 /\ t # None THEN Percent(t, total) ELSE st.pct
             left == EndLine(st).tail
             lost == EndLine(st).panicked
  <2>5. d \in Int /\ t \in Int /\ total \in Int
    <3>1. d \in Int /\ t \in Int
      BY <2>3
    <3> QED BY <3>1
  <2>6. EndLine(st) = [line |-> <<>>, duration |-> total, pct |-> announced,
                       tail |-> left, panicked |-> lost]
    BY DEF EndLine
  <2>7. announced \in Int
    <3> HIDE DEF d, t, total
    <3> QED BY <2>4, <2>5
  <2>8. <<>> \in Seq(Mark)
    BY EmptySeq
  <2> HIDE DEF total, announced, left, lost
  <2>9. left \in Seq(Mark) /\ lost \in BOOLEAN
    BY <2>2 DEF left, lost
  <2>10. [line |-> <<>>, duration |-> total, pct |-> announced,
          tail |-> left, panicked |-> lost] \in State
    BY <2>5, <2>7, <2>8, <2>9
  <2> QED BY <2>1, <2>6, <2>10
<1> QED BY <1>1, <1>2, <1>3, <1>4

\* What is before a mark stays.
LEMMA BeforeStays ==
  ASSUME NEW w \in Seq(Mark), NEW k \in Mark
  PROVE  /\ \A e \in 0 .. Len(w) : SubSeq(Append(w, k), 1, e) = SubSeq(w, 1, e)
         /\ SubSeq(Append(w, k), 1, Len(w) + 1) = Append(w, k)
OBVIOUS

\* One mark more.
LEMMA OutStep ==
  ASSUME TailMax \in Nat, NEW w \in Seq(Mark), NEW st \in State, OutInv(w, st), NEW k \in Mark
  PROVE  OutInv(Append(w, k), Take(st, k))
<1> DEFINE w2 == Append(w, k)
           n == Len(w)
           L == LastEol(w)
           st2 == Take(st, k)
           text(v, e) == TextOf(SubSeq(v, 1, e))
<1>1. /\ w2 \in Seq(Mark) /\ n \in Nat /\ DOMAIN w = 1 .. n /\ DOMAIN w2 = 1 .. n + 1
      /\ Len(w2) = n + 1 /\ (\A i \in 1 .. n : w2[i] = w[i] /\ w[i] \in Mark) /\ w2[n + 1] = k
  BY OneMore
<1>2. /\ \A e \in EolsIn(w) : e \in 0 .. n
      /\ L \in 0 .. n
      /\ L \in EolsIn(w) \/ L = 0
  BY LastEolIs, LenProperties DEF EolsIn
<1>3. \A e \in 0 .. n : text(w2, e) = text(w, e)
  BY BeforeStays
<1>4. text(w2, n + 1) = TextOf(w2) /\ TextOf(w2) = AddMark(TextOf(w), k)
  BY BeforeStays, TextSteps
<1>5. \A e \in EolsIn(w) : e \in EolsIn(w2)
  BY EolsGrow
<1>6. TextOf(w) \in Seq(Mark) /\ text(w, L) \in Seq(Mark) /\ Ended(w) = text(w, L)
  <2>1. SubSeq(w, 1, L) \in Seq(Mark)
    <3> HIDE DEF L
    <3> QED BY <1>1, <1>2
  <2> QED BY <2>1, TextSteps DEF Ended
<1> HIDE DEF text
<1>7. CASE st.panicked
  <2>1. st2 = st
    BY <1>7 DEF Take
  <2>2. PICK e \in EolsIn(w) : Lost(text(w, e))
    BY <1>7 DEF OutInv, text
  <2>3. e \in EolsIn(w2) /\ Lost(text(w2, e))
    <3> HIDE DEF w2, n
    <3> QED BY <1>2, <1>3, <1>5, <2>2
  <2> QED BY <1>7, <2>1, <2>3 DEF OutInv, text
<1>8. ASSUME ~st.panicked
      PROVE  /\ st.line = LineIn(w)
             /\ TextOf(w) = text(w, L) \o st.line
             /\ st.duration = Total(w) /\ st.pct = Newest(w)
             /\ TailOf(st.tail, text(w, L))
             /\ \A e \in EolsIn(w) : ~Lost(text(w, e))
  BY <1>6, <1>8 DEF OutInv, text
<1>9. CASE ~st.panicked /\ k.kind # "eol"
  <2>1. st2 = [st EXCEPT !.line = Append(@, k)]
    BY <1>9 DEF Take
  <2>2. /\ ~st2.panicked /\ st2.line = Append(st.line, k) /\ st2.duration = st.duration
        /\ st2.pct = st.pct /\ st2.tail = st.tail
    BY <1>9, <2>1 DEF State
  <2>3. EolsIn(w2) = EolsIn(w) /\ LastEol(w2) = L
    BY <1>9, EolsGrow
  <2>4. Ended(w2) = text(w, L)
    <3>1. Ended(w2) = text(w2, L)
      BY <2>3 DEF Ended, text
    <3> QED BY <1>2, <1>3, <3>1
  <2>5. LineIn(w2) = Append(LineIn(w), k)
    <3>1. LineIn(w2) = SubSeq(w2, L + 1, n + 1) /\ LineIn(w) = SubSeq(w, L + 1, n)
      BY <1>1, <2>3 DEF LineIn
    <3>2. SubSeq(Append(w, k), L + 1, n + 1) = Append(SubSeq(w, L + 1, n), k)
      <4>1. L + 1 \in 1 .. n + 1 /\ n + 1 \in L + 1 .. n + 1
        BY <1>1, <1>2
      <4>2. SubSeq(w2, L + 1, n + 1) = SubSeq(w2, L + 1, n) \o <<w2[n + 1]>>
        <5> DEFINE from == L + 1
                   to == n + 1
        <5>1. /\ from \in 1 .. Len(w2) /\ to \in from .. Len(w2)
              /\ from = L + 1 /\ to = n + 1 /\ to - 1 = n
          BY <1>1, <4>1
        <5> HIDE DEF w2, from, to
        <5>2. SubSeq(w2, from, to) = SubSeq(w2, from, to - 1) \o <<w2[to]>>
          BY <1>1, <5>1, SubSeqRecursiveSecond
        <5> QED BY <5>1, <5>2
      <4>3. SubSeq(w2, L + 1, n) = SubSeq(w, L + 1, n) /\ SubSeq(w, L + 1, n) \in Seq(Mark)
        <5> HIDE DEF w2, n, L
        <5> QED BY <1>1, <1>2
      <4>4. \A a \in Seq(Mark) : Append(a, k) = a \o <<k>>
        BY AppendIsConcat
      <4> QED BY <1>1, <4>2, <4>3, <4>4
    <3> QED BY <3>1, <3>2
  <2>6. TextOf(w2) = text(w, L) \o st2.line
    <3>1. TextOf(w2) = Append(TextOf(w), k)
      BY <1>4, <1>9 DEF AddMark
    <3>2. \A a, b \in Seq(Mark) : Append(a \o b, k) = a \o Append(b, k)
      OBVIOUS
    <3>3. st.line \in Seq(Mark)
      BY DEF State
    <3> HIDE DEF w2, st2
    <3> QED BY <1>6, <1>8, <1>9, <2>2, <3>1, <3>2, <3>3
  <2>7. Total(w2) = Total(w) /\ Newest(w2) = Newest(w)
    BY <1>9, TotalStep, NewestStep
  <2>8. \A e \in EolsIn(w2) : ~Lost(text(w2, e))
    <3> HIDE DEF w2, n
    <3> QED BY <1>2, <1>3, <1>8, <1>9, <2>3
  <2> HIDE DEF w2, st2
  <2>9. OutInv(w2, st2)
    BY <1>8, <1>9, <2>2, <2>4, <2>5, <2>6, <2>7, <2>8 DEF OutInv, text
  <2> QED BY <2>9 DEF w2, st2
<1>10. ASSUME ~st.panicked, k.kind = "eol"
       PROVE  /\ EolsIn(w2) = EolsIn(w) \cup {n + 1} /\ LineIn(w2) = <<>>
              /\ TextOf(w2) = text(w, L) \o st.line
              /\ Ended(w2) = TextOf(w2) /\ TextOf(w2) = Ended(w2) \o <<>>
  <2>1. EolsIn(w2) = EolsIn(w) \cup {n + 1} /\ LastEol(w2) = n + 1
    BY <1>10, EolsGrow
  <2>2. LineIn(w2) = <<>>
    <3> HIDE DEF w2, n
    <3> QED BY <1>1, <2>1, SubSeqEmpty DEF LineIn
  <2>3. TextOf(w2) = TextOf(w)
    BY <1>4, <1>10 DEF AddMark
  <2>4. Ended(w2) = TextOf(w2)
    BY <1>4, <2>1 DEF Ended, text
  <2>5. TextOf(w2) \o <<>> = TextOf(w2)
    <3> HIDE DEF w2
    <3> QED BY <1>6, <2>3, ConcatEmptySeq
  <2> QED BY <1>8, <1>10, <2>1, <2>2, <2>3, <2>4, <2>5
<1>11. CASE ~st.panicked /\ k.kind = "eol" /\ st.line = <<>>
  <2>1. st2 = st
    BY <1>11 DEF Take
  <2>2. TextOf(w2) = text(w, L)
    <3>1. TextOf(w2) = text(w, L) \o <<>>
      BY <1>10, <1>11
    <3> QED BY <1>6, <3>1, ConcatEmptySeq
  <2>3. ASSUME NEW kind PROVE ParseHms(LineIn(w), kind) = None
    BY <1>8, <1>11 DEF ParseHms
  <2>4. Total(w2) = Total(w) /\ Newest(w2) = Newest(w)
    BY <1>11, <2>3, TotalStep, NewestStep
  <2>5. \A e \in EolsIn(w2) : ~Lost(text(w2, e))
    <3>1. ~Lost(text(w, L))
      BY <1>8, <1>11 DEF TailOf, Lost
    <3>2. ~Lost(text(w2, n + 1))
      BY <1>4, <2>2, <3>1
    <3> HIDE DEF w2, n
    <3> QED BY <1>2, <1>3, <1>8, <1>10, <1>11, <3>2
  <2> HIDE DEF w2, st2
  <2>6. OutInv(w2, st2)
    BY <1>8, <1>10, <1>11, <2>1, <2>2, <2>4, <2>5 DEF OutInv, text
  <2> QED BY <2>6 DEF w2, st2
<1>12. CASE ~st.panicked /\ k.kind = "eol" /\ st.line # <<>>
  <2> DEFINE d == ParseHms(LineIn(w), "Duration:")
             t == ParseHms(LineIn(w), "time=")
  <2>1. st2 = EndLine(st)
    BY <1>12 DEF Take
  <2>2. /\ st2.line = <<>>
        /\ st2.duration = IF d = None THEN Total(w) ELSE d
        /\ st2.pct = IF st2.duration > 0 /\ t # None THEN Percent(t, st2.duration) ELSE Newest(w)
    <3>1. st.line = LineIn(w) /\ st.duration = Total(w) /\ st.pct = Newest(w)
      BY <1>8, <1>12
    <3> QED BY <2>1, <3>1 DEF EndLine
  <2>3. st2.duration = Total(w2) /\ st2.pct = Newest(w2)
    <3>1. Total(w2) = IF d = None THEN Total(w) ELSE d
      BY <1>12, TotalStep
    <3>2. Newest(w2) = IF Total(w2) > 0 /\ t # None THEN Percent(t, Total(w2)) ELSE Newest(w)
      BY <1>12, NewestStep
    <3> HIDE DEF w2, st2, d, t
    <3> QED BY <2>2, <3>1, <3>2
  <2> DEFINE kept == st.tail \o st.line
             all == text(w, L) \o st.line
  <2>4. st.tail \in Seq(Mark) /\ st.line \in Seq(Mark)
    BY DEF State
  <2>5. /\ Lost(kept) <=> Lost(all)
        /\ Short(kept) => TailOf(kept, all)
        /\ \A y \in LastBytes(kept) : ~Short(kept) => TailOf(y, all)
    BY <1>6, <1>8, <1>12, <2>4, TailStep
  <2>6. /\ st2.panicked <=> Lost(kept)
        /\ Short(kept) => st2.tail = kept
        /\ ~Short(kept) /\ ~Lost(kept) => st2.tail \in LastBytes(kept)
    BY <2>1, EndLineTail
  <2>7. Lost(kept) => ~Short(kept)
    BY DEF Lost
  <2> HIDE DEF kept, st2
  <2>8. ~st2.panicked => TailOf(st2.tail, all)
    <3> HIDE DEF all
    <3> QED BY <2>5, <2>6, <2>7
  <2>9. TextOf(w2) = all /\ text(w2, n + 1) = all
    BY <1>4, <1>10, <1>12
  <2> HIDE DEF all, w2, n
  <2>10. st2.panicked => \E e \in EolsIn(w2) : Lost(text(w2, e))
    BY <1>10, <1>12, <2>5, <2>6, <2>9
  <2>11. ~st2.panicked => \A e \in EolsIn(w2) : ~Lost(text(w2, e))
    BY <1>2, <1>3, <1>8, <1>10, <1>12, <2>5, <2>6, <2>9
  <2>12. OutInv(w2, st2)
    BY <1>10, <1>12, <2>2, <2>3, <2>8, <2>9, <2>10, <2>11 DEF OutInv, text
  <2> QED BY <2>12 DEF w2, st2
<1> QED BY <1>7, <1>9, <1>11, <1>12

\* A chunk more, taken in mark by mark: where it is cut does not matter.
LEMMA OutChunk ==
  ASSUME TailMax \in Nat, NEW w \in Seq(Mark), NEW st \in State, OutInv(w, st),
         NEW c \in Seq(Mark)
  PROVE  FoldLeft(Take, st, c) \in State /\ OutInv(w \o c, FoldLeft(Take, st, c))
<1> DEFINE n == Len(c)
           P(i) == SubSeq(c, 1, i)
<1>1. n \in Nat /\ P(0) = <<>> /\ P(n) = c /\ w \o <<>> = w
  BY LenProperties, SubSeqEmpty, SubSeqFull, ConcatEmptySeq
<1>2. \A i \in 0 .. n : P(i) \in Seq(Mark)
  BY <1>1, SubSeqProperties
<1>3. ASSUME NEW i \in 1 .. n
      PROVE  w \o P(i - 1) \in Seq(Mark) /\ w \o P(i) = Append(w \o P(i - 1), c[i]) /\ c[i] \in Mark
  <2>1. P(i) = Append(P(i - 1), c[i])
    BY <1>1
  <2>2. P(i - 1) \in Seq(Mark) /\ c[i] \in Mark
    BY <1>2
  <2> HIDE DEF P
  <2>3. w \o Append(P(i - 1), c[i]) = Append(w \o P(i - 1), c[i])
    BY <2>2
  <2> QED BY <2>1, <2>2, <2>3, ConcatProperties
<1>4. PICK f : LoopOf(State, n, st, Takes(c), f) /\ f[n] = FoldLeft(Take, st, c)
  BY TakeTyped, TakeLoop
<1>5. /\ \A i \in 0 .. n : f[i] \in State
      /\ f[0] = st
      /\ \A i \in 1 .. n : f[i] = Take(f[i - 1], c[i])
  <2>1. f \in [0 .. n -> State] /\ f[0] = st /\ \A i \in 1 .. n : f[i] = Takes(c)[i][f[i - 1]]
    BY <1>4 DEF LoopOf
  <2>2. ASSUME NEW i \in 1 .. n PROVE f[i] = Take(f[i - 1], c[i])
    <3>1. f[i - 1] \in State
      BY <1>1, <2>1
    <3>2. Takes(c)[i][f[i - 1]] = Take(f[i - 1], c[i])
      BY <3>1 DEF Takes
    <3> QED BY <2>1, <3>2
  <2> QED BY <2>1, <2>2
<1> HIDE DEF P, n
<1> DEFINE bad == {i \in 0 .. n : ~OutInv(w \o P(i), f[i])}
<1>6. bad = {}
  <2> SUFFICES ASSUME bad # {} PROVE FALSE
    OBVIOUS
  <2>1. PICK i \in bad : \A j \in bad : i <= j
    <3>1. bad \in SUBSET Nat
      BY <1>1
    <3> HIDE DEF bad
    <3> QED BY <3>1, LeastMember
  <2>2. i \in 0 .. n /\ ~OutInv(w \o P(i), f[i])
    BY <2>1
  <2>3. i # 0
    <3> SUFFICES ASSUME i = 0 PROVE FALSE
      OBVIOUS
    <3>1. w \o P(i) = w /\ f[i] = st
      BY <1>1, <1>5
    <3> QED BY <2>2, <3>1
  <2>4. i \in 1 .. n /\ i - 1 \in 0 .. n
    BY <1>1, <2>2, <2>3
  <2>5. OutInv(w \o P(i - 1), f[i - 1])
    BY <1>1, <2>1, <2>2, <2>4
  <2>6. OutInv(Append(w \o P(i - 1), c[i]), Take(f[i - 1], c[i]))
    BY <1>3, <1>5, <2>4, <2>5, OutStep
  <2> QED BY <1>3, <1>5, <2>2, <2>4, <2>6
<1>7. n \in 0 .. n
  BY <1>1
<1>8. OutInv(w \o P(n), f[n]) /\ f[n] \in State
  BY <1>5, <1>6, <1>7
<1> QED BY <1>1, <1>4, <1>8

\* The loop of run_ffmpeg, after any chunks.
LoopInv ==
  /\ written \in Seq(Mark)
  /\ Now \in State
  /\ OutInv(written, Now)

\* It starts so.
LEMMA LoopInit ==
  ASSUME TailMax \in Nat
  PROVE  Init => LoopInv
<1> SUFFICES ASSUME Init PROVE LoopInv
  OBVIOUS
<1>1. /\ written = <<>> /\ <<>> \in Seq(Mark)
      /\ Now = [line |-> <<>>, duration |-> 0, tail |-> <<>>, pct |-> None, panicked |-> FALSE]
  BY EmptySeq DEF Init, Now
<1>2. [line |-> <<>>, duration |-> 0, tail |-> <<>>, pct |-> None, panicked |-> FALSE] \in State
  BY <1>1 DEF State, None
<1>3. DOMAIN <<>> = {} /\ Len(<<>>) = 0
  OBVIOUS
<1>4. /\ EolsIn(<<>>) = {} /\ LastEol(<<>>) = 0
      /\ KnownIn(<<>>, "Duration:") = {} /\ TimesIn(<<>>) = {}
  BY <1>3 DEF EolsIn, LastEol, KnownIn, TimesIn
<1>5. LineIn(<<>>) = <<>> /\ SubSeq(<<>>, 1, 0) = <<>> /\ Total(<<>>) = 0 /\ Newest(<<>>) = None
  BY <1>3, <1>4, SubSeqEmpty DEF LineIn, Total, Newest
<1>6. Ended(<<>>) = <<>> /\ TextOf(<<>>) = <<>> /\ <<>> \o <<>> = <<>>
  BY <1>1, <1>4, <1>5, TextSteps, ConcatEmptySeq DEF Ended
<1>7. TailOf(<<>>, <<>>)
  BY SizeSteps DEF TailOf, Short
<1>8. OutInv(written, Now)
  BY <1>1, <1>4, <1>5, <1>6, <1>7 DEF OutInv
<1> QED BY <1>1, <1>2, <1>8 DEF LoopInv

\* A chunk keeps it.
LEMMA LoopNext ==
  ASSUME TailMax \in Nat, LoopInv, [Next]_vars
  PROVE  LoopInv'
<1>1. CASE UNCHANGED vars
  BY <1>1 DEF LoopInv, Now, vars
<1>2. ASSUME NEW n \in 1 .. MaxChunk, NEW c \in [1 .. n -> Mark], Chunk(c)
      PROVE  LoopInv'
  <2> DEFINE st == [line |-> line, duration |-> duration, tail |-> tail,
                    pct |-> pct, panicked |-> FALSE]
             end == FoldLeft(Take, st, c)
  <2>1. c \in Seq(Mark)
    OBVIOUS
  <2>2. st = Now /\ written' = written \o c /\ written \in Seq(Mark)
    <3>1. panicked = FALSE
      BY <1>2 DEF LoopInv, Now, State, Chunk
    <3> QED BY <1>2, <3>1 DEF LoopInv, Now, Chunk
  <2>3. /\ line' = end.line /\ duration' = end.duration /\ tail' = end.tail
        /\ pct' = end.pct /\ panicked' = end.panicked
    BY <1>2 DEF Chunk, Pending
  <2>4. st \in State /\ OutInv(written, st)
    BY <2>2 DEF LoopInv
  <2> HIDE DEF st
  <2>5. end \in State /\ OutInv(written \o c, end)
    BY <2>1, <2>2, <2>4, OutChunk
  <2> HIDE DEF end
  <2>6. Now' = end
    BY <2>3, <2>5 DEF Now, State
  <2>7. written' \in Seq(Mark)
    BY <2>1, <2>2, ConcatProperties
  <2> QED BY <2>2, <2>5, <2>6, <2>7 DEF LoopInv
<1> QED BY <1>1, <1>2 DEF Next

\* After any chunks, with a tail of any length.
LEMMA LoopInvariant ==
  ASSUME TailMax \in Nat
  PROVE  Spec => []LoopInv
BY LoopInit, LoopNext, PTL DEF Spec

\* For every output, cut into any chunks: what was announced last is the newest
\* time of a complete line, as a part of the newest duration.
THEOREM AnnouncesTheNewest ==
  ASSUME TailMax \in Nat
  PROVE  Spec => []ProgressIsCurrent
<1>1. LoopInv => ProgressIsCurrent
  <2> SUFFICES ASSUME LoopInv, ~panicked
               PROVE  pct = Newest(written)
    BY DEF ProgressIsCurrent, Newest, TimesIn, LeadsIn, DurationIn, EolsIn,
           Leads, DurationAt, Eols
  <2> QED BY DEF LoopInv, OutInv, Now
<1> QED BY <1>1, LoopInvariant, PTL

\* For every output, cut into any chunks: the tail is the last bytes of all the
\* complete lines, and the loop panics just where those begin inside a character.
THEOREM KeepsTheEnd ==
  ASSUME TailMax \in Nat
  PROVE  Spec => []TailIsEnd
<1>1. LoopInv => TailIsEnd
  <2> SUFFICES ASSUME LoopInv PROVE TailIsEnd
    OBVIOUS
  <2>1. Eols = EolsIn(written) /\ \A e : TextTo(e) = TextOf(SubSeq(written, 1, e))
    BY DEF Eols, EolsIn, TextTo, TextOf
  <2>2. panicked <=> \E e \in EolsIn(written) : Lost(TextOf(SubSeq(written, 1, e)))
    BY DEF LoopInv, OutInv, Now, State
  <2>3. ~panicked => TailOf(tail, Ended(written))
    BY DEF LoopInv, OutInv, Now, State
  <2>4. Ended(written) = TextTo(IF Eols = {} THEN 0 ELSE Max(Eols))
    BY <2>1 DEF Ended, LastEol
  <2> QED BY <2>1, <2>2, <2>3, <2>4 DEF TailIsEnd, TailOf, Lost
<1> QED BY <1>1, LoopInvariant, PTL
==============================================================================
