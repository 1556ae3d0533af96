-------------------------- MODULE CommandLineProofs --------------------------
(* What normalize_argv, Click and the root callback do with any line and any *)
(* set of commands and plugins.  Two invariants: LineInv shares the tokens   *)
(* out, MeansInv says what Click will read of them.                          *)
EXTENDS CommandLine, FiniteSetTheorems, SequenceTheorems, WellFoundedInduction, TLAPS

-----------------------------------------------------------------------------
(* Numbers *)

LEMMA LeastNat ==
  ASSUME NEW S \in SUBSET Nat, S # {}
  PROVE  \E m \in S : \A n \in S : m <= n
<1> DEFINE R == {ss \in Nat \X Nat : ss[1] < ss[2]}
<1>1. IsWellFoundedOn(R, Nat) BY NatLessThanWellFounded DEF OpToRel
<1>2. \E m \in S : \A n \in S : ~ (<<n, m>> \in R)
  <2> HIDE DEF R
  <2> QED BY <1>1, WFMin
<1>3. \A m, n \in Nat : <<n, m>> \notin R => m <= n OBVIOUS
<1> QED
  <2> HIDE DEF R
  <2> QED BY <1>2, <1>3

LEMMA GreatestOf ==
  ASSUME NEW n \in Nat, NEW S \in SUBSET (1 .. n), S # {}
  PROVE  \E m \in S : \A k \in S : m >= k
<1> DEFINE T == {n - k : k \in S}
<1>1. T \in SUBSET Nat /\ T # {}
  <2>1. \A k \in S : n - k \in Nat OBVIOUS
  <2> QED BY <2>1
<1>2. PICK t \in T : \A u \in T : t <= u
  <2> HIDE DEF T
  <2> QED BY <1>1, LeastNat
<1>3. PICK m \in S : t = n - m OBVIOUS
<1>4. ASSUME NEW k \in S
      PROVE  m >= k
  <2>1. t <= n - k BY <1>2
  <2>2. m \in Int /\ k \in Int OBVIOUS
  <2> HIDE DEF T
  <2> QED BY <1>3, <2>1, <2>2
<1> QED BY <1>4

\* A parser that looks up to two tokens ahead is known from the end of the line.
LEMMA Backwards ==
  ASSUME NEW S, NEW n \in Nat, n + 1 \in S, n + 2 \in S,
         \A i \in 1 .. n : i + 1 \in S /\ i + 2 \in S => i \in S
  PROVE  1 .. n + 2 \subseteq S
<1> SUFFICES ASSUME (1 .. n) \ S # {}
             PROVE  FALSE
  <2>1. \A i \in 1 .. n + 2 : i \in 1 .. n \/ i = n + 1 \/ i = n + 2 OBVIOUS
  <2> QED BY <2>1
<1>1. PICK m \in (1 .. n) \ S : \A k \in (1 .. n) \ S : m >= k BY GreatestOf
<1>2. m \in 1 .. n /\ m \notin S OBVIOUS
<1>3. ASSUME NEW k \in {m + 1, m + 2}
      PROVE  k \in S
  <2>1. k \in 1 .. n \/ k = n + 1 \/ k = n + 2 BY <1>2
  <2>2. ~ m >= k BY <1>2
  <2> QED BY <1>1, <2>1, <2>2
<1> QED BY <1>2, <1>3

-----------------------------------------------------------------------------
(* What Click makes of a line *)

\* A word or "--" ends the options; anything else is one, with its value.
Width(line, i) == IF Asks(line[i]) THEN 2 ELSE 1
Piece(line, i) ==
  SubSeq(line, i, IF i + Width(line, i) - 1 <= Len(line) THEN i + Width(line, i) - 1 ELSE i)

FromHere(line, from, i) ==
  IF i > Len(line) THEN NothingParsed
  ELSE IF IsWord(line[i]) THEN Parsed(<<>>, SubSeq(line, i, Len(line)), FALSE)
  ELSE IF IsSeparator(line[i]) THEN Parsed(<<>>, SubSeq(line, i + 1, Len(line)), TRUE)
  ELSE [from[i + Width(line, i)] EXCEPT !.opts = <<Piece(line, i)>> \o @]

RootParse(line) ==
  LET from[i \in 1 .. Len(line) + 2] ==
        IF i > Len(line) THEN NothingParsed
        ELSE IF IsWord(line[i]) THEN Parsed(<<>>, SubSeq(line, i, Len(line)), FALSE)
        ELSE IF IsSeparator(line[i]) THEN Parsed(<<>>, SubSeq(line, i + 1, Len(line)), TRUE)
        ELSE LET width == IF Asks(line[i]) THEN 2 ELSE 1
                 last  == IF i + width - 1 <= Len(line) THEN i + width - 1 ELSE i
             IN [from[i + width] EXCEPT !.opts = <<SubSeq(line, i, last)>> \o @]
  IN from

\* The parse is defined: each place is settled by the next one or the one behind.
LEMMA ParseIsStepwise ==
  ASSUME NEW line, Len(line) \in Nat
  PROVE  /\ ParseRoot(line) = RootParse(line)[1]
         /\ \A i \in 1 .. Len(line) + 2 : RootParse(line)[i] = FromHere(line, RootParse(line), i)
<1> DEFINE n == Len(line)
           Made(h) == [i \in 1 .. n + 2 |-> FromHere(line, h, i)]
           Partly(h, k) == \A i \in k .. n + 2 : h[i] = FromHere(line, h, i)
           S == {k \in 1 .. n + 2 : \E h : h = [i \in 1 .. n + 2 |-> h[i]] /\ Partly(h, k)}
<1>1. n \in Nat OBVIOUS
<1>2. \A f, g, i : /\ i > n => FromHere(line, f, i) = FromHere(line, g, i)
                   /\ f[i + 1] = g[i + 1] /\ f[i + 2] = g[i + 2] =>
                        FromHere(line, f, i) = FromHere(line, g, i)
  <2>1. ASSUME NEW f, NEW g, NEW i, i > n
        PROVE  FromHere(line, f, i) = FromHere(line, g, i)
    BY <2>1 DEF FromHere
  <2>2. ASSUME NEW f, NEW g, NEW i, f[i + 1] = g[i + 1], f[i + 2] = g[i + 2]
        PROVE  FromHere(line, f, i) = FromHere(line, g, i)
    <3>1. f[i + Width(line, i)] = g[i + Width(line, i)]
      <4>1. Width(line, i) = 1 \/ Width(line, i) = 2 BY DEF Width
      <4> QED BY <2>2, <4>1
    <3> QED BY <3>1 DEF FromHere
  <2> QED BY <2>1, <2>2
<1> HIDE DEF n
<1>3. n + 1 \in S /\ n + 2 \in S
  <2> DEFINE h == [i \in 1 .. n + 2 |-> FromHere(line, line, i)]
  <2>1. \A i \in n + 1 .. n + 2 : i > n /\ i \in 1 .. n + 2 BY <1>1
  <2>2. \A i \in 1 .. n + 2 : h[i] = FromHere(line, line, i) OBVIOUS
  <2>3. h = [i \in 1 .. n + 2 |-> h[i]] BY <2>2
  <2> HIDE DEF h
  <2>4. Partly(h, n + 1) BY <1>2, <2>1, <2>2
  <2>5. Partly(h, n + 2)
    <3>1. \A i \in n + 2 .. n + 2 : i \in n + 1 .. n + 2 BY <1>1
    <3> QED BY <2>4, <3>1
  <2>6. n + 1 \in 1 .. n + 2 /\ n + 2 \in 1 .. n + 2 BY <1>1
  <2> QED BY <2>3, <2>4, <2>5, <2>6
<1>4. ASSUME NEW k \in 1 .. n, k + 1 \in S, k + 2 \in S
      PROVE  k \in S
  <2>1. PICK h : h = [i \in 1 .. n + 2 |-> h[i]] /\ Partly(h, k + 1) BY <1>4
  <2> DEFINE g == [i \in 1 .. n + 2 |-> IF i = k THEN FromHere(line, h, k) ELSE h[i]]
  <2>2. \A i \in 1 .. n + 2 : g[i] = IF i = k THEN FromHere(line, h, k) ELSE h[i] OBVIOUS
  <2>3. g = [i \in 1 .. n + 2 |-> g[i]] BY <2>2
  <2> HIDE DEF g
  <2>4. ASSUME NEW i \in k .. n + 2
        PROVE  g[i] = FromHere(line, g, i)
    <3>1. i \in 1 .. n + 2 /\ (i = k \/ i \in k + 1 .. n + 2) BY <1>1
    <3>2. CASE i > n
      <4>1. i # k /\ i \in k + 1 .. n + 2 BY <1>1, <3>1, <3>2
      <4>2. g[i] = h[i] /\ h[i] = FromHere(line, h, i) BY <2>1, <2>2, <3>1, <4>1
      <4> QED BY <1>2, <3>2, <4>2
    <3>3. CASE ~ i > n
      <4>1. i + 1 \in 1 .. n + 2 /\ i + 2 \in 1 .. n + 2 /\ i + 1 # k /\ i + 2 # k BY <1>1, <3>1, <3>3
      <4>2. g[i + 1] = h[i + 1] /\ g[i + 2] = h[i + 2] BY <2>2, <4>1
      <4>3. FromHere(line, g, i) = FromHere(line, h, i) BY <1>2, <4>2
      <4>4. g[i] = FromHere(line, h, i) BY <2>1, <2>2, <3>1
      <4> QED BY <4>3, <4>4
    <3> QED BY <3>2, <3>3
  <2>5. k \in 1 .. n + 2 BY <1>1
  <2> QED BY <2>3, <2>4, <2>5
<1>5. 1 \in S
  <2> HIDE DEF S
  <2>1. 1 .. n + 2 \subseteq S BY <1>1, <1>3, <1>4, Backwards
  <2>2. 1 \in 1 .. n + 2 BY <1>1
  <2> QED BY <2>1, <2>2
<1>6. PICK f : f = [i \in 1 .. n + 2 |-> f[i]] /\ Partly(f, 1) BY <1>5
<1>7. f = Made(f) BY <1>6
<1> DEFINE Literal(h) ==
             [i \in 1 .. Len(line) + 2 |->
                IF i > Len(line) THEN NothingParsed
                ELSE IF IsWord(line[i]) THEN Parsed(<<>>, SubSeq(line, i, Len(line)), FALSE)
                ELSE IF IsSeparator(line[i]) THEN Parsed(<<>>, SubSeq(line, i + 1, Len(line)), TRUE)
                ELSE LET width == IF Asks(line[i]) THEN 2 ELSE 1
                         last  == IF i + width - 1 <= Len(line) THEN i + width - 1 ELSE i
                     IN [h[i + width] EXCEPT !.opts = <<SubSeq(line, i, last)>> \o @]]
<1>8. \A h : Literal(h) = Made(h) BY DEF FromHere, Width, Piece, n
<1>9. RootParse(line) = CHOOSE h : h = Literal(h) BY DEF RootParse
<1>10. RootParse(line) = Made(RootParse(line))
  <2> HIDE DEF Literal, Made
  <2> QED BY <1>7, <1>8, <1>9
<1>11. ParseRoot(line) = RootParse(line)[1] BY DEF ParseRoot, RootParse
<1>12. \A i \in 1 .. n + 2 : RootParse(line)[i] = FromHere(line, RootParse(line), i) BY <1>10
<1> QED BY <1>11, <1>12 DEF n

IsParse(p) == p = Parsed(p.opts, p.rest, p.ended) /\ p.opts \in Seq(Seq(Token)) /\ p.rest \in Seq(Token)

LEMMA MadeParse ==
  ASSUME NEW opts \in Seq(Seq(Token)), NEW rest \in Seq(Token), NEW ended
  PROVE  IsParse(Parsed(opts, rest, ended))
BY DEF IsParse, Parsed

\* It shares out the line between options and the words after them.
LEMMA ParsesAreTyped ==
  ASSUME NEW line \in Seq(Token)
  PROVE  /\ \A i \in 1 .. Len(line) + 2 : IsParse(RootParse(line)[i])
         /\ IsParse(ParseRoot(line))
<1> DEFINE n == Len(line)
           from == RootParse(line)
           S == {i \in 1 .. n + 2 : IsParse(from[i])}
<1>1. n \in Nat OBVIOUS
<1>2. /\ ParseRoot(line) = from[1]
      /\ \A i \in 1 .. n + 2 : from[i] = FromHere(line, from, i)
  BY <1>1, ParseIsStepwise
<1>3. IsParse(NothingParsed) BY DEF IsParse, NothingParsed, Parsed
<1>4. \A i \in 1 .. n : line[i] \in Token BY ElementOfSeq
<1> HIDE DEF from
<1>5. ASSUME NEW i \in 1 .. n, NEW j \in i .. n
      PROVE  SubSeq(line, i, j) \in Seq(Token)
  <2> HIDE DEF n
  <2>1. \A k \in i .. j : line[k] \in Token BY <1>1, <1>4
  <2> QED BY <1>1, <2>1, SubSeqProperties
<1>6. \A i \in n + 1 .. n + 2 : from[i] = NothingParsed /\ i \in 1 .. n + 2
  <2>1. \A i \in n + 1 .. n + 2 : i > n /\ i \in 1 .. n + 2 BY <1>1
  <2> QED BY <1>2, <2>1 DEF FromHere
<1>7. n + 1 \in S /\ n + 2 \in S
  <2>1. n + 1 \in n + 1 .. n + 2 /\ n + 2 \in n + 1 .. n + 2 BY <1>1
  <2> QED BY <1>3, <1>6, <2>1
<1>8. ASSUME NEW i \in 1 .. n, i + 1 \in S, i + 2 \in S
      PROVE  i \in S
  <2>1. i \in 1 .. n + 2 /\ ~ i > n /\ n \in i .. n /\ i \in Int BY <1>1
  <2>2. from[i] = FromHere(line, from, i) BY <1>2, <2>1
  <2>3. CASE IsWord(line[i])
    <3>1. SubSeq(line, i, n) \in Seq(Token) BY <1>5, <2>1
    <3>2. from[i] = Parsed(<<>>, SubSeq(line, i, n), FALSE) BY <2>1, <2>2, <2>3 DEF FromHere
    <3> QED
      <4> DEFINE rest == SubSeq(line, i, n)
      <4> HIDE DEF rest
      <4>1. rest \in Seq(Token) /\ from[i] = Parsed(<<>>, rest, FALSE) BY <3>1, <3>2 DEF rest
      <4>2. <<>> \in Seq(Seq(Token)) OBVIOUS
      <4>3. IsParse(from[i]) BY <4>1, <4>2, MadeParse
      <4> QED BY <2>1, <4>3
  <2>4. CASE ~ IsWord(line[i]) /\ IsSeparator(line[i])
    <3>1. SubSeq(line, i + 1, n) \in Seq(Token)
      <4> HIDE DEF n
      <4>1. \A k \in i + 1 .. n : line[k] \in Token BY <1>1, <1>4, <2>1
      <4>2. i + 1 \in Int /\ n \in Int BY <1>1, <2>1
      <4> QED BY <4>1, <4>2, SubSeqProperties
    <3>2. from[i] = Parsed(<<>>, SubSeq(line, i + 1, n), TRUE) BY <2>1, <2>2, <2>4 DEF FromHere
    <3> QED
      <4> DEFINE rest == SubSeq(line, i + 1, n)
      <4> HIDE DEF rest
      <4>1. rest \in Seq(Token) /\ from[i] = Parsed(<<>>, rest, TRUE) BY <3>1, <3>2 DEF rest
      <4>2. <<>> \in Seq(Seq(Token)) OBVIOUS
      <4>3. IsParse(from[i]) BY <4>1, <4>2, MadeParse
      <4> QED BY <2>1, <4>3
  <2>5. CASE ~ IsWord(line[i]) /\ ~ IsSeparator(line[i])
    <3> DEFINE next == from[i + Width(line, i)]
               piece == Piece(line, i)
    <3>1. IsParse(next)
      <4>1. Width(line, i) \in {1, 2} BY DEF Width
      <4> QED BY <1>8, <4>1
    <3>2. piece \in Seq(Token)
      <4> DEFINE last == IF i + Width(line, i) - 1 <= Len(line) THEN i + Width(line, i) - 1 ELSE i
      <4>1. Width(line, i) \in {1, 2} BY DEF Width
      <4>2. last \in i .. n BY <1>1, <2>1, <4>1
      <4> HIDE DEF last, n
      <4>3. SubSeq(line, i, last) \in Seq(Token) BY <1>5, <4>2
      <4> QED BY <4>3 DEF Piece, last
    <3> HIDE DEF piece, next
    <3>3. from[i] = [next EXCEPT !.opts = <<piece>> \o @]
      BY <2>1, <2>2, <2>5 DEF FromHere, piece, next
    <3>4. next = [opts |-> next.opts, rest |-> next.rest, ended |-> next.ended]
      BY <3>1 DEF IsParse, Parsed
    <3>5. <<piece>> \o next.opts \in Seq(Seq(Token))
      <4>1. <<piece>> \in Seq(Seq(Token)) /\ next.opts \in Seq(Seq(Token))
        BY <3>1, <3>2 DEF IsParse
      <4> QED BY <4>1, ConcatProperties
    <3>6. from[i] = [opts |-> <<piece>> \o next.opts, rest |-> next.rest, ended |-> next.ended]
      BY <3>3, <3>4
    <3>7. IsParse(from[i])
      <4> DEFINE opts == <<piece>> \o next.opts
      <4> HIDE DEF opts
      <4>1. from[i] = Parsed(opts, next.rest, next.ended) BY <3>6 DEF Parsed, opts
      <4>2. opts \in Seq(Seq(Token)) BY <3>5 DEF opts
      <4> QED BY <3>1, <4>1, <4>2 DEF IsParse, Parsed
    <3> QED BY <2>1, <3>7
  <2> QED BY <2>3, <2>4, <2>5
<1>9. 1 .. n + 2 \subseteq S
  <2> HIDE DEF S, n
  <2> QED BY <1>1, <1>7, <1>8, Backwards
<1>10. 1 \in 1 .. n + 2 BY <1>1
<1> QED BY <1>2, <1>9, <1>10 DEF from

\* The command looked for is a place of the line, or there is none.
LEMMA FirstWordIsAPlace ==
  ASSUME NEW line \in Seq(Token)
  PROVE  FirstWord(line) \in 0 .. Len(line)
<1> DEFINE I == {i \in 1 .. Len(line) : IsWord(line[i]) \/ IsSeparator(line[i])}
           first == IF I # {} THEN Min(I) ELSE 0
<1>1. FirstWord(line) = IF first # 0 /\ IsSeparator(line[first]) THEN 0 ELSE first
  BY DEF FirstWord, SelectInSeq
<1>2. I # {} => Min(I) \in I
  <2> HAVE I # {}
  <2>1. I \in SUBSET Nat OBVIOUS
  <2> HIDE DEF I
  <2>2. \E m \in I : \A k \in I : m <= k BY <2>1, LeastNat
  <2> QED BY <2>2 DEF Min
<1>3. Len(line) \in Nat OBVIOUS
<1> QED BY <1>1, <1>2, <1>3

-----------------------------------------------------------------------------
(* Tokens picked from a line in the order they were typed *)

Rank(S, p) == Cardinality({q \in S : q < p})
Picks(tail, S) == [i \in 1 .. Cardinality(S) |-> tail[CHOOSE p \in S : Rank(S, p) = i - 1]]

\* Everything picked later comes after everything picked before.
LEMMA RanksOfMore ==
  ASSUME NEW m \in Nat, NEW n \in Int, m <= n, NEW S \in SUBSET (1 .. m)
  PROVE  LET T == S \union (m + 1 .. n)
         IN /\ Cardinality(S) \in Nat
            /\ Cardinality(T) = Cardinality(S) + (n - m)
            /\ \A p \in S : Rank(T, p) = Rank(S, p) /\ Rank(S, p) \in Nat /\ Rank(S, p) < Cardinality(S)
            /\ \A p \in m + 1 .. n : Rank(T, p) = Cardinality(S) + (p - m - 1)
<1> DEFINE T == S \union (m + 1 .. n)
<1>1. IsFiniteSet(S) /\ Cardinality(S) \in Nat
  <2>1. IsFiniteSet(1 .. m) BY FS_Interval
  <2> QED BY <2>1, FS_Subset, FS_CardinalityType
<1>2. ASSUME NEW k \in Int, k >= m
      PROVE  Cardinality(S \union (m + 1 .. k)) = Cardinality(S) + (k - m)
  <2>1. IsFiniteSet(m + 1 .. k) /\ Cardinality(m + 1 .. k) = k - m
    <3>1. IsFiniteSet(m + 1 .. k) /\ Cardinality(m + 1 .. k) = IF m + 1 > k THEN 0 ELSE k - (m + 1) + 1
      BY FS_Interval
    <3> QED BY <1>2, <3>1
  <2>2. S \cap (m + 1 .. k) = {} OBVIOUS
  <2>3. Cardinality(S \union (m + 1 .. k)) =
          Cardinality(S) + Cardinality(m + 1 .. k) - Cardinality(S \cap (m + 1 .. k))
    BY <1>1, <2>1, FS_Union
  <2>4. Cardinality(S \cap (m + 1 .. k)) = 0 BY <2>2, FS_EmptySet
  <2> DEFINE c == Cardinality(S)
             d == Cardinality(S \union (m + 1 .. k))
             u == Cardinality(m + 1 .. k)
             v == Cardinality(S \cap (m + 1 .. k))
  <2>5. d = c + u - v /\ v = 0 /\ u = k - m /\ c \in Nat BY <1>1, <2>1, <2>3, <2>4
  <2> HIDE DEF c, d, u, v
  <2>6. d = c + (k - m) BY <2>5
  <2> QED BY <2>6 DEF c, d
<1>3. ASSUME NEW p \in S
      PROVE  Rank(T, p) = Rank(S, p) /\ Rank(S, p) \in Nat /\ Rank(S, p) < Cardinality(S)
  <2> DEFINE U == {q \in S : q < p}
  <2>1. {q \in T : q < p} = U OBVIOUS
  <2>2. IsFiniteSet(U) /\ Cardinality(U) <= Cardinality(S) /\ (Cardinality(S) = Cardinality(U) => S = U)
    BY <1>1, FS_Subset
  <2>3. Cardinality(U) \in Nat BY <2>2, FS_CardinalityType
  <2>4. p \notin U OBVIOUS
  <2> HIDE DEF U, T
  <2>5. Rank(T, p) = Cardinality(U) /\ Rank(S, p) = Cardinality(U)
    <3>1. Rank(S, p) = Cardinality(U) BY DEF Rank, U
    <3> QED BY <2>1, <3>1 DEF Rank
  <2> QED BY <1>1, <2>2, <2>3, <2>4, <2>5
<1>4. ASSUME NEW p \in m + 1 .. n
      PROVE  Rank(T, p) = Cardinality(S) + (p - m - 1)
  <2>1. {q \in T : q < p} = S \union (m + 1 .. p - 1)
    <3>1. \A q \in S : q \in Int /\ q < p OBVIOUS
    <3>2. \A q : q \in m + 1 .. n /\ q < p <=> q \in m + 1 .. p - 1
      <4>1. p \in Int /\ p <= n OBVIOUS
      <4> QED BY <4>1
    <3> QED BY <3>1, <3>2
  <2>2. p - 1 \in Int /\ p - 1 >= m OBVIOUS
  <2>3. Cardinality(S \union (m + 1 .. p - 1)) = Cardinality(S) + ((p - 1) - m) BY <1>2, <2>2
  <2>4. Rank(T, p) = Cardinality(S \union (m + 1 .. p - 1)) BY <2>1 DEF Rank
  <2>5. (p - 1) - m = p - m - 1 BY <2>2
  <2> HIDE DEF T
  <2> QED BY <2>3, <2>4, <2>5
<1> QED BY <1>1, <1>2, <1>3, <1>4

\* Picking the next stretch of a line as well appends it.
LEMMA PickedMore ==
  ASSUME NEW tail, NEW m \in Nat, NEW n \in Int, m <= n, NEW S \in SUBSET (1 .. m)
  PROVE  Picks(tail, S \union (m + 1 .. n)) = Picks(tail, S) \o SubSeq(tail, m + 1, n)
<1> DEFINE T == S \union (m + 1 .. n)
           c == Cardinality(S)
           first == Picks(tail, S)
           more == SubSeq(tail, m + 1, n)
           all == Picks(tail, T)
           V == {first[i] : i \in 1 .. c} \union {tail[p] : p \in m + 1 .. n}
<1>1. /\ c \in Nat
      /\ Cardinality(T) = c + (n - m)
      /\ \A p \in S : Rank(T, p) = Rank(S, p) /\ Rank(S, p) \in Nat /\ Rank(S, p) < c
      /\ \A p \in m + 1 .. n : Rank(T, p) = c + (p - m - 1)
  BY RanksOfMore
<1>2. \A i \in 1 .. c : first[i] = tail[CHOOSE p \in S : Rank(S, p) = i - 1] BY DEF Picks
<1>3. \A i \in 1 .. Cardinality(T) : all[i] = tail[CHOOSE p \in T : Rank(T, p) = i - 1] BY DEF Picks
<1>4. first \in Seq(V) /\ Len(first) = c
  <2>1. \A i \in 1 .. c : tail[CHOOSE p \in S : Rank(S, p) = i - 1] \in V BY <1>2
  <2>2. first = [i \in 1 .. c |-> tail[CHOOSE p \in S : Rank(S, p) = i - 1]] BY DEF Picks
  <2> DEFINE e(i) == tail[CHOOSE p \in S : Rank(S, p) = i - 1]
  <2>3. \A i \in 1 .. c : e(i) \in V BY <2>1
  <2>4. first = [i \in 1 .. c |-> e(i)] BY <2>2
  <2> HIDE DEF e, V, c, first
  <2>5. [i \in 1 .. c |-> e(i)] \in Seq(V) BY <1>1, <2>3, IsASeq
  <2>6. DOMAIN first = 1 .. c BY <2>4
  <2>7. first \in Seq(V) BY <2>4, <2>5
  <2>8. Len(first) \in Nat /\ DOMAIN first = 1 .. Len(first) BY <2>7, LenProperties
  <2> QED BY <1>1, <2>6, <2>7, <2>8
<1>5. /\ more \in Seq(V) /\ Len(more) = n - m
      /\ \A i \in 1 .. n - m : more[i] = tail[m + i]
  <2>1. \A p \in m + 1 .. n : tail[p] \in V OBVIOUS
  <2> HIDE DEF V
  <2>2. m + 1 \in Int OBVIOUS
  <2>3. /\ more \in Seq(V) /\ Len(more) = IF m + 1 <= n THEN n - (m + 1) + 1 ELSE 0
        /\ \A i \in 1 .. n - (m + 1) + 1 : more[i] = tail[(m + 1) + i - 1]
    BY <2>1, <2>2, SubSeqProperties
  <2>4. n - (m + 1) + 1 = n - m /\ \A i \in 1 .. n - m : (m + 1) + i - 1 = m + i OBVIOUS
  <2>5. IF m + 1 <= n THEN n - (m + 1) + 1 = n - m ELSE 0 = n - m OBVIOUS
  <2> HIDE DEF more
  <2> QED BY <2>3, <2>4, <2>5
<1>6. /\ first \o more \in Seq(V)
      /\ Len(first \o more) = c + (n - m)
      /\ \A i \in 1 .. c + (n - m) : (first \o more)[i] = IF i <= c THEN first[i] ELSE more[i - c]
  <2> HIDE DEF first, more, V, c
  <2>1. first \in Seq(V) /\ more \in Seq(V) BY <1>4, <1>5
  <2>2. /\ first \o more \in Seq(V) /\ Len(first \o more) = Len(first) + Len(more)
        /\ \A i \in 1 .. Len(first) + Len(more) :
             (first \o more)[i] = IF i <= Len(first) THEN first[i] ELSE more[i - Len(first)]
    BY <2>1, ConcatProperties, Zenon
  <2>3. Len(first) = c /\ Len(more) = n - m BY <1>4, <1>5
  <2> QED BY <2>2, <2>3, Zenon
<1>7. ASSUME NEW i \in 1 .. c + (n - m)
      PROVE  all[i] = (first \o more)[i]
  <2>1. all[i] = tail[CHOOSE p \in T : Rank(T, p) = i - 1] BY <1>1, <1>3
  <2>2. CASE i <= c
    <3>1. i \in 1 .. c BY <1>1, <2>2
    <3>2. \A p : (p \in T /\ Rank(T, p) = i - 1) <=> (p \in S /\ Rank(S, p) = i - 1)
      <4>1. ASSUME NEW p \in m + 1 .. n
            PROVE  Rank(T, p) # i - 1
        <5>1. Rank(T, p) = c + (p - m - 1) BY <1>1
        <5>2. c + (p - m - 1) # i - 1 BY <1>1, <3>1
        <5> QED BY <5>1, <5>2
      <4>2. \A p \in T : p \in S \/ p \in m + 1 .. n OBVIOUS
      <4>3. S \subseteq T OBVIOUS
      <4> HIDE DEF T
      <4> QED BY <1>1, <4>1, <4>2, <4>3
    <3>3. (CHOOSE p \in T : Rank(T, p) = i - 1) = (CHOOSE p \in S : Rank(S, p) = i - 1) BY <3>2
    <3> HIDE DEF all, first, more, T, c
    <3> QED BY <1>2, <1>6, <2>1, <2>2, <3>1, <3>3
  <2>3. CASE ~ i <= c
    <3> DEFINE k == m + (i - c)
    <3>1. k \in m + 1 .. n /\ i - c \in 1 .. n - m /\ c + (k - m - 1) = i - 1 BY <1>1, <2>3
    <3>2. \A p \in T : Rank(T, p) = i - 1 => p = k
      <4>1. ASSUME NEW p \in S
            PROVE  Rank(T, p) # i - 1
        <5>1. Rank(T, p) \in Nat /\ Rank(T, p) < c BY <1>1
        <5> HIDE DEF T, c
        <5> QED BY <1>1, <2>3, <5>1
      <4>2. ASSUME NEW p \in m + 1 .. n, Rank(T, p) = i - 1
            PROVE  p = k
        <5>1. c + (p - m - 1) = i - 1 BY <1>1, <4>2
        <5> HIDE DEF T, c
        <5> QED BY <1>1, <5>1
      <4>3. \A p \in T : p \in S \/ p \in m + 1 .. n OBVIOUS
      <4> HIDE DEF T, k
      <4> QED BY <4>1, <4>2, <4>3
    <3>3. k \in T /\ Rank(T, k) = i - 1
      <4>1. k \in T BY <3>1
      <4>2. Rank(T, k) = c + (k - m - 1) BY <1>1, <3>1
      <4> QED BY <3>1, <4>1, <4>2
    <3>4. (CHOOSE p \in T : Rank(T, p) = i - 1) = k
      <4> HIDE DEF T, k
      <4> QED BY <3>2, <3>3
    <3>5. (first \o more)[i] = more[i - c] BY <1>6, <2>3
    <3>6. more[i - c] = tail[k] BY <1>5, <3>1
    <3> HIDE DEF all, first, more, T, c, k
    <3> QED BY <2>1, <3>4, <3>5, <3>6
  <2> QED BY <2>2, <2>3
<1>8. all \in Seq(V) /\ Len(all) = c + (n - m)
  <2>1. c + (n - m) \in Nat BY <1>1
  <2>2. \A i \in 1 .. c + (n - m) : (first \o more)[i] \in V
    <3> HIDE DEF first, more, V, c
    <3> QED BY <1>6, ElementOfSeq
  <2>3. \A i \in 1 .. c + (n - m) : all[i] \in V
    <3> HIDE DEF first, more, V, c, all
    <3> QED BY <1>7, <2>2
  <2>4. all = [i \in 1 .. Cardinality(T) |-> all[i]] BY DEF Picks
  <2> DEFINE e(i) == all[i]
             k == c + (n - m)
  <2>5. \A i \in 1 .. k : e(i) \in V BY <2>3
  <2>6. all = [i \in 1 .. k |-> e(i)] BY <1>1, <2>4
  <2> HIDE DEF e, V, k, all
  <2>7. k \in Nat BY <2>1 DEF k
  <2>8. [i \in 1 .. k |-> e(i)] \in Seq(V) BY <2>5, <2>7, IsASeq
  <2>9. DOMAIN all = 1 .. k BY <2>6
  <2>10. all \in Seq(V) BY <2>6, <2>8
  <2>11. Len(all) \in Nat /\ DOMAIN all = 1 .. Len(all) BY <2>10, LenProperties
  <2>12. Len(all) = k BY <2>7, <2>9, <2>11
  <2> QED BY <2>10, <2>12 DEF k
<1>9. all = first \o more
  <2> HIDE DEF first, more, V, c, all
  <2> QED BY <1>6, <1>7, <1>8, SeqEqual
<1> QED BY <1>9

-----------------------------------------------------------------------------
(* Turns of the loop of normalize_argv *)

\* A stretch of the end of a line is a stretch of the line.
LEMMA StretchOfRest ==
  ASSUME NEW s \in Seq(Token), NEW m \in 0 .. Len(s),
         NEW i \in Int, NEW j \in Int, i >= 1, j <= Len(s) - m
  PROVE  /\ SubSeq(SubSeq(s, m + 1, Len(s)), i, j) = SubSeq(s, m + i, m + j)
         /\ SubSeq(s, m + i, m + j) \in Seq(Token)
         /\ Len(SubSeq(s, m + i, m + j)) = IF i <= j THEN j - i + 1 ELSE 0
<1> DEFINE n == Len(s)
           rest == SubSeq(s, m + 1, n)
           a == SubSeq(rest, i, j)
           b == SubSeq(s, m + i, m + j)
<1>1. n \in Nat /\ \A k \in 1 .. n : s[k] \in Token BY ElementOfSeq
<1> HIDE DEF n
<1>2. \A k \in m + 1 .. n : s[k] \in Token BY <1>1 DEF n
<1>3. m + 1 \in Int /\ m + i \in Int /\ m + j \in Int /\ m \in Nat /\ m <= n BY <1>1 DEF n
<1>4. /\ rest \in Seq(Token) /\ Len(rest) = IF m + 1 <= n THEN n - (m + 1) + 1 ELSE 0
      /\ \A k \in 1 .. n - (m + 1) + 1 : rest[k] = s[(m + 1) + k - 1]
  BY <1>1, <1>2, <1>3, SubSeqProperties
<1>5. \A k \in i .. j : /\ k \in 1 .. n - (m + 1) + 1 /\ k \in 1 .. n - m
                        /\ m + k \in 1 .. n /\ (m + 1) + k - 1 = m + k
  BY <1>1, <1>3 DEF n
<1>6. \A k \in i .. j : rest[k] = s[m + k] /\ s[m + k] \in Token BY <1>1, <1>4, <1>5
<1>7. \A k \in i .. j : rest[k] \in Token BY <1>6
<1> HIDE DEF rest
<1>8. /\ a \in Seq(Token) /\ Len(a) = IF i <= j THEN j - i + 1 ELSE 0
      /\ \A k \in 1 .. j - i + 1 : a[k] = rest[i + k - 1]
  <2>1. i \in Int /\ j \in Int OBVIOUS
  <2> QED BY <1>7, <2>1, SubSeqProperties
<1>9. \A k \in m + i .. m + j : s[k] \in Token
  <2>1. \A k \in m + i .. m + j : k \in 1 .. n BY <1>1, <1>3 DEF n
  <2> QED BY <1>1, <2>1
<1>10. /\ b \in Seq(Token) /\ Len(b) = IF m + i <= m + j THEN (m + j) - (m + i) + 1 ELSE 0
       /\ \A k \in 1 .. (m + j) - (m + i) + 1 : b[k] = s[(m + i) + k - 1]
  BY <1>3, <1>9, SubSeqProperties
<1>11. Len(b) = IF i <= j THEN j - i + 1 ELSE 0
  <2>1. (m + j) - (m + i) + 1 = j - i + 1 /\ (m + i <= m + j <=> i <= j) BY <1>3
  <2> HIDE DEF a, b
  <2> QED BY <1>10, <2>1
<1>12. ASSUME NEW k \in 1 .. Len(a)
       PROVE  a[k] = b[k]
  <2>1. k \in 1 .. j - i + 1 /\ k \in 1 .. (m + j) - (m + i) + 1 BY <1>3, <1>8
  <2>2. i + k - 1 \in i .. j /\ (m + i) + k - 1 = m + (i + k - 1) BY <1>3, <2>1
  <2>3. a[k] = rest[i + k - 1] /\ b[k] = s[(m + i) + k - 1] BY <1>8, <1>10, <2>1
  <2> HIDE DEF a, b
  <2> QED BY <1>6, <2>2, <2>3
<1>13. a = b
  <2> HIDE DEF a, b
  <2> QED BY <1>8, <1>10, <1>11, <1>12, SeqEqual
<1> QED BY <1>10, <1>11, <1>13 DEF rest, n

\* What the loop has seen is shared out between the two lists.
SharedOut(tail, k, moved, kept) ==
  \E S \in SUBSET (1 .. k) : moved = Picks(tail, S) /\ kept = Picks(tail, (1 .. k) \ S)

LEMMA NothingSharedOut ==
  ASSUME NEW tail
  PROVE  SharedOut(tail, 0, <<>>, <<>>)
<1>1. 1 .. 0 = {} OBVIOUS
<1>2. Picks(tail, {}) = <<>>
  <2>1. Cardinality({}) = 0 BY FS_EmptySet
  <2>2. Picks(tail, {}) = [i \in {} |-> tail[CHOOSE p \in {} : Rank({}, p) = i - 1]]
    BY <1>1, <2>1 DEF Picks
  <2>3. DOMAIN Picks(tail, {}) = {} BY <2>2
  <2> QED BY <2>2
<1>3. {} \in SUBSET (1 .. 0) /\ (1 .. 0) \ {} = {} BY <1>1
<1> QED BY <1>2, <1>3 DEF SharedOut

LEMMA SharedOutFurther ==
  ASSUME NEW tail, NEW k \in Nat, NEW l \in Int, k <= l, NEW moved, NEW kept,
         SharedOut(tail, k, moved, kept)
  PROVE  /\ SharedOut(tail, l, moved \o SubSeq(tail, k + 1, l), kept)
         /\ SharedOut(tail, l, moved, kept \o SubSeq(tail, k + 1, l))
<1>1. PICK S \in SUBSET (1 .. k) : moved = Picks(tail, S) /\ kept = Picks(tail, (1 .. k) \ S)
  BY DEF SharedOut
<1> DEFINE R == (1 .. k) \ S
           more == k + 1 .. l
<1>2. R \in SUBSET (1 .. k) OBVIOUS
<1>3. /\ Picks(tail, S \union more) = moved \o SubSeq(tail, k + 1, l)
      /\ Picks(tail, R \union more) = kept \o SubSeq(tail, k + 1, l)
  <2>1. Picks(tail, S \union more) = Picks(tail, S) \o SubSeq(tail, k + 1, l) BY PickedMore
  <2> HIDE DEF R
  <2>2. Picks(tail, R \union more) = Picks(tail, R) \o SubSeq(tail, k + 1, l) BY <1>2, PickedMore
  <2> QED BY <1>1, <2>1, <2>2 DEF R
<1>4. \A p \in 1 .. k : p \in 1 .. l /\ p \notin more OBVIOUS
<1>5. \A p \in more : p \in 1 .. l OBVIOUS
<1>6. \A p \in 1 .. l : p \in 1 .. k \/ p \in more OBVIOUS
<1>7. /\ S \union more \in SUBSET (1 .. l) /\ (1 .. l) \ (S \union more) = R
      /\ S \in SUBSET (1 .. l) /\ (1 .. l) \ S = R \union more
  <2> HIDE DEF more
  <2> QED BY <1>4, <1>5, <1>6
<1>8. SharedOut(tail, l, moved \o SubSeq(tail, k + 1, l), kept)
  <2>1. kept = Picks(tail, R) BY <1>1
  <2> HIDE DEF R, more
  <2> QED BY <1>3, <1>7, <2>1 DEF SharedOut
<1>9. SharedOut(tail, l, moved, kept \o SubSeq(tail, k + 1, l))
  <2> HIDE DEF R, more
  <2> QED BY <1>1, <1>3, <1>7 DEF SharedOut
<1> QED BY <1>8, <1>9

\* An option takes one token or two of those that are left.
LEMMA ConsumedIsThere ==
  ASSUME NEW tokens \in Seq(Token), tokens # <<>>
  PROVE  Consumed(tokens) \in 1 .. Len(tokens)
<1>1. Len(tokens) \in Nat /\ Len(tokens) >= 1
  <2>1. Len(tokens) \in Nat \ {0} BY EmptySeq
  <2> QED BY <2>1
<1> QED BY <1>1 DEF Consumed

-----------------------------------------------------------------------------
(* The inductive invariant *)

TypedLine ==
  /\ typed \in Lines
  /\ pc \in {"find", "scan", "parse", "resolve", "callback", "arguments", "run", "done"}
  /\ before \in Seq(Token) /\ after \in Seq(Token) /\ subcommand \in Token \union {NoToken}
  /\ hoisted \in Seq(Token) /\ remaining \in Seq(Token)
  /\ argv \in Seq(Token)
  /\ IsParse(parsed)
  /\ answered \in {"nobody", "help", "builtin", "plugin"}
  /\ status \in -1 .. 255

\* While the loop runs, what is left of the line is its end, and what was seen
\* is shared out.
Behind == SubSeq(typed, Len(before) + 2, Len(typed))

SplitLine ==
  /\ pc = "find" => hoisted = <<>> /\ remaining = <<>>
  /\ pc = "scan" =>
       /\ subcommand \in Token
       /\ Len(before) + 1 <= Len(typed)
       /\ Len(after) <= Len(Behind)
       /\ after = SubSeq(Behind, (Len(Behind) - Len(after)) + 1, Len(Behind))
       /\ SharedOut(Behind, Len(Behind) - Len(after), hoisted, remaining)

\* Nothing is logged before the options are known, nor at any other level.
Levelled ==
  /\ pc \in {"find", "scan", "parse", "resolve", "callback"} => context = "none"
  /\ context # "none" => context = LogLevel(parsed.opts)

LineInv == TypedLine /\ SplitLine /\ Levelled

LEMMA AStatusIsAByte ==
  ASSUME NEW code \in Int
  PROVE  ExitStatus(code) \in -1 .. 255
BY DEF ExitStatus

LEMMA StatusesAreNumbers ==
  /\ \A name \in DOMAIN ExitCode : ExitCode[name] \in Int
  /\ \A error : ErrorStatus(error) \in Int /\ StatusOf(error) \in Int
<1>1. \A name \in DOMAIN ExitCode : ExitCode[name] \in Int BY DEF ExitCode
<1>2. \A error : ErrorStatus(error) \in Int
  <2>1. /\ ExitCode.USAGE_ERROR \in Int /\ ExitCode.CONFIG_INVALID \in Int
        /\ ExitCode.PRECONDITION_FAILED \in Int /\ ExitCode.GENERAL_ERROR \in Int
    BY DEF ExitCode
  <2> QED BY <2>1 DEF ErrorStatus
<1>3. \A error : StatusOf(error) \in Int
  <2>1. ExitCode.SUCCESS \in Int BY DEF ExitCode
  <2> QED BY <1>2, <2>1 DEF StatusOf
<1> QED BY <1>1, <1>2, <1>3

LEMMA LinesAreSequences ==
  ASSUME typed \in Lines
  PROVE  typed \in Seq(Token)
BY LinesAreTyped

LEMMA LineInvInitially == Init => LineInv
<1> SUFFICES ASSUME Init PROVE LineInv OBVIOUS
<1>1. <<>> \in Seq(Token) /\ <<>> \in Seq(Seq(Token)) OBVIOUS
<1>2. IsParse(NothingParsed)
  <2>1. IsParse(Parsed(<<>>, <<>>, FALSE)) BY <1>1, MadeParse
  <2> QED BY <2>1 DEF NothingParsed
<1>3. TypedLine
  <2>1. status \in -1 .. 255 BY DEF Init
  <2> QED BY <1>1, <1>2, <2>1 DEF Init, TypedLine
<1>4. SplitLine BY DEF Init, SplitLine
<1>5. Levelled BY DEF Init, Levelled
<1> QED BY <1>3, <1>4, <1>5 DEF LineInv

\* normalize_argv splits the line at the command.
LEMMA SplitKeepsLineInv ==
  ASSUME LineInv, NothingToMove \/ FindSubcommand
  PROVE  LineInv'
<1>1. typed \in Seq(Token) BY LinesAreSequences DEF LineInv, TypedLine
<1>2. CASE NothingToMove
  <2>1. TypedLine' BY <1>1, <1>2 DEF LineInv, TypedLine, NothingToMove, split
  <2>2. SplitLine' BY <1>2 DEF SplitLine, NothingToMove
  <2>3. Levelled' BY <1>2 DEF LineInv, Levelled, NothingToMove
  <2> QED BY <2>1, <2>2, <2>3 DEF LineInv
<1>3. CASE FindSubcommand
  <2> DEFINE i == FirstWord(typed)
             n == Len(typed)
  <2>1. i \in 1 .. n /\ n \in Nat /\ i \in Int
    <3>1. i \in 0 .. n /\ n \in Nat BY <1>1, FirstWordIsAPlace
    <3>2. i # 0 BY <1>3 DEF FindSubcommand
    <3> QED BY <3>1, <3>2
  <2>2. /\ before' = SubSeq(typed, 1, i - 1) /\ subcommand' = typed[i]
        /\ after' = SubSeq(typed, i + 1, n)
        /\ pc' = "scan" /\ typed' = typed
        /\ UNCHANGED <<hoisted, remaining, argv, parsed, context, answered, status>>
    BY <1>3 DEF FindSubcommand
  <2> HIDE DEF i
  <2>3. \A k \in 1 .. n : typed[k] \in Token BY <1>1, ElementOfSeq
  <2>4. before' \in Seq(Token) /\ Len(before') = i - 1
    <3> HIDE DEF n
    <3>1. \A k \in 1 .. i - 1 : typed[k] \in Token BY <2>1, <2>3
    <3>2. i - 1 \in Int BY <2>1
    <3>3. /\ SubSeq(typed, 1, i - 1) \in Seq(Token)
          /\ Len(SubSeq(typed, 1, i - 1)) = IF 1 <= i - 1 THEN (i - 1) - 1 + 1 ELSE 0
      BY <3>1, <3>2, SubSeqProperties
    <3>4. (IF 1 <= i - 1 THEN (i - 1) - 1 + 1 ELSE 0) = i - 1 BY <2>1
    <3> QED BY <2>2, <3>3, <3>4
  <2>5. after' \in Seq(Token) /\ Len(after') = n - i
    <3> HIDE DEF n
    <3>1. \A k \in i + 1 .. n : typed[k] \in Token BY <2>1, <2>3
    <3>2. i + 1 \in Int /\ n \in Int BY <2>1
    <3>3. /\ SubSeq(typed, i + 1, n) \in Seq(Token)
          /\ Len(SubSeq(typed, i + 1, n)) = IF i + 1 <= n THEN n - (i + 1) + 1 ELSE 0
      BY <3>1, <3>2, SubSeqProperties
    <3>4. (IF i + 1 <= n THEN n - (i + 1) + 1 ELSE 0) = n - i BY <2>1
    <3> QED BY <2>2, <3>3, <3>4
  <2>6. Behind' = after'
    <3>1. Len(before') + 2 = i + 1 BY <2>1, <2>4
    <3>2. Behind' = SubSeq(typed, Len(before') + 2, Len(typed)) BY <2>2 DEF Behind
    <3> QED BY <2>2, <3>1, <3>2
  <2>7. TypedLine' BY <2>1, <2>2, <2>3, <2>4, <2>5 DEF LineInv, TypedLine
  <2>8. SplitLine'
    <3>1. hoisted' = <<>> /\ remaining' = <<>>
      BY <1>3 DEF FindSubcommand, LineInv, SplitLine
    <3>2. (Len(Behind) - Len(after))' = 0 BY <2>1, <2>5, <2>6
    <3>3. SharedOut(Behind', 0, <<>>, <<>>) BY NothingSharedOut
    <3>4. after' = SubSeq(after', 0 + 1, Len(after')) BY <2>5, SubSeqFull
    <3>5. Len(before') + 1 <= Len(typed') BY <2>1, <2>2, <2>4
    <3>6. Len(after') <= Len(Behind') BY <2>1, <2>5, <2>6
    <3>7. subcommand' \in Token BY <2>1, <2>2, <2>3
    <3>8. after' = SubSeq(Behind', (Len(Behind) - Len(after))' + 1, Len(Behind'))
      BY <2>6, <3>2, <3>4
    <3>9. SharedOut(Behind', (Len(Behind) - Len(after))', hoisted', remaining')
      BY <3>1, <3>2, <3>3
    <3> QED BY <2>2, <3>5, <3>6, <3>7, <3>8, <3>9 DEF SplitLine
  <2>9. Levelled' BY <1>3, <2>2 DEF FindSubcommand, LineInv, Levelled
  <2> QED BY <2>7, <2>8, <2>9 DEF LineInv
<1> QED BY <1>2, <1>3

\* One turn: the next tokens go to one of the lists.
LEMMA TurnKeepsLineInv ==
  ASSUME LineInv, HoistOption \/ KeepToken \/ StopAtSeparator
  PROVE  LineInv'
<1> DEFINE L == Len(Behind)
           k == L - Len(after)
<1>1. typed \in Seq(Token) BY LinesAreSequences DEF LineInv, TypedLine
<1>2. /\ pc = "scan" /\ after # <<>> /\ before \in Seq(Token) /\ after \in Seq(Token)
      /\ hoisted \in Seq(Token) /\ remaining \in Seq(Token)
      /\ Len(before) + 1 <= Len(typed) /\ Len(after) <= L
      /\ after = SubSeq(Behind, k + 1, L)
      /\ SharedOut(Behind, k, hoisted, remaining)
  BY DEF LineInv, TypedLine, SplitLine, HoistOption, KeepToken, StopAtSeparator, Scanning
<1>3. Behind \in Seq(Token)
  <2> DEFINE n == Len(typed)
             b == Len(before)
  <2>1. n \in Nat /\ b \in Nat BY <1>1, <1>2
  <2>2. \A p \in 1 .. n : typed[p] \in Token BY <1>1, ElementOfSeq
  <2> HIDE DEF n, b
  <2>3. \A p \in b + 2 .. n : typed[p] \in Token BY <2>1, <2>2
  <2>4. b + 2 \in Int /\ n \in Int BY <2>1
  <2>5. SubSeq(typed, b + 2, n) \in Seq(Token) BY <2>3, <2>4, SubSeqProperties
  <2> QED BY <2>5 DEF Behind, n, b
<1>4. L \in Nat /\ Len(after) \in Nat /\ k \in 0 .. L /\ Len(after) = L - k
  <2>1. L \in Nat /\ Len(after) \in Nat BY <1>2, <1>3
  <2> QED BY <1>2, <2>1
<1>5. ASSUME NEW c \in 1 .. Len(after),
             after' = SubSeq(after, c + 1, Len(after)),
             \/ hoisted' = hoisted \o SubSeq(after, 1, c) /\ remaining' = remaining
             \/ hoisted' = hoisted /\ remaining' = remaining \o SubSeq(after, 1, c),
             UNCHANGED <<typed, pc, before, subcommand, argv, parsed, context, answered, status>>
      PROVE  LineInv'
  <2> HIDE DEF L, k
  <2>1. c \in Int /\ c >= 1 /\ c <= L - k /\ k + c \in Int /\ k + c <= L /\ k \in Nat /\ L \in Int
        /\ c + 1 \in Int /\ c + 1 >= 1 /\ Len(after) \in Int /\ Len(after) <= L - k
    BY <1>4
  <2>2. /\ SubSeq(after, 1, c) = SubSeq(Behind, k + 1, k + c)
        /\ SubSeq(Behind, k + 1, k + c) \in Seq(Token)
    <3>1. k \in 0 .. Len(Behind) /\ c <= Len(Behind) - k BY <1>4, <2>1 DEF L
    <3>2. /\ SubSeq(SubSeq(Behind, k + 1, Len(Behind)), 1, c) = SubSeq(Behind, k + 1, k + c)
          /\ SubSeq(Behind, k + 1, k + c) \in Seq(Token)
      BY <1>3, <2>1, <3>1, StretchOfRest
    <3> QED BY <1>2, <3>2 DEF L
  <2>3. /\ after' = SubSeq(Behind, (k + c) + 1, L)
        /\ after' \in Seq(Token) /\ Len(after') = L - (k + c)
    <3> DEFINE i == c + 1
               j == L - k
    <3>1. i \in Int /\ j \in Int /\ i >= 1 /\ j <= L - k /\ Len(after) = j
          /\ k + i = (k + c) + 1 /\ k + j = L
      BY <1>4, <2>1
    <3>2. after' = SubSeq(SubSeq(Behind, k + 1, L), i, j) BY <1>2, <1>5, <3>1
    <3> HIDE DEF i, j
    <3>3. k \in 0 .. Len(Behind) /\ j <= Len(Behind) - k BY <1>4, <3>1 DEF L
    <3>4. /\ SubSeq(SubSeq(Behind, k + 1, Len(Behind)), i, j) = SubSeq(Behind, k + i, k + j)
          /\ SubSeq(Behind, k + i, k + j) \in Seq(Token)
          /\ Len(SubSeq(Behind, k + i, k + j)) = IF i <= j THEN j - i + 1 ELSE 0
      BY <1>3, <3>1, <3>3, StretchOfRest
    <3>5. (IF i <= j THEN j - i + 1 ELSE 0) = L - (k + c) BY <2>1 DEF i, j
    <3>6. after' = SubSeq(Behind, k + i, k + j) BY <3>2, <3>4 DEF L
    <3> QED BY <3>1, <3>4, <3>5, <3>6
  <2>4. /\ SharedOut(Behind, k + c, hoisted', remaining')
        /\ hoisted' \in Seq(Token) /\ remaining' \in Seq(Token)
    <3> DEFINE more == SubSeq(Behind, k + 1, k + c)
    <3>1. k \in Nat /\ k <= k + c BY <2>1
    <3>2. /\ SharedOut(Behind, k + c, hoisted \o more, remaining)
          /\ SharedOut(Behind, k + c, hoisted, remaining \o more)
      BY <1>2, <2>1, <3>1, SharedOutFurther
    <3>3. hoisted \o more \in Seq(Token) /\ remaining \o more \in Seq(Token)
      BY <1>2, <2>2, ConcatProperties
    <3>4. \/ hoisted' = hoisted \o more /\ remaining' = remaining
          \/ hoisted' = hoisted /\ remaining' = remaining \o more
      BY <1>5, <2>2
    <3> HIDE DEF more
    <3> QED BY <1>2, <3>2, <3>3, <3>4
  <2>5. Behind' = Behind BY <1>5 DEF Behind
  <2>6. TypedLine'
    BY <1>5, <2>3, <2>4 DEF LineInv, TypedLine
  <2>7. SplitLine'
    <3>1. Len(Behind') - Len(after') = k + c
      <4>1. L - (L - (k + c)) = k + c BY <2>1
      <4>2. Len(Behind') = L BY <2>5 DEF L
      <4> QED BY <2>3, <4>1, <4>2
    <3>2. Len(after') <= Len(Behind') BY <2>1, <2>3, <2>5 DEF L
    <3>3. after' = SubSeq(Behind', (Len(Behind') - Len(after')) + 1, Len(Behind'))
      BY <2>3, <2>5, <3>1 DEF L
    <3>4. SharedOut(Behind', Len(Behind') - Len(after'), hoisted', remaining')
      BY <2>4, <2>5, <3>1
    <3>5. subcommand' \in Token /\ Len(before') + 1 <= Len(typed') /\ pc' = "scan"
      BY <1>2, <1>5 DEF LineInv, SplitLine
    <3> QED BY <3>2, <3>3, <3>4, <3>5 DEF SplitLine
  <2>8. Levelled' BY <1>5 DEF LineInv, Levelled
  <2> QED BY <2>6, <2>7, <2>8 DEF LineInv
<1>6. Len(after) >= 1
  <2>1. Len(after) \in Nat \ {0} BY <1>2, EmptySeq
  <2> QED BY <2>1
<1> HIDE DEF L, k
<1>7. CASE HoistOption
  <2>1. Consumed(after) \in 1 .. Len(after) BY <1>2, ConsumedIsThere
  <2>2. /\ after' = SubSeq(after, Consumed(after) + 1, Len(after))
        /\ hoisted' = hoisted \o SubSeq(after, 1, Consumed(after)) /\ remaining' = remaining
        /\ UNCHANGED <<typed, pc, before, subcommand, argv, parsed, context, answered, status>>
    BY <1>7 DEF HoistOption, Take
  <2> QED BY <1>5, <2>1, <2>2
<1>8. CASE KeepToken
  <2>1. 1 \in 1 .. Len(after) BY <1>4, <1>6
  <2>2. /\ after' = SubSeq(after, 1 + 1, Len(after))
        /\ hoisted' = hoisted /\ remaining' = Append(remaining, Head(after))
        /\ UNCHANGED <<typed, pc, before, subcommand, argv, parsed, context, answered, status>>
    BY <1>8 DEF KeepToken, Take
  <2>3. Append(remaining, Head(after)) = remaining \o SubSeq(after, 1, 1)
    <3>1. SubSeq(after, 1, 1) = <<after[1]>>
      <4>1. SubSeq(after, 1, 1) = SubSeq(after, 1, 1 - 1) \o <<after[1]>>
        BY <1>2, <2>1, SubSeqRecursiveSecond
      <4>2. SubSeq(after, 1, 1 - 1) = <<>> BY SubSeqEmpty
      <4>3. after[1] \in Token BY <1>2, <2>1, ElementOfSeq
      <4>4. <<after[1]>> \in Seq(Token) BY <4>3
      <4>5. <<>> \o <<after[1]>> = <<after[1]>> BY <4>4, ConcatEmptySeq
      <4> QED BY <4>1, <4>2, <4>5
    <3>2. Head(after) = after[1] /\ after[1] \in Token BY <1>2, <2>1, ElementOfSeq
    <3>3. \A e \in Token : Append(remaining, e) = remaining \o <<e>> BY <1>2
    <3> QED BY <3>1, <3>2, <3>3
  <2> QED BY <1>5, <2>1, <2>2, <2>3
<1>9. CASE StopAtSeparator
  <2>1. Len(after) \in 1 .. Len(after) BY <1>4, <1>6
  <2>2. /\ after' = <<>> /\ hoisted' = hoisted /\ remaining' = remaining \o after
        /\ UNCHANGED <<typed, pc, before, subcommand, argv, parsed, context, answered, status>>
    BY <1>9 DEF StopAtSeparator
  <2>3. SubSeq(after, 1, Len(after)) = after BY <1>2, SubSeqFull
  <2>4. SubSeq(after, Len(after) + 1, Len(after)) = <<>>
    <3>1. Len(after) + 1 \in Int /\ Len(after) \in Int /\ Len(after) < Len(after) + 1 BY <1>4
    <3> QED BY <3>1, SubSeqEmpty
  <2> QED BY <1>5, <2>1, <2>2, <2>3, <2>4
<1> QED BY <1>7, <1>8, <1>9

\* The assembled line consists of tokens.
LEMMA AssembleKeepsLineInv ==
  ASSUME LineInv, Assemble
  PROVE  LineInv'
<1>1. pc = "scan" /\ subcommand \in Token BY DEF LineInv, SplitLine, Assemble
<1>2. before \in Seq(Token) /\ hoisted \in Seq(Token) /\ remaining \in Seq(Token)
  BY DEF LineInv, TypedLine
<1>3. before \o hoisted \o <<subcommand>> \o remaining \in Seq(Token)
  <2>1. <<subcommand>> \in Seq(Token) BY <1>1
  <2> DEFINE a == before \o hoisted
             b == a \o <<subcommand>>
  <2>2. a \in Seq(Token) BY <1>2, ConcatProperties
  <2> HIDE DEF a
  <2>3. b \in Seq(Token) BY <2>1, <2>2, ConcatProperties
  <2> HIDE DEF b
  <2>4. b \o remaining \in Seq(Token) BY <1>2, <2>3, ConcatProperties
  <2> QED BY <2>4 DEF a, b
<1>4. argv' \in Seq(Token) /\ pc' = "parse"
      /\ UNCHANGED <<typed, before, subcommand, after, hoisted, remaining, parsed, context, answered, status>>
  BY <1>3 DEF Assemble, split
<1>5. TypedLine' BY <1>4 DEF LineInv, TypedLine
<1>6. SplitLine' BY <1>4 DEF SplitLine
<1>7. Levelled' BY <1>1, <1>4 DEF LineInv, Levelled
<1> QED BY <1>5, <1>6, <1>7 DEF LineInv

\* Click parses the line, and may end the process.
LEMMA ParseKeepsLineInv ==
  ASSUME LineInv, Parse
  PROVE  LineInv'
<1>1. argv \in Seq(Token) /\ context = "none" /\ pc = "parse"
  BY DEF LineInv, TypedLine, Levelled, Parse
<1>2. IsParse(parsed') BY <1>1, ParsesAreTyped DEF Parse
<1>3. UNCHANGED <<typed, before, subcommand, after, hoisted, remaining, argv, context>>
  BY DEF Parse, split
<1>4. /\ pc' \in {"done", "callback", "resolve"}
      /\ answered' \in {answered, "help"}
      /\ status' \in -1 .. 255
  <2>1. \A code \in {ExitCode.USAGE_ERROR, ExitCode.SUCCESS} : ExitStatus(code) \in -1 .. 255
    <3>1. ExitCode.USAGE_ERROR \in Int /\ ExitCode.SUCCESS \in Int BY DEF ExitCode
    <3> QED BY <3>1, AStatusIsAByte
  <2>2. status \in -1 .. 255 BY DEF LineInv, TypedLine
  <2> QED BY <2>1, <2>2 DEF Parse, Exit
<1>5. TypedLine' BY <1>2, <1>3, <1>4 DEF LineInv, TypedLine
<1>6. SplitLine' BY <1>4 DEF SplitLine
<1>7. Levelled' BY <1>1, <1>3 DEF Levelled
<1> QED BY <1>5, <1>6, <1>7 DEF LineInv

\* The level is settled when the context is built.
LEMMA BuildContextKeepsLineInv ==
  ASSUME LineInv, BuildContext
  PROVE  LineInv'
<1>1. /\ context' = LogLevel(parsed.opts) /\ pc' \in {"done", "arguments"}
      /\ UNCHANGED <<typed, before, subcommand, after, hoisted, remaining, argv, parsed>>
  BY DEF BuildContext, Exit, split
<1>2. answered' \in {answered, "help"} /\ status' \in -1 .. 255
  <2>1. ExitStatus(ExitCode.SUCCESS) \in -1 .. 255
    <3>1. ExitCode.SUCCESS \in Int BY DEF ExitCode
    <3> QED BY <3>1, AStatusIsAByte
  <2>2. status \in -1 .. 255 BY DEF LineInv, TypedLine
  <2> QED BY <2>1, <2>2 DEF BuildContext, Exit
<1>3. TypedLine' BY <1>1, <1>2 DEF LineInv, TypedLine
<1>4. SplitLine' BY <1>1 DEF SplitLine
<1>5. Levelled'
  <2>1. parsed' = parsed BY <1>1
  <2> QED BY <1>1, <2>1 DEF Levelled
<1> QED BY <1>3, <1>4, <1>5 DEF LineInv

\* Nothing after the parse changes what was parsed, and every ending is a status.
LEMMA RestKeepsLineInv ==
  ASSUME LineInv,
         \/ ResolveBuiltin \/ ResolvePlugin \/ UnknownCommand \/ CallbackFails
         \/ ParseArguments \/ RunBuiltin \/ RunPlugin \/ Interrupt
  PROVE  LineInv'
<1>1. UNCHANGED <<typed, before, subcommand, after, hoisted, remaining, argv, parsed, context>>
  BY DEF ResolveBuiltin, ResolvePlugin, UnknownCommand, CallbackFails, ParseArguments,
         RunBuiltin, RunPlugin, Interrupt, split
<1>2. /\ pc' \in {"callback", "run", "done"}
      /\ pc' = "callback" => pc = "resolve"
      /\ answered' \in {answered, "help", "builtin", "plugin"}
  BY DEF ResolveBuiltin, ResolvePlugin, UnknownCommand, CallbackFails, ParseArguments,
         RunBuiltin, RunPlugin, Interrupt, Exit
<1>3. status' \in -1 .. 255
  <2>1. \A code \in Int : Exit(code) => status' \in -1 .. 255 BY AStatusIsAByte DEF Exit
  <2>2. status \in -1 .. 255 BY DEF LineInv, TypedLine
  <2>3. /\ ExitCode.PLUGIN_ERROR \in Int /\ ExitCode.USAGE_ERROR \in Int
        /\ ExitCode.SUCCESS \in Int /\ ExitCode.INTERRUPTED \in Int
    BY DEF ExitCode
  <2>4. \A error : ErrorStatus(error) \in Int /\ StatusOf(error) \in Int BY StatusesAreNumbers
  <2>5. CASE ResolveBuiltin \/ ResolvePlugin BY <2>2, <2>5 DEF ResolveBuiltin, ResolvePlugin
  <2>6. CASE UnknownCommand BY <2>1, <2>3, <2>6 DEF UnknownCommand
  <2>7. CASE CallbackFails BY <2>1, <2>4, <2>7 DEF CallbackFails
  <2>8. CASE ParseArguments BY <2>1, <2>2, <2>3, <2>8 DEF ParseArguments
  <2>9. CASE RunBuiltin
    <3>1. PICK ending \in Endings(Command) : Exit(StatusOf(ending)) BY <2>9 DEF RunBuiltin
    <3> QED BY <2>1, <2>4, <3>1
  <2>10. CASE RunPlugin
    <3>1. CASE Exit(ErrorStatus("unexpected")) BY <2>1, <2>4, <3>1
    <3>2. CASE \E code \in PluginCodes : Exit(code) BY <2>1, <3>2, CodesAreIntegers
    <3> QED BY <2>10, <3>1, <3>2 DEF RunPlugin
  <2>11. CASE Interrupt BY <2>1, <2>3, <2>11 DEF Interrupt
  <2> QED BY <2>5, <2>6, <2>7, <2>8, <2>9, <2>10, <2>11
<1>4. TypedLine' BY <1>1, <1>2, <1>3 DEF LineInv, TypedLine
<1>5. SplitLine' BY <1>2 DEF SplitLine
<1>6. Levelled'
  <2>1. parsed' = parsed /\ context' = context BY <1>1
  <2> QED BY <1>2, <2>1 DEF LineInv, Levelled
<1> QED BY <1>4, <1>5, <1>6 DEF LineInv

LEMMA LineInvIsInductive ==
  ASSUME LineInv, [Next]_vars
  PROVE  LineInv'
<1>1. CASE UNCHANGED vars
  <2>1. UNCHANGED <<typed, pc, before, subcommand, after, hoisted, remaining, argv, parsed, context,
                    answered, status>>
    BY <1>1 DEF vars, split
  <2>2. TypedLine' BY <2>1 DEF LineInv, TypedLine
  <2>3. SplitLine' BY <2>1 DEF LineInv, SplitLine, Behind
  <2>4. Levelled' BY <2>1 DEF LineInv, Levelled
  <2> QED BY <2>2, <2>3, <2>4 DEF LineInv
<1>2. CASE Next
  BY <1>2, SplitKeepsLineInv, TurnKeepsLineInv, AssembleKeepsLineInv, ParseKeepsLineInv,
     BuildContextKeepsLineInv, RestKeepsLineInv DEF Next, Work
<1> QED BY <1>1, <1>2

LEMMA LineInvHolds == Spec => []LineInv
<1> QED BY LineInvInitially, LineInvIsInductive, PTL DEF Spec

\* Whatever is typed, and whatever a plugin returns, the state of an invocation is
\* of its types; in particular the exit status fits in eight bits.
THEOREM InvocationTypesHold == Spec => []TypeOK
<1>1. LineInv => TypeOK
  <2> SUFFICES ASSUME LineInv PROVE TypeOK OBVIOUS
  <2>1. parsed.opts \in Seq(Seq(Token)) /\ parsed.rest \in Seq(Token)
    BY DEF LineInv, TypedLine, IsParse
  <2> QED BY <2>1 DEF LineInv, TypedLine, TypeOK
<1> QED BY <1>1, LineInvHolds, PTL

\* normalize_argv (argv_normalize.py:97) never drops, doubles or reorders a token,
\* whatever the line.
THEOREM NoTokenIsLost == Spec => []NothingLost
<1>1. LineInv => NothingLost
  <2> SUFFICES ASSUME LineInv, pc = "scan"
               PROVE  NothingLost
    BY DEF NothingLost
  <2>1. SharedOut(Behind, Len(Behind) - Len(after), hoisted, remaining) BY DEF LineInv, SplitLine
  <2> QED BY <2>1 DEF NothingLost, SharedOut, Behind, Picks, Rank
<1> QED BY <1>1, LineInvHolds, PTL

-----------------------------------------------------------------------------
(* The log level *)

\* The level is that of the last --log-level; without one a -v, however it is
\* written, asks for more than usual.
LEMMA LevelOfOptions ==
  ASSUME NEW opts \in Seq(Seq(Token))
  PROVE  LET names  == {o[1].name : o \in ToSet(opts)}
             loud   == names \intersect ({"-v", "--verbose"} \union Clusters) # {}
             levels == {i \in DOMAIN opts : opts[i][1].name = "--log-level"}
         IN IF levels # {}
            THEN \E i \in levels : LogLevel(opts) = ValueOf(opts[i]) /\ \A j \in levels : j <= i
            ELSE /\ loud => LogLevel(opts) \in {"debug", "trace"}
                 /\ LogLevel(opts) = "error" => ~ loud /\ names \intersect {"-q", "--quiet", "-qy"} # {}
<1> DEFINE n == Len(opts)
           levels == {i \in 1 .. n : opts[i][1].name = "--log-level"}
           last == IF levels # {} THEN Max(levels) ELSE 0
           Times(names) == Cardinality({i \in 1 .. n : opts[i][1].name \in names})
           names == {o[1].name : o \in ToSet(opts)}
           quiet == \E i \in 1 .. n : opts[i][1].name \in {"-q", "--quiet", "-qy"}
           loud == names \intersect ({"-v", "--verbose"} \union Clusters) # {}
           verbosity == Verbosity(opts)
<1>1. n \in Nat /\ DOMAIN opts = 1 .. n BY LenProperties
<1>2. verbosity = Times({"-v", "--verbose"}) + 2 * Times({"-vv"}) + 3 * Times({"-vvv"})
  BY <1>1 DEF Verbosity
<1>3. LogLevel(opts) =
        CASE last # 0                    -> ValueOf(opts[last])
          [] last = 0 /\ verbosity = 0 -> IF quiet THEN "error" ELSE "info"
          [] last = 0 /\ verbosity = 1 -> "debug"
          [] OTHER                       -> "trace"
  BY <1>1 DEF LogLevel, SelectLastInSeq, Has
<1>4. names = {opts[i][1].name : i \in 1 .. n}
  <2>1. ToSet(opts) = {opts[i] : i \in 1 .. n} BY <1>1 DEF ToSet
  <2> QED BY <2>1
<1>5. \A set : /\ Times(set) \in Nat
               /\ Times(set) = 0 => \A i \in 1 .. n : opts[i][1].name \notin set
  <2> TAKE set
  <2> DEFINE I == {i \in 1 .. n : opts[i][1].name \in set}
  <2>1. IsFiniteSet(1 .. n) BY <1>1, FS_Interval
  <2>2. IsFiniteSet(I) BY <2>1, FS_Subset
  <2>3. Cardinality(I) \in Nat BY <2>2, FS_CardinalityType
  <2>4. Cardinality(I) = 0 => I = {} BY <2>2, FS_EmptySet
  <2> QED BY <2>3, <2>4
<1>6. CASE levels # {}
  <2>1. PICK m \in levels : \A k \in levels : m >= k
    <3>1. levels \in SUBSET (1 .. n) OBVIOUS
    <3> HIDE DEF levels, n
    <3> QED BY <1>1, <1>6, <3>1, GreatestOf
  <2>2. Max(levels) \in levels /\ \A k \in levels : Max(levels) >= k
    <3> HIDE DEF levels
    <3> QED BY <2>1 DEF Max
  <2>3. last \in levels /\ (\A k \in levels : k <= last) /\ last # 0
    <3>1. last = Max(levels) BY <1>6
    <3>2. \A k \in levels : k \in Int /\ k # 0 BY <1>1
    <3> HIDE DEF levels, last
    <3> QED BY <2>2, <3>1, <3>2
  <2>4. LogLevel(opts) = ValueOf(opts[last])
    <3> HIDE DEF last, quiet, verbosity
    <3> QED BY <1>3, <2>3
  <2> HIDE DEF last
  <2> QED BY <1>1, <1>6, <2>3, <2>4
<1>7. CASE levels = {}
  <2>1. last = 0 BY <1>7
  <2>2. LogLevel(opts) = IF verbosity = 0 THEN (IF quiet THEN "error" ELSE "info")
                         ELSE IF verbosity = 1 THEN "debug" ELSE "trace"
    <3> HIDE DEF last, quiet, verbosity
    <3> QED BY <1>3, <2>1
  <2>3. loud => verbosity # 0
    <3> SUFFICES ASSUME verbosity = 0 PROVE ~ loud OBVIOUS
    <3> DEFINE one == {"-v", "--verbose"}
               two == {"-vv"}
               three == {"-vvv"}
    <3>1. Times(one) = 0 /\ Times(two) = 0 /\ Times(three) = 0
      <4>1. Times(one) \in Nat /\ Times(two) \in Nat /\ Times(three) \in Nat BY <1>5
      <4>2. verbosity = Times(one) + 2 * Times(two) + 3 * Times(three) BY <1>2
      <4> HIDE DEF Times, one, two, three, verbosity
      <4>3. verbosity = 0 OBVIOUS
      <4> QED BY <4>1, <4>2, <4>3
    <3>2. \A i \in 1 .. n : /\ opts[i][1].name \notin one /\ opts[i][1].name \notin two
                            /\ opts[i][1].name \notin three
      <4> HIDE DEF Times, one, two, three, n
      <4> QED BY <1>5, <3>1
    <3>3. \A x \in names : x \notin {"-v", "--verbose"} \union Clusters
      <4>1. \A x \in names : x \notin one /\ x \notin two /\ x \notin three
        <5> HIDE DEF one, two, three, names
        <5> QED BY <1>4, <3>2
      <4>2. {"-v", "--verbose"} \union Clusters = one \union two \union three BY DEF Clusters
      <4> HIDE DEF one, two, three, names
      <4> QED BY <4>1, <4>2
    <3> HIDE DEF names
    <3> QED BY <3>3
  <2>4. quiet => names \intersect {"-q", "--quiet", "-qy"} # {} BY <1>4
  <2>5. /\ loud => LogLevel(opts) \in {"debug", "trace"}
        /\ LogLevel(opts) = "error" => ~ loud /\ names \intersect {"-q", "--quiet", "-qy"} # {}
    <3> HIDE DEF loud, names, quiet, verbosity
    <3> QED BY <2>2, <2>3, <2>4
  <2> QED BY <1>1, <1>7, <2>5
<1> QED BY <1>6, <1>7

\* resolve_log_level: what a command logs at is what the line asks for, wherever
\* its options stand: the last --log-level, else any -v before -q.
THEOREM TheLevelIsTheOneAskedFor == Spec => []AskedLevel
<1>1. LineInv => AskedLevel
  <2> SUFFICES ASSUME LineInv, context # "none", parsed = Meant(typed)
               PROVE  AskedLevel
    BY DEF AskedLevel
  <2>1. parsed.opts \in Seq(Seq(Token)) BY DEF LineInv, TypedLine, IsParse
  <2>2. context = LogLevel(parsed.opts) BY DEF LineInv, Levelled
  <2> DEFINE opts == Meant(typed).opts
  <2>3. opts \in Seq(Seq(Token)) /\ context = LogLevel(opts) BY <2>1, <2>2
  <2> HIDE DEF opts
  <2>4. LET names  == {o[1].name : o \in ToSet(opts)}
            loud   == names \intersect ({"-v", "--verbose"} \union Clusters) # {}
            levels == {i \in DOMAIN opts : opts[i][1].name = "--log-level"}
        IN IF levels # {}
           THEN \E i \in levels : context = ValueOf(opts[i]) /\ \A j \in levels : j <= i
           ELSE /\ loud => context \in {"debug", "trace"}
                /\ context = "error" => ~ loud /\ names \intersect {"-q", "--quiet", "-qy"} # {}
    BY <2>3, LevelOfOptions
  <2> QED BY <2>4 DEF AskedLevel, opts
<1> QED BY <1>1, LineInvHolds, PTL
-----------------------------------------------------------------------------
(* The equations of Click's parse *)

Past(s, w) == SubSeq(s, w + 1, Len(s))

\* The rest of a line, and the rest of a rest
LEMMA RestOfALine ==
  ASSUME NEW s \in Seq(Token), NEW w \in 0 .. Len(s)
  PROVE  /\ Past(s, w) \in Seq(Token)
         /\ Len(Past(s, w)) = Len(s) - w
         /\ \A i \in 1 .. Len(s) - w : Past(s, w)[i] = s[w + i]
         /\ \A v \in 0 .. Len(s) - w : Past(Past(s, w), v) = Past(s, w + v)
<1> DEFINE n == Len(s)
           rest == Past(s, w)
<1>1. n \in Nat /\ w \in Nat /\ w <= n /\ \A k \in 1 .. n : s[k] \in Token BY ElementOfSeq
<1> HIDE DEF n
<1>2. w + 1 \in Int /\ \A k \in w + 1 .. n : s[k] \in Token BY <1>1
<1>3. /\ rest \in Seq(Token) /\ Len(rest) = IF w + 1 <= n THEN n - (w + 1) + 1 ELSE 0
      /\ \A k \in 1 .. n - (w + 1) + 1 : rest[k] = s[(w + 1) + k - 1]
  BY <1>1, <1>2, SubSeqProperties DEF Past, n
<1>4. Len(rest) = n - w BY <1>1, <1>3
<1>5. ASSUME NEW i \in 1 .. n - w
      PROVE  rest[i] = s[w + i]
  <2>1. i \in 1 .. n - (w + 1) + 1 /\ (w + 1) + i - 1 = w + i BY <1>1
  <2> QED BY <1>3, <2>1
<1>6. ASSUME NEW v \in 0 .. n - w
      PROVE  Past(rest, v) = Past(s, w + v)
  <2> DEFINE i == v + 1
             j == n - w
  <2>1. i \in Int /\ j \in Int /\ i >= 1 /\ j <= Len(s) - w /\ w + i = (w + v) + 1 /\ w + j = n
    BY <1>1 DEF n
  <2> HIDE DEF i, j
  <2>2. SubSeq(SubSeq(s, w + 1, Len(s)), i, j) = SubSeq(s, w + i, w + j) BY <2>1, StretchOfRest
  <2>3. Past(rest, v) = SubSeq(rest, i, j) BY <1>4 DEF Past, i, j
  <2> QED BY <2>1, <2>2, <2>3 DEF Past, n
<1> QED BY <1>3, <1>4, <1>5, <1>6 DEF n

LEMMA RestOfConcat ==
  ASSUME NEW p \in Seq(Token), NEW X \in Seq(Token)
  PROVE  /\ p \o X \in Seq(Token) /\ Len(p \o X) = Len(p) + Len(X)
         /\ Past(p \o X, Len(p)) = X
         /\ SubSeq(p \o X, 1, Len(p)) = p
         /\ Past(p, 0) = p /\ Past(p, Len(p)) = <<>>
<1> DEFINE s == p \o X
           a == Len(p)
           b == Len(X)
<1>1. /\ s \in Seq(Token) /\ Len(s) = a + b
      /\ \A i \in 1 .. a + b : s[i] = IF i <= a THEN p[i] ELSE X[i - a]
  BY ConcatProperties
<1>2. a \in Nat /\ b \in Nat OBVIOUS
<1> HIDE DEF s, a, b
<1>3. a \in 0 .. Len(s) BY <1>1, <1>2
<1>4. /\ Past(s, a) \in Seq(Token) /\ Len(Past(s, a)) = b
      /\ \A i \in 1 .. b : Past(s, a)[i] = s[a + i]
  <2>1. Len(s) - a = b BY <1>1, <1>2
  <2> QED BY <1>1, <1>3, <2>1, RestOfALine
<1>5. Past(s, a) = X
  <2>1. \A i \in 1 .. b : a + i \in 1 .. a + b /\ ~ (a + i <= a) /\ (a + i) - a = i BY <1>2
  <2>2. \A i \in 1 .. b : Past(s, a)[i] = X[i] BY <1>1, <1>4, <2>1
  <2> QED BY <1>4, <2>2, SeqEqual DEF b
<1>6. SubSeq(s, 1, a) = p
  <2>1. \A i \in 1 .. a : s[i] = p[i] /\ p[i] \in Token
    <3>1. \A i \in 1 .. a : i \in 1 .. a + b /\ i <= a BY <1>2
    <3>2. \A i \in 1 .. a : p[i] \in Token BY ElementOfSeq DEF a
    <3> QED BY <1>1, <3>1, <3>2
  <2>2. \A i \in 1 .. a : s[i] \in Token BY <2>1
  <2>3. /\ SubSeq(s, 1, a) \in Seq(Token) /\ Len(SubSeq(s, 1, a)) = IF 1 <= a THEN a - 1 + 1 ELSE 0
        /\ \A i \in 1 .. a - 1 + 1 : SubSeq(s, 1, a)[i] = s[1 + i - 1]
    BY <1>2, <2>2, SubSeqProperties
  <2>4. Len(SubSeq(s, 1, a)) = a BY <1>2, <2>3
  <2>5. \A i \in 1 .. a : i \in 1 .. a - 1 + 1 /\ 1 + i - 1 = i BY <1>2
  <2>6. \A i \in 1 .. a : SubSeq(s, 1, a)[i] = p[i] BY <2>1, <2>3, <2>5
  <2> QED BY <2>3, <2>4, <2>6, SeqEqual DEF a
<1>7. Past(p, 0) = p BY SubSeqFull DEF Past
<1>8. Past(p, a) = <<>>
  <2>1. a + 1 \in Int /\ a \in Int /\ a < a + 1 BY <1>2
  <2> QED BY <2>1, SubSeqEmpty DEF Past, a
<1> QED BY <1>1, <1>5, <1>6, <1>7, <1>8 DEF s, a, b

\* What Click makes of the end of a line does not depend on what stands before.
LEMMA ParseOfTheRest ==
  ASSUME NEW line \in Seq(Token), NEW w \in 0 .. Len(line)
  PROVE  \A i \in 1 .. (Len(line) - w) + 2 : RootParse(line)[w + i] = RootParse(Past(line, w))[i]
<1> DEFINE Y == Past(line, w)
           n == Len(line)
           m == n - w
           f == RootParse(line)
           g == RootParse(Y)
           S == {i \in 1 .. m + 2 : f[w + i] = g[i]}
<1>1. n \in Nat /\ w \in Nat /\ w <= n /\ m \in Nat /\ w + m = n BY LenProperties
<1>2. /\ Y \in Seq(Token) /\ Len(Y) = m /\ \A i \in 1 .. m : Y[i] = line[w + i]
      /\ \A v \in 0 .. m : Past(Y, v) = Past(line, w + v)
  BY RestOfALine
<1>3. /\ \A i \in 1 .. n + 2 : f[i] = FromHere(line, f, i)
      /\ \A i \in 1 .. m + 2 : g[i] = FromHere(Y, g, i)
  <2> HIDE DEF Y, m, n
  <2>1. Len(line) \in Nat /\ Len(Y) \in Nat BY <1>1, <1>2 DEF n
  <2>2. \A i \in 1 .. Len(line) + 2 : f[i] = FromHere(line, f, i) BY <2>1, ParseIsStepwise
  <2>3. \A i \in 1 .. Len(Y) + 2 : g[i] = FromHere(Y, g, i) BY <2>1, ParseIsStepwise
  <2> QED BY <1>2, <2>2, <2>3 DEF n
<1> HIDE DEF Y, f, g, m
<1>4. m + 1 \in S /\ m + 2 \in S
  <2>1. ASSUME NEW i \in {m + 1, m + 2}
        PROVE  i \in S
    <3>1. i \in 1 .. m + 2 /\ i > m /\ w + i \in 1 .. n + 2 /\ w + i > n BY <1>1
    <3>2. f[w + i] = NothingParsed /\ g[i] = NothingParsed BY <1>2, <1>3, <3>1 DEF FromHere
    <3> QED BY <3>1, <3>2
  <2> QED BY <2>1
<1>5. ASSUME NEW i \in 1 .. m, i + 1 \in S, i + 2 \in S
      PROVE  i \in S
  <2>1. i \in 1 .. m + 2 /\ ~ i > m /\ w + i \in 1 .. n + 2 /\ ~ w + i > n /\ i \in Int
        /\ w + (i + 1) = (w + i) + 1 /\ w + (i + 2) = (w + i) + 2
    BY <1>1
  <2>2. Y[i] = line[w + i] BY <1>2
  <2>3. SubSeq(Y, i, m) = SubSeq(line, w + i, n) /\ SubSeq(Y, i + 1, m) = SubSeq(line, (w + i) + 1, n)
    <3>1. \A k \in {i, i + 1} : SubSeq(Y, k, m) = SubSeq(line, w + k, w + m)
      <4> TAKE k \in {i, i + 1}
      <4>1. k \in Int /\ k >= 1 /\ m \in Int /\ m <= Len(line) - w BY <1>1 DEF m
      <4> QED BY <4>1, StretchOfRest DEF Y, Past
    <3> QED BY <1>1, <2>1, <3>1
  <2>4. Width(Y, i) = Width(line, w + i) /\ Width(Y, i) \in {1, 2} BY <2>2 DEF Width
  <2>5. Piece(Y, i) = Piece(line, w + i)
    <3> DEFINE d == Width(Y, i)
               last == IF i + d - 1 <= m THEN i + d - 1 ELSE i
               lastOfLine == IF (w + i) + d - 1 <= n THEN (w + i) + d - 1 ELSE w + i
    <3>1. last \in Int /\ last <= m /\ w + last = lastOfLine /\ i \in Int /\ i >= 1
      <4> HIDE DEF n
      <4>1. d = 1 \/ d = 2 BY <2>4
      <4> HIDE DEF d
      <4> QED BY <1>1, <4>1
    <3>2. Piece(Y, i) = SubSeq(Y, i, last) BY <1>2 DEF Piece
    <3>3. Piece(line, w + i) = SubSeq(line, w + i, lastOfLine) BY <2>4 DEF Piece
    <3> HIDE DEF last, lastOfLine
    <3>4. last <= Len(line) - w BY <3>1 DEF m
    <3>5. SubSeq(Y, i, last) = SubSeq(line, w + i, w + last)
      BY <3>1, <3>4, StretchOfRest DEF Y, Past
    <3> QED BY <3>1, <3>2, <3>3, <3>5
  <2>6. f[(w + i) + Width(Y, i)] = g[i + Width(Y, i)] BY <1>5, <2>1, <2>4
  <2>7. FromHere(Y, g, i) = FromHere(line, f, w + i)
    <3> HIDE DEF S
    <3> QED BY <1>2, <2>1, <2>2, <2>3, <2>4, <2>5, <2>6 DEF FromHere
  <2>8. f[w + i] = g[i] BY <1>3, <2>1, <2>7
  <2> QED BY <2>1, <2>8
<1>6. 1 .. m + 2 \subseteq S
  <2> HIDE DEF S
  <2> QED BY <1>1, <1>4, <1>5, Backwards
<1> QED BY <1>6 DEF m, f, g, Y

\* An option and its value in front of a parse
OptionFirst(p, r) == Parsed(<<p>> \o r.opts, r.rest, r.ended)

LEMMA OptionInFront ==
  ASSUME NEW r, IsParse(r), NEW p
  PROVE  [r EXCEPT !.opts = <<p>> \o @] = OptionFirst(p, r)
<1>1. r = [opts |-> r.opts, rest |-> r.rest, ended |-> r.ended] BY DEF IsParse, Parsed
<1> DEFINE q == <<p>> \o r.opts
<1>2. [r EXCEPT !.opts = q] = [opts |-> q, rest |-> r.rest, ended |-> r.ended]
  <2> HIDE DEF q
  <2> QED BY <1>1
<1> QED BY <1>2 DEF OptionFirst, Parsed

LEMMA ParseOfWord ==
  ASSUME NEW X \in Seq(Token), X # <<>>, IsWord(X[1])
  PROVE  ParseRoot(X) = Parsed(<<>>, X, FALSE)
<1>1. Len(X) \in Nat /\ Len(X) >= 1
  <2>1. Len(X) \in Nat \ {0} BY EmptySeq
  <2> QED BY <2>1
<1>2. 1 \in 1 .. Len(X) + 2 /\ ~ 1 > Len(X) BY <1>1
<1>3. ParseRoot(X) = FromHere(X, RootParse(X), 1) BY <1>1, <1>2, ParseIsStepwise
<1>4. ParseRoot(X) = Parsed(<<>>, SubSeq(X, 1, Len(X)), FALSE) BY <1>2, <1>3 DEF FromHere
<1> QED BY <1>4, SubSeqFull

LEMMA ParseOfSeparator ==
  ASSUME NEW X \in Seq(Token), X # <<>>, ~ IsWord(X[1]), IsSeparator(X[1])
  PROVE  ParseRoot(X) = Parsed(<<>>, Past(X, 1), TRUE)
<1>1. Len(X) \in Nat /\ Len(X) >= 1
  <2>1. Len(X) \in Nat \ {0} BY EmptySeq
  <2> QED BY <2>1
<1>2. 1 \in 1 .. Len(X) + 2 /\ ~ 1 > Len(X) BY <1>1
<1>3. ParseRoot(X) = FromHere(X, RootParse(X), 1) BY <1>1, <1>2, ParseIsStepwise
<1> QED BY <1>2, <1>3 DEF FromHere, Past

LEMMA ParseOfNothing == ParseRoot(<<>>) = NothingParsed
<1>1. Len(<<>>) = 0 OBVIOUS
<1>2. 1 \in 1 .. 0 + 2 /\ 1 > 0 OBVIOUS
<1>3. ParseRoot(<<>>) = FromHere(<<>>, RootParse(<<>>), 1) BY <1>1, <1>2, ParseIsStepwise
<1> QED BY <1>1, <1>3 DEF FromHere

\* An option takes its value with it, whatever the value looks like.
LEMMA ParseOfOption ==
  ASSUME NEW X \in Seq(Token), X # <<>>, ~ IsWord(X[1]), ~ IsSeparator(X[1]), Width(X, 1) <= Len(X)
  PROVE  /\ ParseRoot(X) = OptionFirst(SubSeq(X, 1, Width(X, 1)), ParseRoot(Past(X, Width(X, 1))))
         /\ IsParse(ParseRoot(Past(X, Width(X, 1))))
<1> DEFINE w == Width(X, 1)
<1>1. Len(X) \in Nat /\ Len(X) >= 1
  <2>1. Len(X) \in Nat \ {0} BY EmptySeq
  <2> QED BY <2>1
<1>2. 1 \in 1 .. Len(X) + 2 /\ ~ 1 > Len(X) BY <1>1
<1>3. ParseRoot(X) = FromHere(X, RootParse(X), 1) BY <1>1, <1>2, ParseIsStepwise
<1>4. w \in {1, 2} /\ w \in 0 .. Len(X)
  <2>1. w \in {1, 2} BY DEF Width
  <2> QED BY <1>1, <2>1
<1> HIDE DEF w
<1>5. RootParse(X)[1 + w] = ParseRoot(Past(X, w))
  <2>1. Past(X, w) \in Seq(Token) BY <1>4, RestOfALine
  <2>2. Len(Past(X, w)) \in Nat BY <2>1
  <2>3. ParseRoot(Past(X, w)) = RootParse(Past(X, w))[1] BY <2>2, ParseIsStepwise
  <2>4. 1 \in 1 .. (Len(X) - w) + 2 /\ w + 1 = 1 + w BY <1>1, <1>4
  <2>5. RootParse(X)[w + 1] = RootParse(Past(X, w))[1] BY <1>4, <2>4, ParseOfTheRest
  <2> QED BY <2>3, <2>4, <2>5
<1>6. IsParse(ParseRoot(Past(X, w)))
  <2>1. Past(X, w) \in Seq(Token) BY <1>4, RestOfALine
  <2> QED BY <2>1, ParsesAreTyped
<1>7. Piece(X, 1) = SubSeq(X, 1, w)
  <2>1. 1 + w - 1 <= Len(X) /\ 1 + w - 1 = w BY <1>1, <1>4
  <2> QED BY <2>1 DEF Piece, w
<1>8. ParseRoot(X) = [RootParse(X)[1 + w] EXCEPT !.opts = <<Piece(X, 1)>> \o @]
  BY <1>2, <1>3 DEF FromHere, w
<1>9. ParseRoot(X) = OptionFirst(SubSeq(X, 1, w), ParseRoot(Past(X, w)))
  <2> DEFINE r == ParseRoot(Past(X, w))
             p == SubSeq(X, 1, w)
  <2> HIDE DEF r, p
  <2>1. ParseRoot(X) = [r EXCEPT !.opts = <<p>> \o @] BY <1>5, <1>7, <1>8 DEF r, p
  <2>2. IsParse(r) BY <1>6 DEF r
  <2> QED BY <2>1, <2>2, OptionInFront DEF r, p
<1> QED BY <1>6, <1>9 DEF w

\* An option that asks for a value at the end of the line gets none.
LEMMA ParseOfLoneOption ==
  ASSUME NEW X \in Seq(Token), Len(X) = 1, ~ IsWord(X[1]), ~ IsSeparator(X[1]), Asks(X[1])
  PROVE  ParseRoot(X) = Parsed(<<X>>, <<>>, FALSE)
<1>1. 1 \in 1 .. 1 + 2 /\ 3 \in 1 .. 1 + 2 /\ ~ 1 > 1 /\ 3 > 1 OBVIOUS
<1>2. /\ ParseRoot(X) = FromHere(X, RootParse(X), 1)
      /\ RootParse(X)[3] = FromHere(X, RootParse(X), 3)
  <2>1. Len(X) \in Nat OBVIOUS
  <2>2. /\ ParseRoot(X) = RootParse(X)[1]
        /\ \A i \in 1 .. Len(X) + 2 : RootParse(X)[i] = FromHere(X, RootParse(X), i)
    BY <2>1, ParseIsStepwise
  <2> QED BY <1>1, <2>2
<1>3. Width(X, 1) = 2 BY DEF Width
<1>4. Piece(X, 1) = X
  <2>1. ~ (1 + 2 - 1 <= Len(X)) OBVIOUS
  <2>2. Piece(X, 1) = SubSeq(X, 1, Len(X)) BY <1>3, <2>1 DEF Piece
  <2> QED BY <2>2, SubSeqFull
<1>5. RootParse(X)[1 + 2] = NothingParsed BY <1>1, <1>2 DEF FromHere
<1>6. ParseRoot(X) = [NothingParsed EXCEPT !.opts = <<X>> \o @]
  BY <1>1, <1>2, <1>3, <1>4, <1>5 DEF FromHere
<1>7. IsParse(NothingParsed) BY DEF IsParse, NothingParsed, Parsed
<1>8. ParseRoot(X) = OptionFirst(X, NothingParsed) BY <1>6, <1>7, OptionInFront
<1>9. <<X>> \o <<>> = <<X>> OBVIOUS
<1> QED BY <1>8, <1>9 DEF OptionFirst, NothingParsed, Parsed

-----------------------------------------------------------------------------
(* The equations of Sorted *)

IsTaken(t) == t.name \in Valued \union Flags \union Clusters /\ ~ Asks(t)

FromWord(words, from, i) ==
  IF i > Len(words) THEN NothingParsed
  ELSE IF IsSeparator(words[i]) THEN Parsed(<<>>, SubSeq(words, i, Len(words)), FALSE)
  ELSE IF Asks(words[i]) /\ i < Len(words)
  THEN [from[i + 2] EXCEPT !.opts = <<SubSeq(words, i, i + 1)>> \o @]
  ELSE IF IsTaken(words[i]) THEN [from[i + 1] EXCEPT !.opts = <<<<words[i]>>>> \o @]
  ELSE [from[i + 1] EXCEPT !.rest = <<words[i]>> \o @]

SortedWords(words) ==
  LET from[i \in 1 .. Len(words) + 2] ==
        IF i > Len(words) THEN NothingParsed
        ELSE LET t == words[i]
             IN IF IsSeparator(t) THEN Parsed(<<>>, SubSeq(words, i, Len(words)), FALSE)
                ELSE IF Asks(t) /\ i < Len(words)
                THEN [from[i + 2] EXCEPT !.opts = <<SubSeq(words, i, i + 1)>> \o @]
                ELSE IF t.name \in Valued \union Flags \union Clusters /\ ~Asks(t)
                THEN [from[i + 1] EXCEPT !.opts = <<<<t>>>> \o @]
                ELSE [from[i + 1] EXCEPT !.rest = <<t>> \o @]
  IN from

\* It is defined, like the parse.
LEMMA SortedIsStepwise ==
  ASSUME NEW words, Len(words) \in Nat
  PROVE  /\ Sorted(words) = SortedWords(words)[1]
         /\ \A i \in 1 .. Len(words) + 2 :
              SortedWords(words)[i] = FromWord(words, SortedWords(words), i)
<1> DEFINE n == Len(words)
           Made(h) == [i \in 1 .. n + 2 |-> FromWord(words, h, i)]
           Partly(h, k) == \A i \in k .. n + 2 : h[i] = FromWord(words, h, i)
           S == {k \in 1 .. n + 2 : \E h : h = [i \in 1 .. n + 2 |-> h[i]] /\ Partly(h, k)}
<1>1. n \in Nat OBVIOUS
<1>2. \A f, g, i : /\ i > n => FromWord(words, f, i) = FromWord(words, g, i)
                   /\ f[i + 1] = g[i + 1] /\ f[i + 2] = g[i + 2] =>
                        FromWord(words, f, i) = FromWord(words, g, i)
  <2>1. ASSUME NEW f, NEW g, NEW i, i > n
        PROVE  FromWord(words, f, i) = FromWord(words, g, i)
    BY <2>1 DEF FromWord
  <2>2. ASSUME NEW f, NEW g, NEW i, f[i + 1] = g[i + 1], f[i + 2] = g[i + 2]
        PROVE  FromWord(words, f, i) = FromWord(words, g, i)
    BY <2>2 DEF FromWord
  <2> QED BY <2>1, <2>2
<1> HIDE DEF n
<1>3. n + 1 \in S /\ n + 2 \in S
  <2> DEFINE h == [i \in 1 .. n + 2 |-> FromWord(words, words, i)]
  <2>1. \A i \in n + 1 .. n + 2 : i > n /\ i \in 1 .. n + 2 BY <1>1
  <2>2. \A i \in 1 .. n + 2 : h[i] = FromWord(words, words, i) OBVIOUS
  <2>3. h = [i \in 1 .. n + 2 |-> h[i]] BY <2>2
  <2> HIDE DEF h
  <2>4. Partly(h, n + 1) BY <1>2, <2>1, <2>2
  <2>5. Partly(h, n + 2)
    <3>1. \A i \in n + 2 .. n + 2 : i \in n + 1 .. n + 2 BY <1>1
    <3> QED BY <2>4, <3>1
  <2>6. n + 1 \in 1 .. n + 2 /\ n + 2 \in 1 .. n + 2 BY <1>1
  <2> QED BY <2>3, <2>4, <2>5, <2>6
<1>4. ASSUME NEW k \in 1 .. n, k + 1 \in S, k + 2 \in S
      PROVE  k \in S
  <2>1. PICK h : h = [i \in 1 .. n + 2 |-> h[i]] /\ Partly(h, k + 1) BY <1>4
  <2> DEFINE g == [i \in 1 .. n + 2 |-> IF i = k THEN FromWord(words, h, k) ELSE h[i]]
  <2>2. \A i \in 1 .. n + 2 : g[i] = IF i = k THEN FromWord(words, h, k) ELSE h[i] OBVIOUS
  <2>3. g = [i \in 1 .. n + 2 |-> g[i]] BY <2>2
  <2> HIDE DEF g
  <2>4. ASSUME NEW i \in k .. n + 2
        PROVE  g[i] = FromWord(words, g, i)
    <3>1. i \in 1 .. n + 2 /\ (i = k \/ i \in k + 1 .. n + 2) BY <1>1
    <3>2. CASE i > n
      <4>1. i # k /\ i \in k + 1 .. n + 2 BY <1>1, <3>1, <3>2
      <4>2. g[i] = h[i] /\ h[i] = FromWord(words, h, i) BY <2>1, <2>2, <3>1, <4>1
      <4> QED BY <1>2, <3>2, <4>2
    <3>3. CASE ~ i > n
      <4>1. i + 1 \in 1 .. n + 2 /\ i + 2 \in 1 .. n + 2 /\ i + 1 # k /\ i + 2 # k BY <1>1, <3>1, <3>3
      <4>2. g[i + 1] = h[i + 1] /\ g[i + 2] = h[i + 2] BY <2>2, <4>1
      <4>3. FromWord(words, g, i) = FromWord(words, h, i) BY <1>2, <4>2
      <4>4. g[i] = FromWord(words, h, i) BY <2>1, <2>2, <3>1
      <4> QED BY <4>3, <4>4
    <3> QED BY <3>2, <3>3
  <2>5. k \in 1 .. n + 2 BY <1>1
  <2> QED BY <2>3, <2>4, <2>5
<1>5. 1 \in S
  <2> HIDE DEF S
  <2>1. 1 .. n + 2 \subseteq S BY <1>1, <1>3, <1>4, Backwards
  <2>2. 1 \in 1 .. n + 2 BY <1>1
  <2> QED BY <2>1, <2>2
<1>6. PICK f : f = [i \in 1 .. n + 2 |-> f[i]] /\ Partly(f, 1) BY <1>5
<1>7. f = Made(f) BY <1>6
<1> DEFINE Literal(h) ==
             [i \in 1 .. Len(words) + 2 |->
                IF i > Len(words) THEN NothingParsed
                ELSE LET t == words[i]
                     IN IF IsSeparator(t) THEN Parsed(<<>>, SubSeq(words, i, Len(words)), FALSE)
                        ELSE IF Asks(t) /\ i < Len(words)
                        THEN [h[i + 2] EXCEPT !.opts = <<SubSeq(words, i, i + 1)>> \o @]
                        ELSE IF t.name \in Valued \union Flags \union Clusters /\ ~Asks(t)
                        THEN [h[i + 1] EXCEPT !.opts = <<<<t>>>> \o @]
                        ELSE [h[i + 1] EXCEPT !.rest = <<t>> \o @]]
<1>8. \A h : Literal(h) = Made(h) BY DEF FromWord, IsTaken, n
<1>9. SortedWords(words) = CHOOSE h : h = Literal(h) BY DEF SortedWords
<1>10. SortedWords(words) = Made(SortedWords(words))
  <2> HIDE DEF Literal, Made
  <2> QED BY <1>7, <1>8, <1>9
<1>11. Sorted(words) = SortedWords(words)[1] BY DEF Sorted, SortedWords
<1>12. \A i \in 1 .. n + 2 : SortedWords(words)[i] = FromWord(words, SortedWords(words), i) BY <1>10
<1> QED BY <1>11, <1>12 DEF n

\* The rest of the words is sorted the same, whatever stands before.
LEMMA SortedRest ==
  ASSUME NEW words \in Seq(Token), NEW w \in 0 .. Len(words)
  PROVE  \A i \in 1 .. (Len(words) - w) + 2 :
           SortedWords(words)[w + i] = SortedWords(Past(words, w))[i]
<1> DEFINE Y == Past(words, w)
           n == Len(words)
           m == n - w
           f == SortedWords(words)
           g == SortedWords(Y)
           S == {i \in 1 .. m + 2 : f[w + i] = g[i]}
<1>1. n \in Nat /\ w \in Nat /\ w <= n /\ m \in Nat /\ w + m = n BY LenProperties
<1>2. /\ Y \in Seq(Token) /\ Len(Y) = m /\ \A i \in 1 .. m : Y[i] = words[w + i]
      /\ \A v \in 0 .. m : Past(Y, v) = Past(words, w + v)
  BY RestOfALine
<1>3. /\ \A i \in 1 .. n + 2 : f[i] = FromWord(words, f, i)
      /\ \A i \in 1 .. m + 2 : g[i] = FromWord(Y, g, i)
  <2> HIDE DEF Y, m, n
  <2>1. Len(words) \in Nat /\ Len(Y) \in Nat BY <1>1, <1>2 DEF n
  <2>2. \A i \in 1 .. Len(words) + 2 : f[i] = FromWord(words, f, i) BY <2>1, SortedIsStepwise
  <2>3. \A i \in 1 .. Len(Y) + 2 : g[i] = FromWord(Y, g, i) BY <2>1, SortedIsStepwise
  <2> QED BY <1>2, <2>2, <2>3 DEF n
<1> HIDE DEF Y, f, g, m
<1>4. m + 1 \in S /\ m + 2 \in S
  <2>1. ASSUME NEW i \in {m + 1, m + 2}
        PROVE  i \in S
    <3>1. i \in 1 .. m + 2 /\ i > m /\ w + i \in 1 .. n + 2 /\ w + i > n BY <1>1
    <3>2. f[w + i] = NothingParsed /\ g[i] = NothingParsed BY <1>2, <1>3, <3>1 DEF FromWord
    <3> QED BY <3>1, <3>2
  <2> QED BY <2>1
<1>5. ASSUME NEW i \in 1 .. m, i + 1 \in S, i + 2 \in S
      PROVE  i \in S
  <2>1. i \in 1 .. m + 2 /\ ~ i > m /\ w + i \in 1 .. n + 2 /\ ~ w + i > n /\ i \in Int
        /\ w + (i + 1) = (w + i) + 1 /\ w + (i + 2) = (w + i) + 2 /\ (i < m <=> w + i < n)
    BY <1>1
  <2>2. Y[i] = words[w + i] BY <1>2
  <2>3. SubSeq(Y, i, m) = SubSeq(words, w + i, n)
    <3>1. i >= 1 /\ m \in Int /\ m <= Len(words) - w BY <1>1, <2>1 DEF m
    <3>2. SubSeq(Y, i, m) = SubSeq(words, w + i, w + m) BY <2>1, <3>1, StretchOfRest DEF Y, Past
    <3> QED BY <1>1, <3>2
  <2>4. i < m => SubSeq(Y, i, i + 1) = SubSeq(words, w + i, (w + i) + 1)
    <3> HAVE i < m
    <3>1. i >= 1 /\ i + 1 \in Int /\ i + 1 <= Len(words) - w
      <4>1. i + 1 <= m /\ i >= 1 /\ i + 1 \in Int BY <1>1, <2>1
      <4> QED BY <4>1 DEF m
    <3>2. SubSeq(Y, i, i + 1) = SubSeq(words, w + i, w + (i + 1))
      BY <2>1, <3>1, StretchOfRest DEF Y, Past
    <3> QED BY <2>1, <3>2
  <2>5. f[(w + i) + 1] = g[i + 1] /\ f[(w + i) + 2] = g[i + 2] BY <1>5, <2>1
  <2>6. FromWord(Y, g, i) = FromWord(words, f, w + i)
    <3> HIDE DEF S
    <3> QED BY <1>2, <2>1, <2>2, <2>3, <2>4, <2>5 DEF FromWord
  <2>7. f[w + i] = g[i] BY <1>3, <2>1, <2>6
  <2> QED BY <2>1, <2>7
<1>6. 1 .. m + 2 \subseteq S
  <2> HIDE DEF S
  <2> QED BY <1>1, <1>4, <1>5, Backwards
<1> QED BY <1>6 DEF m, f, g, Y

KeptFirst(t, r) == Parsed(r.opts, <<t>> \o r.rest, r.ended)

LEMMA WordInFront ==
  ASSUME NEW r, IsParse(r), NEW t
  PROVE  [r EXCEPT !.rest = <<t>> \o @] = KeptFirst(t, r)
<1>1. r = [opts |-> r.opts, rest |-> r.rest, ended |-> r.ended] BY DEF IsParse, Parsed
<1> DEFINE q == <<t>> \o r.rest
<1>2. [r EXCEPT !.rest = q] = [opts |-> r.opts, rest |-> q, ended |-> r.ended]
  <2> HIDE DEF q
  <2> QED BY <1>1
<1> QED BY <1>2 DEF KeptFirst, Parsed

LEMMA FrontsAreParses ==
  ASSUME NEW r, IsParse(r)
  PROVE  /\ \A p \in Seq(Token) : IsParse(OptionFirst(p, r))
         /\ \A t \in Token : IsParse(KeptFirst(t, r))
<1>1. r.opts \in Seq(Seq(Token)) /\ r.rest \in Seq(Token) BY DEF IsParse
<1>2. ASSUME NEW p \in Seq(Token)
      PROVE  IsParse(OptionFirst(p, r))
  <2> DEFINE opts == <<p>> \o r.opts
  <2>1. opts \in Seq(Seq(Token))
    <3>1. <<p>> \in Seq(Seq(Token)) OBVIOUS
    <3> QED BY <1>1, <3>1, ConcatProperties
  <2> HIDE DEF opts
  <2>2. IsParse(Parsed(opts, r.rest, r.ended)) BY <1>1, <2>1, MadeParse
  <2> QED BY <2>2 DEF OptionFirst, opts
<1>3. ASSUME NEW t \in Token
      PROVE  IsParse(KeptFirst(t, r))
  <2> DEFINE rest == <<t>> \o r.rest
  <2>1. rest \in Seq(Token)
    <3>1. <<t>> \in Seq(Token) OBVIOUS
    <3> QED BY <1>1, <3>1, ConcatProperties
  <2> HIDE DEF rest
  <2>2. IsParse(Parsed(r.opts, rest, r.ended)) BY <1>1, <2>1, MadeParse
  <2> QED BY <2>2 DEF KeptFirst, rest
<1> QED BY <1>2, <1>3

LEMMA NothingIsAParse == IsParse(NothingParsed)
BY DEF IsParse, NothingParsed, Parsed

\* What is sorted are options and words.
LEMMA SortedIsTyped ==
  ASSUME NEW words \in Seq(Token)
  PROVE  IsParse(Sorted(words)) /\ \A i \in 1 .. Len(words) + 2 : IsParse(SortedWords(words)[i])
<1> DEFINE n == Len(words)
           from == SortedWords(words)
           S == {i \in 1 .. n + 2 : IsParse(from[i])}
<1>1. n \in Nat OBVIOUS
<1>2. /\ Sorted(words) = from[1]
      /\ \A i \in 1 .. n + 2 : from[i] = FromWord(words, from, i)
  BY <1>1, SortedIsStepwise
<1>3. \A i \in 1 .. n : words[i] \in Token BY ElementOfSeq
<1> HIDE DEF from
<1>4. n + 1 \in S /\ n + 2 \in S
  <2>1. ASSUME NEW i \in {n + 1, n + 2}
        PROVE  i \in S
    <3>1. i \in 1 .. n + 2 /\ i > n BY <1>1
    <3>2. from[i] = NothingParsed BY <1>2, <3>1 DEF FromWord
    <3> QED BY <3>1, <3>2, NothingIsAParse
  <2> QED BY <2>1
<1>5. ASSUME NEW i \in 1 .. n, i + 1 \in S, i + 2 \in S
      PROVE  i \in S
  <2>1. i \in 1 .. n + 2 /\ ~ i > n /\ i \in Int /\ (i < n => i + 1 <= n) BY <1>1
  <2>2. from[i] = FromWord(words, from, i) BY <1>2, <2>1
  <2>3. words[i] \in Token /\ <<words[i]>> \in Seq(Token) BY <1>3
  <2>4. IsParse(from[i + 1]) /\ IsParse(from[i + 2]) BY <1>5
  <2>5. \A j \in i .. n : SubSeq(words, i, j) \in Seq(Token)
    <3> HIDE DEF n
    <3> TAKE j \in i .. n
    <3>1. \A k \in i .. j : words[k] \in Token BY <1>1, <1>3
    <3> QED BY <1>1, <3>1, SubSeqProperties
  <2>6. CASE IsSeparator(words[i])
    <3> DEFINE rest == SubSeq(words, i, n)
    <3>1. rest \in Seq(Token)
      <4>1. n \in i .. n BY <1>1, <2>1
      <4> QED BY <2>5, <4>1
    <3>2. from[i] = Parsed(<<>>, rest, FALSE) BY <2>1, <2>2, <2>6 DEF FromWord
    <3> HIDE DEF rest
    <3>3. <<>> \in Seq(Seq(Token)) OBVIOUS
    <3>4. IsParse(from[i]) BY <3>1, <3>2, <3>3, MadeParse
    <3> QED BY <2>1, <3>4
  <2>7. CASE ~ IsSeparator(words[i]) /\ Asks(words[i]) /\ i < n
    <3> DEFINE p == SubSeq(words, i, i + 1)
    <3>1. p \in Seq(Token)
      <4>1. i + 1 \in i .. n BY <2>1, <2>7
      <4> QED BY <2>5, <4>1
    <3>2. from[i] = [from[i + 2] EXCEPT !.opts = <<p>> \o @] BY <2>1, <2>2, <2>7 DEF FromWord
    <3> HIDE DEF p
    <3>3. from[i] = OptionFirst(p, from[i + 2]) BY <2>4, <3>2, OptionInFront
    <3>4. IsParse(from[i]) BY <2>4, <3>1, <3>3, FrontsAreParses
    <3> QED BY <2>1, <3>4
  <2>8. CASE ~ IsSeparator(words[i]) /\ ~ (Asks(words[i]) /\ i < n) /\ IsTaken(words[i])
    <3>1. from[i] = [from[i + 1] EXCEPT !.opts = <<<<words[i]>>>> \o @]
      BY <2>1, <2>2, <2>8 DEF FromWord
    <3>2. from[i] = OptionFirst(<<words[i]>>, from[i + 1]) BY <2>4, <3>1, OptionInFront
    <3>3. IsParse(from[i]) BY <2>3, <2>4, <3>2, FrontsAreParses
    <3> QED BY <2>1, <3>3
  <2>9. CASE ~ IsSeparator(words[i]) /\ ~ (Asks(words[i]) /\ i < n) /\ ~ IsTaken(words[i])
    <3>1. from[i] = [from[i + 1] EXCEPT !.rest = <<words[i]>> \o @]
      BY <2>1, <2>2, <2>9 DEF FromWord
    <3>2. from[i] = KeptFirst(words[i], from[i + 1]) BY <2>4, <3>1, WordInFront
    <3>3. IsParse(from[i]) BY <2>3, <2>4, <3>2, FrontsAreParses
    <3> QED BY <2>1, <3>3
  <2> QED BY <2>6, <2>7, <2>8, <2>9
<1>6. 1 .. n + 2 \subseteq S
  <2> HIDE DEF S, n
  <2> QED BY <1>1, <1>4, <1>5, Backwards
<1>7. 1 \in 1 .. n + 2 BY <1>1
<1> QED BY <1>2, <1>6, <1>7 DEF from

\* "--" ends the sorting; an option is taken with its value if there is one.
LEMMA SortedOf ==
  ASSUME NEW X \in Seq(Token), X # <<>>
  PROVE  /\ IsSeparator(X[1]) => Sorted(X) = Parsed(<<>>, X, FALSE)
         /\ ~ IsSeparator(X[1]) /\ Asks(X[1]) /\ 1 < Len(X) =>
              Sorted(X) = OptionFirst(SubSeq(X, 1, 2), Sorted(Past(X, 2))) /\ IsParse(Sorted(Past(X, 2)))
         /\ ~ IsSeparator(X[1]) /\ IsTaken(X[1]) =>
              Sorted(X) = OptionFirst(<<X[1]>>, Sorted(Past(X, 1)))
         /\ ~ IsSeparator(X[1]) /\ ~ (Asks(X[1]) /\ 1 < Len(X)) /\ ~ IsTaken(X[1]) =>
              Sorted(X) = KeptFirst(X[1], Sorted(Past(X, 1)))
         /\ IsParse(Sorted(Past(X, 1)))
<1> DEFINE from == SortedWords(X)
<1>1. Len(X) \in Nat /\ Len(X) >= 1
  <2>1. Len(X) \in Nat \ {0} BY EmptySeq
  <2> QED BY <2>1
<1>2. 1 \in 1 .. Len(X) + 2 /\ ~ 1 > Len(X) BY <1>1
<1>3. Sorted(X) = FromWord(X, from, 1) BY <1>1, <1>2, SortedIsStepwise
<1> HIDE DEF from
<1>4. ASSUME NEW w \in 1 .. 2, w <= Len(X)
      PROVE  from[1 + w] = Sorted(Past(X, w)) /\ IsParse(Sorted(Past(X, w)))
  <2>1. w \in 0 .. Len(X) BY <1>1, <1>4
  <2>2. Past(X, w) \in Seq(Token) BY <2>1, RestOfALine
  <2>3. Len(Past(X, w)) \in Nat BY <2>2
  <2>4. Sorted(Past(X, w)) = SortedWords(Past(X, w))[1] BY <2>3, SortedIsStepwise
  <2>5. 1 \in 1 .. (Len(X) - w) + 2 /\ w + 1 = 1 + w BY <1>1, <2>1
  <2>6. from[w + 1] = SortedWords(Past(X, w))[1] BY <2>1, <2>5, SortedRest DEF from
  <2> QED BY <2>2, <2>4, <2>5, <2>6, SortedIsTyped
<1>5. from[1 + 1] = Sorted(Past(X, 1)) /\ IsParse(Sorted(Past(X, 1)))
  <2>1. 1 \in 1 .. 2 OBVIOUS
  <2> QED BY <1>1, <1>4, <2>1
<1>6. IsSeparator(X[1]) => Sorted(X) = Parsed(<<>>, X, FALSE)
  <2> HAVE IsSeparator(X[1])
  <2>1. Sorted(X) = Parsed(<<>>, SubSeq(X, 1, Len(X)), FALSE) BY <1>2, <1>3 DEF FromWord
  <2> QED BY <2>1, SubSeqFull
<1>7. ~ IsSeparator(X[1]) /\ Asks(X[1]) /\ 1 < Len(X) =>
        Sorted(X) = OptionFirst(SubSeq(X, 1, 2), Sorted(Past(X, 2))) /\ IsParse(Sorted(Past(X, 2)))
  <2> HAVE ~ IsSeparator(X[1]) /\ Asks(X[1]) /\ 1 < Len(X)
  <2>1. 2 \in 1 .. 2 /\ 2 <= Len(X) BY <1>1
  <2>2. from[1 + 2] = Sorted(Past(X, 2)) /\ IsParse(Sorted(Past(X, 2))) BY <1>4, <2>1
  <2> DEFINE r == Sorted(Past(X, 2))
             p == SubSeq(X, 1, 2)
  <2>3. Sorted(X) = [r EXCEPT !.opts = <<p>> \o @]
    <3>1. SubSeq(X, 1, 1 + 1) = SubSeq(X, 1, 2) OBVIOUS
    <3> QED BY <1>2, <1>3, <2>2, <3>1 DEF FromWord
  <2> HIDE DEF r, p
  <2>4. Sorted(X) = OptionFirst(p, r) BY <2>2, <2>3, OptionInFront DEF r
  <2> QED BY <2>2, <2>4 DEF r, p
<1>8. ~ IsSeparator(X[1]) /\ IsTaken(X[1]) => Sorted(X) = OptionFirst(<<X[1]>>, Sorted(Past(X, 1)))
  <2> HAVE ~ IsSeparator(X[1]) /\ IsTaken(X[1])
  <2> DEFINE r == Sorted(Past(X, 1))
  <2>1. Sorted(X) = [r EXCEPT !.opts = <<<<X[1]>>>> \o @]
    <3>1. ~ Asks(X[1]) BY DEF IsTaken
    <3> QED BY <1>2, <1>3, <1>5, <3>1 DEF FromWord
  <2> HIDE DEF r
  <2> QED BY <1>5, <2>1, OptionInFront DEF r
<1>9. ~ IsSeparator(X[1]) /\ ~ (Asks(X[1]) /\ 1 < Len(X)) /\ ~ IsTaken(X[1]) =>
        Sorted(X) = KeptFirst(X[1], Sorted(Past(X, 1)))
  <2> HAVE ~ IsSeparator(X[1]) /\ ~ (Asks(X[1]) /\ 1 < Len(X)) /\ ~ IsTaken(X[1])
  <2> DEFINE r == Sorted(Past(X, 1))
  <2>1. Sorted(X) = [r EXCEPT !.rest = <<X[1]>> \o @]
    BY <1>2, <1>3, <1>5 DEF FromWord
  <2> HIDE DEF r
  <2> QED BY <1>5, <2>1, WordInFront DEF r
<1> QED BY <1>5, <1>6, <1>7, <1>8, <1>9

LEMMA SortedOfNothing == Sorted(<<>>) = NothingParsed
<1>1. Len(<<>>) = 0 OBVIOUS
<1>2. 1 \in 1 .. 0 + 2 /\ 1 > 0 OBVIOUS
<1>3. Sorted(<<>>) = FromWord(<<>>, SortedWords(<<>>), 1) BY <1>1, <1>2, SortedIsStepwise
<1> QED BY <1>1, <1>3 DEF FromWord

-----------------------------------------------------------------------------
(* Options in front of anything *)

\* Whatever follows p, Click reads p as the options H.
ReadsAs(p, H) ==
  \A X \in Seq(Token) :
    ParseRoot(p \o X) = Parsed(H \o ParseRoot(X).opts, ParseRoot(X).rest, ParseRoot(X).ended)

LEMMA PartsOfAParse ==
  ASSUME NEW opts, NEW rest, NEW ended
  PROVE  /\ Parsed(opts, rest, ended).opts = opts
         /\ Parsed(opts, rest, ended).rest = rest
         /\ Parsed(opts, rest, ended).ended = ended
BY DEF Parsed

LEMMA OptionsAreAssociative ==
  \A s1, s2, s3 \in Seq(Seq(Token)) : (s1 \o s2) \o s3 = s1 \o (s2 \o s3)
<1> DEFINE T == Seq(Token)
<1> HIDE DEF T
<1>1. \A s1, s2, s3 \in Seq(T) : (s1 \o s2) \o s3 = s1 \o (s2 \o s3) BY ConcatAssociative
<1> QED BY <1>1 DEF T

LEMMA TokensAreAssociative ==
  \A s1, s2, s3 \in Seq(Token) : (s1 \o s2) \o s3 = s1 \o (s2 \o s3)
BY ConcatAssociative

LEMMA OptionReads ==
  ASSUME NEW q \in Seq(Token), q # <<>>, Len(q) = Width(q, 1), ~ IsWord(q[1]), ~ IsSeparator(q[1]),
         NEW X \in Seq(Token)
  PROVE  ParseRoot(q \o X) = OptionFirst(q, ParseRoot(X))
<1> DEFINE line == q \o X
           w == Width(q, 1)
<1>1. /\ line \in Seq(Token) /\ Len(line) = Len(q) + Len(X)
      /\ Past(line, Len(q)) = X /\ SubSeq(line, 1, Len(q)) = q
  BY RestOfConcat
<1>2. Len(q) \in Nat /\ Len(q) >= 1 /\ Len(X) \in Nat
  <2>1. Len(q) \in Nat \ {0} BY EmptySeq
  <2> QED BY <2>1
<1>3. line[1] = q[1]
  <2>1. 1 \in 1 .. Len(q) + Len(X) /\ 1 <= Len(q) BY <1>2
  <2> QED BY <2>1, ConcatProperties
<1>4. line # <<>>
  <2>1. Len(<<>>) = 0 OBVIOUS
  <2> HIDE DEF line
  <2> QED BY <1>1, <1>2, <2>1
<1> HIDE DEF line
<1>5. Width(line, 1) = Len(q) /\ Width(line, 1) <= Len(line)
  <2>1. Width(line, 1) = Width(q, 1) BY <1>3 DEF Width
  <2> QED BY <1>1, <1>2, <2>1
<1>6. ParseRoot(line) = OptionFirst(SubSeq(line, 1, Width(line, 1)), ParseRoot(Past(line, Width(line, 1))))
  BY <1>1, <1>3, <1>4, <1>5, ParseOfOption
<1> QED BY <1>1, <1>5, <1>6 DEF line

LEMMA NothingReads == ReadsAs(<<>>, <<>>)
<1> SUFFICES ASSUME NEW X \in Seq(Token)
             PROVE  ParseRoot(<<>> \o X) =
                      Parsed(<<>> \o ParseRoot(X).opts, ParseRoot(X).rest, ParseRoot(X).ended)
  BY DEF ReadsAs
<1> DEFINE r == ParseRoot(X)
<1>1. <<>> \o X = X BY ConcatEmptySeq
<1>2. r = Parsed(r.opts, r.rest, r.ended) /\ r.opts \in Seq(Seq(Token)) BY ParsesAreTyped DEF IsParse
<1> HIDE DEF r
<1>3. <<>> \o r.opts = r.opts BY <1>2, ConcatEmptySeq
<1> QED BY <1>1, <1>2, <1>3 DEF r

LEMMA ReadsWithOptionInFront ==
  ASSUME NEW p \in Seq(Token), NEW H \in Seq(Seq(Token)), ReadsAs(p, H), NEW q \in Seq(Token),
         \A X \in Seq(Token) : ParseRoot(q \o X) = OptionFirst(q, ParseRoot(X))
  PROVE  ReadsAs(q \o p, <<q>> \o H) /\ <<q>> \o H \in Seq(Seq(Token))
<1>1. <<q>> \in Seq(Seq(Token)) OBVIOUS
<1>2. <<q>> \o H \in Seq(Seq(Token)) BY <1>1, ConcatProperties
<1>3. ASSUME NEW X \in Seq(Token)
      PROVE  ParseRoot((q \o p) \o X) =
               Parsed((<<q>> \o H) \o ParseRoot(X).opts, ParseRoot(X).rest, ParseRoot(X).ended)
  <2> DEFINE r == ParseRoot(X)
             s == p \o X
  <2>1. r.opts \in Seq(Seq(Token)) BY ParsesAreTyped DEF IsParse
  <2>2. (q \o p) \o X = q \o s BY TokensAreAssociative
  <2>3. s \in Seq(Token) BY ConcatProperties
  <2>4. ParseRoot(s) = Parsed(H \o r.opts, r.rest, r.ended) BY DEF ReadsAs
  <2>5. (<<q>> \o H) \o r.opts = <<q>> \o (H \o r.opts)
    <3> DEFINE a == <<q>>
               t == r.opts
    <3>1. a \in Seq(Seq(Token)) /\ t \in Seq(Seq(Token)) BY <1>1, <2>1
    <3> HIDE DEF a, t
    <3>2. \A s1, s2, s3 \in Seq(Seq(Token)) : (s1 \o s2) \o s3 = s1 \o (s2 \o s3) BY OptionsAreAssociative
    <3>3. (a \o H) \o t = a \o (H \o t) BY <3>1, <3>2
    <3> QED BY <3>3 DEF a, t
  <2> HIDE DEF r, s
  <2>6. ParseRoot(q \o s) = OptionFirst(q, ParseRoot(s)) BY <2>3
  <2>7. ParseRoot(q \o s) = Parsed(<<q>> \o (H \o r.opts), r.rest, r.ended)
    BY <2>4, <2>6, PartsOfAParse DEF OptionFirst
  <2> QED BY <2>2, <2>5, <2>7 DEF r
<1> QED BY <1>2, <1>3 DEF ReadsAs

LEMMA ReadsWithOptionBehind ==
  ASSUME NEW p \in Seq(Token), NEW H \in Seq(Seq(Token)), ReadsAs(p, H), NEW q \in Seq(Token),
         \A X \in Seq(Token) : ParseRoot(q \o X) = OptionFirst(q, ParseRoot(X))
  PROVE  ReadsAs(p \o q, H \o <<q>>) /\ H \o <<q>> \in Seq(Seq(Token))
<1>1. <<q>> \in Seq(Seq(Token)) OBVIOUS
<1>2. H \o <<q>> \in Seq(Seq(Token)) BY <1>1, ConcatProperties
<1>3. ASSUME NEW X \in Seq(Token)
      PROVE  ParseRoot((p \o q) \o X) =
               Parsed((H \o <<q>>) \o ParseRoot(X).opts, ParseRoot(X).rest, ParseRoot(X).ended)
  <2> DEFINE r == ParseRoot(X)
             s == q \o X
  <2>1. r.opts \in Seq(Seq(Token)) BY ParsesAreTyped DEF IsParse
  <2>2. (p \o q) \o X = p \o s BY TokensAreAssociative
  <2>3. s \in Seq(Token) BY ConcatProperties
  <2>4. ParseRoot(s) = OptionFirst(q, r) OBVIOUS
  <2>5. (H \o <<q>>) \o r.opts = H \o (<<q>> \o r.opts)
    <3> DEFINE a == <<q>>
               t == r.opts
    <3>1. a \in Seq(Seq(Token)) /\ t \in Seq(Seq(Token)) BY <1>1, <2>1
    <3> HIDE DEF a, t
    <3>2. \A s1, s2, s3 \in Seq(Seq(Token)) : (s1 \o s2) \o s3 = s1 \o (s2 \o s3) BY OptionsAreAssociative
    <3>3. (H \o a) \o t = H \o (a \o t) BY <3>1, <3>2
    <3> QED BY <3>3 DEF a, t
  <2> HIDE DEF r, s
  <2>6. ParseRoot(p \o s) = Parsed(H \o ParseRoot(s).opts, ParseRoot(s).rest, ParseRoot(s).ended)
    BY <2>3 DEF ReadsAs
  <2>7. ParseRoot(p \o s) = Parsed(H \o (<<q>> \o r.opts), r.rest, r.ended)
    BY <2>4, <2>6, PartsOfAParse DEF OptionFirst
  <2> QED BY <2>2, <2>5, <2>7 DEF r
<1> QED BY <1>2, <1>3 DEF ReadsAs

\* No word and no "--" stands before the first word.
LEMMA FirstWordIsFirst ==
  ASSUME NEW line \in Seq(Token), FirstWord(line) # 0
  PROVE  /\ FirstWord(line) \in 1 .. Len(line)
         /\ IsWord(line[FirstWord(line)])
         /\ \A i \in 1 .. FirstWord(line) - 1 : ~ IsWord(line[i]) /\ ~ IsSeparator(line[i])
<1> DEFINE I == {i \in 1 .. Len(line) : IsWord(line[i]) \/ IsSeparator(line[i])}
           first == IF I # {} THEN Min(I) ELSE 0
<1>1. FirstWord(line) = IF first # 0 /\ IsSeparator(line[first]) THEN 0 ELSE first
  BY DEF FirstWord, SelectInSeq
<1>2. I # {} => Min(I) \in I /\ \A k \in I : Min(I) <= k
  <2> HAVE I # {}
  <2>1. I \in SUBSET Nat OBVIOUS
  <2> HIDE DEF I
  <2>2. \E m \in I : \A k \in I : m <= k BY <2>1, LeastNat
  <2> QED BY <2>2 DEF Min
<1>3. Len(line) \in Nat OBVIOUS
<1>4. I # {} /\ FirstWord(line) = Min(I) /\ ~ IsSeparator(line[Min(I)]) BY <1>1
<1> DEFINE f == Min(I)
<1>5. f \in 1 .. Len(line) /\ (IsWord(line[f]) \/ IsSeparator(line[f])) BY <1>2, <1>4
<1>6. \A k \in I : f <= k BY <1>2, <1>4
<1> HIDE DEF f
<1>7. ASSUME NEW i \in 1 .. f - 1
      PROVE  ~ IsWord(line[i]) /\ ~ IsSeparator(line[i])
  <2>1. i \in 1 .. Len(line) /\ ~ f <= i BY <1>3, <1>5
  <2> QED BY <1>6, <2>1
<1> QED BY <1>4, <1>5, <1>7 DEF f

\* The start of a line up to a word: either all of it are options with their
\* values, or the last token takes the word as its value.
LEMMA FrontOfLine ==
  ASSUME NEW line \in Seq(Token), NEW f \in 1 .. Len(line),
         \A i \in 1 .. f - 1 : ~ IsWord(line[i]) /\ ~ IsSeparator(line[i])
  PROVE  \/ \E H \in Seq(Seq(Token)) : ReadsAs(SubSeq(line, 1, f - 1), H)
         \/ /\ f > 1 /\ Asks(line[f - 1])
            /\ \E H \in Seq(Seq(Token)) : ReadsAs(SubSeq(line, 1, f - 2), H)
<1> DEFINE n == Len(line)
           Read(i, e) == \E H \in Seq(Seq(Token)) : ReadsAs(SubSeq(line, i, e), H)
           m == f - 1
           S == {i \in 1 .. m + 2 : i = m + 2 \/ Read(i, m) \/ (i <= m /\ Asks(line[m]) /\ Read(i, m - 1))}
<1>1. n \in Nat /\ f \in Nat /\ f >= 1 /\ f <= n /\ m \in Nat /\ m + 1 = f /\ f - 2 = m - 1
      /\ \A i \in 1 .. n : line[i] \in Token
  BY ElementOfSeq
<1> HIDE DEF n
<1>2. \A i \in 1 .. m : ~ IsWord(line[i]) /\ ~ IsSeparator(line[i]) OBVIOUS
<1> HIDE DEF m
<1>3. \A i, e \in Int : e < i => Read(i, e)
  <2> TAKE i, e \in Int
  <2> HAVE e < i
  <2>1. SubSeq(line, i, e) = <<>> BY SubSeqEmpty
  <2>2. <<>> \in Seq(Seq(Token)) OBVIOUS
  <2> QED BY <2>1, <2>2, NothingReads
<1>4. \A i \in 1 .. n, e \in 1 .. n : SubSeq(line, i, e) \in Seq(Token)
  <2> TAKE i \in 1 .. n, e \in 1 .. n
  <2>1. i \in Int /\ e \in Int /\ \A k \in i .. e : line[k] \in Token BY <1>1
  <2> QED BY <2>1, SubSeqProperties
<1>5. ASSUME NEW i \in 1 .. m, NEW w \in {1, 2}, w = Width(line, i), NEW e \in Nat,
             i + w - 1 <= e, e <= n, Read(i + w, e)
      PROVE  Read(i, e)
  <2> DEFINE q == SubSeq(line, i, i + w - 1)
             p == SubSeq(line, i + w, e)
  <2>1. i \in Nat /\ i \in 1 .. n /\ i + w - 1 \in 1 .. n /\ e \in 1 .. n /\ i + w - 1 \in i - 1 .. n
        /\ e \in i + w - 1 .. n /\ (i + w - 1) + 1 = i + w /\ i \in 1 .. n + 1 /\ i <= i + w - 1
    BY <1>1, <1>5
  <2>2. q \in Seq(Token) BY <1>4, <2>1
  <2>3. p \in Seq(Token)
    <3>1. i + w \in Int /\ \A k \in i + w .. e : line[k] \in Token BY <1>1, <2>1
    <3> QED BY <3>1, SubSeqProperties
  <2>4. /\ Len(q) = w /\ q[1] = line[i]
    <3>1. \A k \in i .. i + w - 1 : line[k] \in Token BY <1>1, <2>1
    <3>2. i \in Int /\ i + w - 1 \in Int BY <2>1
    <3>3. /\ Len(q) = IF i <= i + w - 1 THEN (i + w - 1) - i + 1 ELSE 0
          /\ \A k \in 1 .. (i + w - 1) - i + 1 : q[k] = line[i + k - 1]
      BY <3>1, <3>2, SubSeqProperties
    <3>4. (i + w - 1) - i + 1 = w /\ 1 \in 1 .. (i + w - 1) - i + 1 /\ i + 1 - 1 = i BY <2>1
    <3> HIDE DEF q
    <3> QED BY <2>1, <3>3, <3>4
  <2>5. SubSeq(line, i, e) = q \o p
    <3>1. SubSeq(line, i, i + w - 1) \o SubSeq(line, (i + w - 1) + 1, e) = SubSeq(line, i, e)
      BY <2>1, ConcatAdjacentSubSeq DEF n
    <3> QED BY <2>1, <3>1
  <2>6. q # <<>>
    <3>1. Len(<<>>) = 0 OBVIOUS
    <3> HIDE DEF q
    <3> QED BY <2>4, <3>1
  <2>7. PICK H \in Seq(Seq(Token)) : ReadsAs(p, H) BY <1>5
  <2> HIDE DEF q, p
  <2>8. Width(q, 1) = w BY <1>5, <2>4 DEF Width
  <2>9. \A X \in Seq(Token) : ParseRoot(q \o X) = OptionFirst(q, ParseRoot(X))
    BY <1>2, <2>2, <2>4, <2>6, <2>8, OptionReads
  <2>10. ReadsAs(q \o p, <<q>> \o H) /\ <<q>> \o H \in Seq(Seq(Token))
    BY <2>2, <2>3, <2>7, <2>9, ReadsWithOptionInFront
  <2> QED BY <2>5, <2>10
<1>6. m + 1 \in S /\ m + 2 \in S
  <2>1. Read(m + 1, m)
    <3>1. m + 1 \in Int /\ m \in Int /\ m < m + 1 BY <1>1
    <3> HIDE DEF Read
    <3> QED BY <1>3, <3>1
  <2>2. m + 1 \in 1 .. m + 2 /\ m + 2 \in 1 .. m + 2 BY <1>1
  <2> HIDE DEF Read
  <2> QED BY <2>1, <2>2
<1> HIDE DEF Read
<1>7. ASSUME NEW i \in 1 .. m, i + 1 \in S, i + 2 \in S
      PROVE  i \in S
  <2> DEFINE w == Width(line, i)
  <2>1. w \in {1, 2} BY DEF Width
  <2>2. i \in Nat /\ i <= m /\ i \in 1 .. m + 2 /\ i + w \in S
    <3>1. w = 1 \/ w = 2 BY <2>1
    <3>2. i + w \in S BY <1>7, <3>1
    <3> HIDE DEF w, S
    <3> QED BY <1>1, <3>2
  <2>3. w = 2 <=> Asks(line[i]) BY DEF Width
  <2> HIDE DEF w
  <2>4. CASE i + w = m + 2
    <3>1. w = 2 /\ i = m BY <1>1, <2>1, <2>2, <2>4
    <3>2. Read(i, m - 1)
      <4>1. i \in Int /\ m - 1 \in Int /\ m - 1 < i BY <1>1, <3>1
      <4> QED BY <1>3, <4>1
    <3> QED BY <2>2, <2>3, <3>1, <3>2
  <2>5. CASE i + w # m + 2 /\ Read(i + w, m)
    <3>1. i + w <= m + 2 /\ i + w - 1 <= m /\ m <= n BY <1>1, <2>1, <2>2, <2>5
    <3>2. Read(i, m) BY <1>1, <1>5, <2>1, <2>5, <3>1 DEF w
    <3> QED BY <2>2, <3>2
  <2>6. CASE i + w # m + 2 /\ i + w <= m /\ Asks(line[m]) /\ Read(i + w, m - 1)
    <3>1. m - 1 \in Nat /\ i + w - 1 <= m - 1 /\ m - 1 <= n BY <1>1, <2>1, <2>2, <2>6
    <3>2. Read(i, m - 1) BY <1>5, <2>1, <2>6, <3>1 DEF w
    <3> QED BY <2>2, <2>6, <3>2
  <2> QED BY <2>2, <2>4, <2>5, <2>6
<1>8. 1 .. m + 2 \subseteq S
  <2> HIDE DEF S
  <2> QED BY <1>1, <1>6, <1>7, Backwards
<1>9. 1 \in S /\ 1 # m + 2
  <2>1. 1 \in 1 .. m + 2 /\ 1 # m + 2 BY <1>1
  <2> QED BY <1>8, <2>1
<1>10. Read(1, m) \/ (1 <= m /\ Asks(line[m]) /\ Read(1, m - 1)) BY <1>9
<1> QED BY <1>1, <1>10 DEF Read, m

-----------------------------------------------------------------------------
(* What moves *)

\* What holds of a sequence if it holds of its rests holds of all.
LEMMA ByTheRest ==
  ASSUME NEW S, <<>> \in S,
         \A Y \in Seq(Token) :
           Y # <<>> /\ Past(Y, 1) \in S /\ (Len(Y) >= 2 => Past(Y, 2) \in S) => Y \in S
  PROVE  Seq(Token) \subseteq S
<1> SUFFICES ASSUME NEW X \in Seq(Token)
             PROVE  X \in S
  OBVIOUS
<1> DEFINE n == Len(X)
           T == {i \in 1 .. n + 2 : i = n + 2 \/ Past(X, i - 1) \in S}
<1>1. n \in Nat OBVIOUS
<1>2. \A w \in 0 .. n : /\ Past(X, w) \in Seq(Token) /\ Len(Past(X, w)) = n - w
                        /\ \A v \in 0 .. n - w : Past(Past(X, w), v) = Past(X, w + v)
  BY RestOfALine
<1>3. Past(X, 0) = X /\ Past(X, n) = <<>> BY RestOfConcat
<1> HIDE DEF n
<1>4. n + 1 \in T /\ n + 2 \in T
  <2>1. n + 1 \in 1 .. n + 2 /\ n + 2 \in 1 .. n + 2 /\ (n + 1) - 1 = n BY <1>1
  <2> QED BY <1>3, <2>1
<1>5. ASSUME NEW i \in 1 .. n, i + 1 \in T, i + 2 \in T
      PROVE  i \in T
  <2> DEFINE Y == Past(X, i - 1)
  <2>1. /\ i - 1 \in 0 .. n /\ n - (i - 1) >= 1 /\ i \in 1 .. n + 2 /\ i + 1 # n + 2
        /\ (i + 1) - 1 = i /\ (i - 1) + 1 = i /\ 1 \in 0 .. n - (i - 1)
    BY <1>1
  <2>2. Y \in Seq(Token) /\ Len(Y) = n - (i - 1) BY <1>2, <2>1
  <2>3. Y # <<>>
    <3>1. Len(<<>>) = 0 OBVIOUS
    <3> HIDE DEF Y
    <3> QED BY <2>1, <2>2, <3>1
  <2>4. Past(Y, 1) \in S
    <3>1. Past(Y, 1) = Past(X, i) BY <1>2, <2>1
    <3>2. Past(X, (i + 1) - 1) \in S BY <1>5, <2>1
    <3> QED BY <2>1, <3>1, <3>2
  <2>5. Len(Y) >= 2 => Past(Y, 2) \in S
    <3> HAVE Len(Y) >= 2
    <3>1. n - (i - 1) >= 2 BY <2>2
    <3>2. 2 \in 0 .. n - (i - 1) /\ i + 2 # n + 2 /\ (i + 2) - 1 = i + 1 /\ (i - 1) + 2 = i + 1
      BY <1>1, <3>1
    <3>3. Past(Y, 2) = Past(X, i + 1) BY <1>2, <2>1, <3>2
    <3>4. Past(X, (i + 2) - 1) \in S BY <1>5, <3>2
    <3> QED BY <3>2, <3>3, <3>4
  <2> HIDE DEF Y
  <2>6. Y \in S BY <2>2, <2>3, <2>4, <2>5
  <2> QED BY <2>1, <2>6 DEF Y
<1>6. 1 .. n + 2 \subseteq T
  <2> HIDE DEF T
  <2> QED BY <1>1, <1>4, <1>5, Backwards
<1>7. 1 \in T /\ 1 # n + 2 /\ 1 - 1 = 0
  <2>1. 1 \in 1 .. n + 2 /\ 1 # n + 2 /\ 1 - 1 = 0 BY <1>1
  <2> QED BY <1>6, <2>1
<1> QED BY <1>3, <1>7

\* A sequence that is not empty is its first token and the rest.
LEMMA FirstAndRest ==
  ASSUME NEW Y \in Seq(Token), Y # <<>>
  PROVE  /\ Len(Y) \in Nat /\ Len(Y) >= 1 /\ Y[1] \in Token /\ Head(Y) = Y[1]
         /\ Past(Y, 1) \in Seq(Token) /\ Len(Past(Y, 1)) = Len(Y) - 1
         /\ \A i \in 1 .. Len(Y) - 1 : Past(Y, 1)[i] = Y[i + 1]
         /\ Tail(Y) = Past(Y, 1) /\ <<Y[1]>> \o Past(Y, 1) = Y
         /\ SubSeq(Y, 1, 1) = <<Y[1]>>
<1>1. Len(Y) \in Nat /\ Len(Y) >= 1
  <2>1. Len(Y) \in Nat \ {0} BY EmptySeq
  <2> QED BY <2>1
<1>2. 1 \in 0 .. Len(Y) /\ 1 \in 1 .. Len(Y) /\ Len(Y) \in 1 .. Len(Y) BY <1>1
<1>3. Y[1] \in Token BY <1>2, ElementOfSeq
<1>4. /\ Past(Y, 1) \in Seq(Token) /\ Len(Past(Y, 1)) = Len(Y) - 1
      /\ \A i \in 1 .. Len(Y) - 1 : Past(Y, 1)[i] = Y[1 + i]
  BY <1>2, RestOfALine
<1>5. Tail(Y) = Past(Y, 1)
  <2>1. 1 + 1 = 2 OBVIOUS
  <2> QED BY <2>1, TailIsSubSeq DEF Past
<1>6. <<Y[1]>> \o Past(Y, 1) = Y
  <2>1. SubSeq(Y, 1, Len(Y)) = <<Y[1]>> \o SubSeq(Y, 1 + 1, Len(Y)) BY <1>2, SubSeqRecursiveFirst
  <2> QED BY <2>1, SubSeqFull DEF Past
<1>7. SubSeq(Y, 1, 1) = <<Y[1]>>
  <2>1. SubSeq(Y, 1, 1) = <<Y[1]>> \o SubSeq(Y, 1 + 1, 1) BY <1>2, SubSeqRecursiveFirst
  <2>2. SubSeq(Y, 1 + 1, 1) = <<>> BY SubSeqEmpty
  <2>3. <<Y[1]>> \in Seq(Token) BY <1>3
  <2> QED BY <2>1, <2>2, <2>3, ConcatEmptySeq
<1>8. \A i \in 1 .. Len(Y) - 1 : Past(Y, 1)[i] = Y[i + 1]
  <2>1. \A i \in 1 .. Len(Y) - 1 : i + 1 = 1 + i BY <1>1
  <2> QED BY <1>4, <2>1
<1>9. Head(Y) = Y[1] OBVIOUS
<1> QED BY <1>1, <1>3, <1>4, <1>5, <1>6, <1>7, <1>8, <1>9

\* Something moves if the first token does or something behind it, before "--".
LEMMA MovesFirstOrLater ==
  ASSUME NEW Y \in Seq(Token), Y # <<>>
  PROVE  MovesSomething(Y) <=>
           /\ ~ IsSeparator(Y[1])
           /\ IsMovable(Y[1], 1 = Len(Y)) \/ MovesSomething(Past(Y, 1))
<1> DEFINE n == Len(Y)
           Z == Past(Y, 1)
<1>1. n \in Nat /\ n >= 1 /\ Len(Z) = n - 1 /\ DOMAIN Y = 1 .. n /\ DOMAIN Z = 1 .. n - 1
      /\ \A i \in 1 .. n - 1 : Z[i] = Y[i + 1]
  <2>1. DOMAIN Z = 1 .. Len(Z) /\ DOMAIN Y = 1 .. n BY FirstAndRest, LenProperties
  <2> QED BY <2>1, FirstAndRest
<1> HIDE DEF n, Z
<1>2. MovesSomething(Y) <=> \E i \in 1 .. n : IsMovable(Y[i], i = n) /\ \A j \in 1 .. i : ~ IsSeparator(Y[j])
  BY <1>1 DEF MovesSomething, n
<1>3. MovesSomething(Z) <=>
        \E i \in 1 .. n - 1 : IsMovable(Z[i], i = n - 1) /\ \A j \in 1 .. i : ~ IsSeparator(Z[j])
  BY <1>1 DEF MovesSomething
<1>4. ASSUME MovesSomething(Y)
      PROVE  ~ IsSeparator(Y[1]) /\ (IsMovable(Y[1], 1 = n) \/ MovesSomething(Z))
  <2>1. PICK i \in 1 .. n : IsMovable(Y[i], i = n) /\ \A j \in 1 .. i : ~ IsSeparator(Y[j]) BY <1>2, <1>4
  <2>2. 1 \in 1 .. i BY <1>1
  <2>3. CASE i = 1 BY <2>1, <2>2, <2>3
  <2>4. CASE i # 1
    <3>1. i - 1 \in 1 .. n - 1 /\ (i - 1) + 1 = i /\ (i - 1 = n - 1 <=> i = n) BY <1>1, <2>4
    <3>2. Z[i - 1] = Y[i] BY <1>1, <3>1
    <3>3. ASSUME NEW j \in 1 .. i - 1
          PROVE  ~ IsSeparator(Z[j])
      <4>1. j \in 1 .. n - 1 /\ j + 1 \in 1 .. i BY <1>1, <3>1
      <4> QED BY <1>1, <2>1, <4>1
    <3> QED BY <1>3, <2>1, <2>2, <3>1, <3>2, <3>3
  <2> QED BY <2>3, <2>4
<1>5. ASSUME ~ IsSeparator(Y[1]), IsMovable(Y[1], 1 = n)
      PROVE  MovesSomething(Y)
  <2>1. 1 \in 1 .. n /\ \A j \in 1 .. 1 : j = 1 BY <1>1
  <2> QED BY <1>2, <1>5, <2>1
<1>6. ASSUME ~ IsSeparator(Y[1]), MovesSomething(Z)
      PROVE  MovesSomething(Y)
  <2>1. PICK i \in 1 .. n - 1 : IsMovable(Z[i], i = n - 1) /\ \A j \in 1 .. i : ~ IsSeparator(Z[j])
    BY <1>3, <1>6
  <2>2. i + 1 \in 1 .. n /\ (i + 1 = n <=> i = n - 1) BY <1>1
  <2>3. ASSUME NEW j \in 1 .. i + 1
        PROVE  ~ IsSeparator(Y[j])
    <3>1. j = 1 \/ (j - 1 \in 1 .. i /\ j - 1 \in 1 .. n - 1 /\ (j - 1) + 1 = j) BY <1>1
    <3> QED BY <1>1, <1>6, <2>1, <3>1
  <2>4. Z[i] = Y[i + 1] BY <1>1
  <2> QED BY <1>2, <2>1, <2>2, <2>3, <2>4
<1> QED BY <1>4, <1>5, <1>6 DEF n, Z

LEMMA NothingMovesNothing == ~ MovesSomething(<<>>)
BY DEF MovesSomething

\* Global options are neither words nor "--", and only those with a value ask.
LEMMA OptionsAreNoWords ==
  ASSUME NEW t
  PROVE  /\ t.name \in Valued \union Flags \union Clusters => ~ IsWord(t) /\ ~ IsSeparator(t)
         /\ IsWord(t) => ~ IsSeparator(t)
         /\ t.name \in Flags \union Clusters => ~ Asks(t) /\ t.name \notin Valued
<1>1. "--" \notin Valued \union Flags \union Clusters BY DEF Valued, Flags, Clusters
<1>2. \A x \in Words : x \notin Valued \union Flags \union Clusters /\ x # "--"
  BY WordsHaveNoDash
<1>3. \A x \in Flags \union Clusters : x \notin Valued BY DEF Valued, Flags, Clusters
<1> QED BY <1>1, <1>2, <1>3 DEF IsWord, IsSeparator, Asks

\* No empty --option= in a line, none in its rest.
LEMMA EmptyValueOfRest ==
  ASSUME NEW Y \in Seq(Token), NEW w \in 0 .. Len(Y), ~ HasEmptyValue(Y)
  PROVE  ~ HasEmptyValue(Past(Y, w))
<1>1. /\ Past(Y, w) \in Seq(Token) /\ Len(Past(Y, w)) = Len(Y) - w
      /\ \A i \in 1 .. Len(Y) - w : Past(Y, w)[i] = Y[w + i]
  BY RestOfALine
<1>2. Len(Y) \in Nat /\ \A i \in 1 .. Len(Y) - w : w + i \in 1 .. Len(Y) OBVIOUS
<1>3. DOMAIN Y = 1 .. Len(Y) BY LenProperties
<1>4. DOMAIN Past(Y, w) = 1 .. Len(Y) - w BY <1>1, LenProperties
<1> QED BY <1>1, <1>2, <1>3, <1>4 DEF HasEmptyValue

LEMMA EmptyValueOfFirst ==
  ASSUME NEW Y \in Seq(Token), Y # <<>>, ~ HasEmptyValue(Y), Y[1].name \in Valued
  PROVE  Y[1].inline # ""
<1>1. 1 \in DOMAIN Y
  <2>1. 1 \in 1 .. Len(Y) BY FirstAndRest
  <2> QED BY <2>1, LenProperties
<1> QED BY <1>1 DEF HasEmptyValue, EmptyInline

\* If nothing moves, the words after the command are the command's own.
LEMMA NothingToSort ==
  ASSUME NEW X \in Seq(Token), ~ MovesSomething(X), ~ HasEmptyValue(X)
  PROVE  Sorted(X) = Parsed(<<>>, X, FALSE)
<1> DEFINE S == {Y \in Seq(Token) : ~ MovesSomething(Y) /\ ~ HasEmptyValue(Y) =>
                                      Sorted(Y) = Parsed(<<>>, Y, FALSE)}
<1>1. <<>> \in S
  <2>1. <<>> \in Seq(Token) OBVIOUS
  <2> QED BY <2>1, SortedOfNothing DEF NothingParsed
<1>2. ASSUME NEW Y \in Seq(Token), Y # <<>>, Past(Y, 1) \in S
      PROVE  Y \in S
  <2> SUFFICES ASSUME ~ MovesSomething(Y), ~ HasEmptyValue(Y)
               PROVE  Sorted(Y) = Parsed(<<>>, Y, FALSE)
    OBVIOUS
  <2>1. CASE IsSeparator(Y[1]) BY <1>2, <2>1, SortedOf
  <2>2. CASE ~ IsSeparator(Y[1])
    <3>1. ~ IsMovable(Y[1], 1 = Len(Y)) /\ ~ MovesSomething(Past(Y, 1))
      BY <1>2, <2>2, MovesFirstOrLater
    <3>2. Len(Y) \in Nat /\ Len(Y) >= 1 /\ 1 \in 0 .. Len(Y)
      <4>1. Len(Y) \in Nat /\ Len(Y) >= 1 BY <1>2, FirstAndRest
      <4> QED BY <4>1
    <3>3. ~ HasEmptyValue(Past(Y, 1)) BY <3>2, EmptyValueOfRest
    <3>4. Sorted(Past(Y, 1)) = Parsed(<<>>, Past(Y, 1), FALSE) BY <1>2, <3>1, <3>3
    <3>5. ~ IsTaken(Y[1]) /\ ~ (Asks(Y[1]) /\ 1 < Len(Y))
      <4>1. Y[1].name \notin Flags \union Clusters BY <3>1 DEF IsMovable
      <4>2. Y[1].name \in Valued => Y[1].inline = "none" /\ 1 = Len(Y)
        <5> HAVE Y[1].name \in Valued
        <5>1. Y[1].inline # "" BY <1>2, EmptyValueOfFirst
        <5> QED BY <3>1, <5>1 DEF IsMovable
      <4>3. Y[1].name \in Valued => Asks(Y[1]) /\ ~ 1 < Len(Y)
        BY <3>2, <4>2 DEF Asks, NoInline
      <4> QED BY <4>1, <4>3 DEF IsTaken, Asks
    <3>6. Sorted(Y) = KeptFirst(Y[1], Sorted(Past(Y, 1))) BY <1>2, <2>2, <3>5, SortedOf
    <3>7. <<Y[1]>> \o Past(Y, 1) = Y BY <1>2, FirstAndRest
    <3>8. KeptFirst(Y[1], Parsed(<<>>, Past(Y, 1), FALSE)) = Parsed(<<>>, <<Y[1]>> \o Past(Y, 1), FALSE)
      BY DEF KeptFirst, Parsed
    <3> QED BY <3>4, <3>6, <3>7, <3>8
  <2> QED BY <2>1, <2>2
<1>3. Seq(Token) \subseteq S
  <2> HIDE DEF S
  <2> QED BY <1>1, <1>2, ByTheRest
<1> QED BY <1>3

\* An option in front makes the options of a parse not empty.
LEMMA SomeOptions ==
  ASSUME NEW p \in Seq(Token), NEW r, IsParse(r)
  PROVE  OptionFirst(p, r).opts # <<>>
<1>1. OptionFirst(p, r).opts = <<p>> \o r.opts BY DEF OptionFirst, Parsed
<1>2. <<p>> \in Seq(Seq(Token)) /\ r.opts \in Seq(Seq(Token)) /\ Len(<<p>>) = 1 BY DEF IsParse
<1>3. Len(<<p>> \o r.opts) = Len(<<p>>) + Len(r.opts) /\ Len(r.opts) \in Nat
  BY <1>2, ConcatProperties
<1>4. Len(<<>>) = 0 OBVIOUS
<1> QED BY <1>1, <1>2, <1>3, <1>4

\* If something moves, there are options among the words after the command.
LEMMA SomethingToSort ==
  ASSUME NEW X \in Seq(Token), MovesSomething(X)
  PROVE  Sorted(X).opts # <<>>
<1> DEFINE S == {Y \in Seq(Token) : MovesSomething(Y) => Sorted(Y).opts # <<>>}
<1>1. <<>> \in S
  <2>1. <<>> \in Seq(Token) OBVIOUS
  <2> QED BY <2>1, NothingMovesNothing
<1>2. ASSUME NEW Y \in Seq(Token), Y # <<>>, Past(Y, 1) \in S
      PROVE  Y \in S
  <2> SUFFICES ASSUME MovesSomething(Y)
               PROVE  Sorted(Y).opts # <<>>
    OBVIOUS
  <2>1. ~ IsSeparator(Y[1]) /\ (IsMovable(Y[1], 1 = Len(Y)) \/ MovesSomething(Past(Y, 1)))
    BY <1>2, MovesFirstOrLater
  <2>2. Len(Y) \in Nat /\ Len(Y) >= 1 /\ Y[1] \in Token BY <1>2, FirstAndRest
  <2>3. CASE Asks(Y[1]) /\ 1 < Len(Y)
    <3>1. SubSeq(Y, 1, 2) \in Seq(Token)
      <4>1. \A k \in 1 .. 2 : k \in 1 .. Len(Y) BY <2>2, <2>3
      <4>2. \A k \in 1 .. 2 : Y[k] \in Token BY <4>1, ElementOfSeq
      <4> QED BY <4>2, SubSeqProperties
    <3>2. Sorted(Y) = OptionFirst(SubSeq(Y, 1, 2), Sorted(Past(Y, 2))) /\ IsParse(Sorted(Past(Y, 2)))
      BY <1>2, <2>1, <2>3, SortedOf
    <3> QED BY <3>1, <3>2, SomeOptions
  <2>4. CASE IsTaken(Y[1])
    <3>1. <<Y[1]>> \in Seq(Token) BY <2>2
    <3>2. Sorted(Y) = OptionFirst(<<Y[1]>>, Sorted(Past(Y, 1))) /\ IsParse(Sorted(Past(Y, 1)))
      BY <1>2, <2>1, <2>4, SortedOf
    <3> QED BY <3>1, <3>2, SomeOptions
  <2>5. CASE ~ (Asks(Y[1]) /\ 1 < Len(Y)) /\ ~ IsTaken(Y[1])
    <3>1. ~ IsMovable(Y[1], 1 = Len(Y))
      <4>1. Y[1].name \notin Flags \union Clusters BY <2>5, OptionsAreNoWords DEF IsTaken
      <4>2. Y[1].name \in Valued => Asks(Y[1]) /\ ~ 1 < Len(Y) BY <2>5 DEF IsTaken
      <4>3. Y[1].name \in Valued => Y[1].inline = "none" /\ 1 = Len(Y)
        <5> HAVE Y[1].name \in Valued
        <5>1. Asks(Y[1]) BY <4>2
        <5>2. Y[1].inline = "none" BY <5>1 DEF Asks, NoInline
        <5>5. ~ (1 < Len(Y)) BY <4>2
        <5>3. Len(Y) \in Nat /\ Len(Y) >= 1 BY <2>2
        <5>4. 1 = Len(Y)
          <6> DEFINE n == Len(Y)
          <6>1. n \in Nat /\ n >= 1 /\ ~ (1 < n) BY <5>3, <5>5
          <6> HIDE DEF n, S
          <6>2. 1 = n BY <6>1
          <6> QED BY <6>2 DEF n
        <5> QED BY <5>2, <5>4
      <4> QED BY <4>1, <4>3 DEF IsMovable
    <3>2. Sorted(Past(Y, 1)).opts # <<>> BY <1>2, <2>1, <3>1
    <3>3. Sorted(Y) = KeptFirst(Y[1], Sorted(Past(Y, 1))) BY <1>2, <2>1, <2>5, SortedOf
    <3>4. Sorted(Y).opts = Sorted(Past(Y, 1)).opts BY <3>3 DEF KeptFirst, Parsed
    <3> QED BY <3>2, <3>4
  <2> QED BY <2>3, <2>4, <2>5
<1>3. Seq(Token) \subseteq S
  <2> HIDE DEF S
  <2> QED BY <1>1, <1>2, ByTheRest
<1> QED BY <1>3

\* If nothing moves in a line, nothing moves behind the command Click finds in it.
Quiet(r) == r.ended \/ r.rest = <<>> \/ ~ MovesSomething(Past(r.rest, 1))

LEMMA QuietParse ==
  ASSUME NEW X \in Seq(Token)
  PROVE  /\ ~ MovesSomething(X) => Quiet(ParseRoot(X))
         /\ Len(ParseRoot(X).rest) <= Len(X)
<1> DEFINE S == {Y \in Seq(Token) : /\ ~ MovesSomething(Y) => Quiet(ParseRoot(Y))
                                    /\ Len(ParseRoot(Y).rest) <= Len(Y)}
<1>1. <<>> \in S
  <2>1. <<>> \in Seq(Token) /\ Len(<<>>) = 0 OBVIOUS
  <2>2. ParseRoot(<<>>).rest = <<>> BY ParseOfNothing DEF NothingParsed, Parsed
  <2> QED BY <2>1, <2>2 DEF Quiet
<1>2. ASSUME NEW Y \in Seq(Token), Y # <<>>, Past(Y, 1) \in S, Len(Y) >= 2 => Past(Y, 2) \in S
      PROVE  Y \in S
  <2> DEFINE r == ParseRoot(Y)
  <2> SUFFICES (~ MovesSomething(Y) => Quiet(r)) /\ Len(r.rest) <= Len(Y) OBVIOUS
  <2>1. /\ Len(Y) \in Nat /\ Len(Y) >= 1 /\ Past(Y, 1) \in Seq(Token) /\ Len(Past(Y, 1)) = Len(Y) - 1
    BY <1>2, FirstAndRest
  <2>2. ~ MovesSomething(Y) /\ ~ IsSeparator(Y[1]) =>
          ~ IsMovable(Y[1], 1 = Len(Y)) /\ ~ MovesSomething(Past(Y, 1))
    BY <1>2, MovesFirstOrLater
  <2>3. CASE IsWord(Y[1])
    <3>1. r.rest = Y BY <1>2, <2>3, ParseOfWord DEF Parsed
    <3>2. ~ IsSeparator(Y[1]) BY <2>3, OptionsAreNoWords
    <3> HIDE DEF r
    <3> QED BY <2>1, <2>2, <3>1, <3>2 DEF Quiet
  <2>4. CASE ~ IsWord(Y[1]) /\ IsSeparator(Y[1])
    <3>1. r.rest = Past(Y, 1) /\ r.ended = TRUE BY <1>2, <2>4, ParseOfSeparator DEF Parsed
    <3> HIDE DEF r
    <3> QED BY <2>1, <3>1 DEF Quiet
  <2>5. CASE ~ IsWord(Y[1]) /\ ~ IsSeparator(Y[1]) /\ Width(Y, 1) <= Len(Y)
    <3> DEFINE w == Width(Y, 1)
               t == ParseRoot(Past(Y, w))
    <3>1. r.rest = t.rest /\ r.ended = t.ended
      <4> DEFINE p == SubSeq(Y, 1, w)
      <4>1. r = OptionFirst(p, t) BY <1>2, <2>5, ParseOfOption
      <4> HIDE DEF p, t, r
      <4> QED BY <4>1 DEF OptionFirst, Parsed
    <3>2. CASE ~ Asks(Y[1])
      <4>1. w = 1 BY <3>2 DEF Width
      <4> HIDE DEF w
      <4>2. (~ MovesSomething(Past(Y, 1)) => Quiet(t)) /\ Len(t.rest) <= Len(Past(Y, 1))
        BY <1>2, <4>1
      <4> HIDE DEF r
      <4>3. Len(r.rest) <= Len(Y)
        <5>1. t.rest \in Seq(Token) BY <2>1, <4>1, ParsesAreTyped DEF IsParse
        <5>2. Len(t.rest) \in Nat BY <5>1
        <5> HIDE DEF t
        <5> QED BY <2>1, <3>1, <4>2, <5>2
      <4>4. Quiet(t) <=> Quiet(r) BY <3>1 DEF Quiet
      <4> QED BY <2>2, <2>5, <4>2, <4>3, <4>4
    <3>3. CASE Asks(Y[1])
      <4>1. w = 2 BY <3>3 DEF Width
      <4>2. Len(Y) >= 2 BY <2>5, <4>1
      <4> HIDE DEF w
      <4>3. Past(Y, 2) \in S BY <1>2, <4>2
      <4>4. Len(t.rest) <= Len(Past(Y, 2)) BY <4>1, <4>3
      <4>5. Past(Y, 2) \in Seq(Token) /\ Len(Past(Y, 2)) = Len(Y) - 2
        <5>1. 2 \in 0 .. Len(Y) BY <2>1, <4>2
        <5> QED BY <5>1, RestOfALine
      <4> HIDE DEF r
      <4>6. Len(r.rest) <= Len(Y)
        <5>1. t.rest \in Seq(Token) BY <4>1, <4>5, ParsesAreTyped DEF IsParse
        <5>2. Len(t.rest) \in Nat BY <5>1
        <5> HIDE DEF t
        <5> QED BY <2>1, <3>1, <4>4, <4>5, <5>2
      <4>7. MovesSomething(Y)
        <5>1. IsMovable(Y[1], 1 = Len(Y))
          <6>1. ~ 1 = Len(Y) BY <2>1, <4>2
          <6> QED BY <3>3, <6>1 DEF IsMovable, Asks
        <5> QED BY <1>2, <2>5, <5>1, MovesFirstOrLater
      <4> QED BY <4>6, <4>7
    <3> QED BY <3>2, <3>3
  <2>6. CASE ~ IsWord(Y[1]) /\ ~ IsSeparator(Y[1]) /\ ~ Width(Y, 1) <= Len(Y)
    <3>1. Asks(Y[1]) /\ Len(Y) = 1
      <4> DEFINE n == Len(Y)
      <4>1. n \in Nat /\ n >= 1 /\ ~ (Width(Y, 1) <= n) BY <2>1, <2>6
      <4> HIDE DEF n
      <4>2. Asks(Y[1]) BY <4>1 DEF Width
      <4>3. Width(Y, 1) = 2 BY <4>2 DEF Width
      <4>4. n = 1 BY <4>1, <4>3
      <4> QED BY <4>2, <4>4 DEF n
    <3>2. r.rest = <<>> BY <2>6, <3>1, ParseOfLoneOption DEF Parsed
    <3>3. Len(<<>>) = 0 OBVIOUS
    <3> HIDE DEF r
    <3> QED BY <2>1, <3>2, <3>3 DEF Quiet
  <2> QED BY <2>3, <2>4, <2>5, <2>6
<1>3. Seq(Token) \subseteq S
  <2> HIDE DEF S
  <2> QED BY <1>1, <1>2, ByTheRest
<1> QED BY <1>3

-----------------------------------------------------------------------------
(* The loop and the meaning of the line *)

\* What was hoisted reads as options, and with what was kept and what is still
\* to be seen it is what the words mean.
Sound(words, moved, kept, rest) ==
  \E H \in Seq(Seq(Token)) :
    /\ ReadsAs(moved, H)
    /\ H = <<>> => moved = <<>>
    /\ Sorted(words) = Parsed(H \o Sorted(rest).opts, kept \o Sorted(rest).rest, Sorted(rest).ended)

LEMMA SoundAtFirst ==
  ASSUME NEW words \in Seq(Token)
  PROVE  Sound(words, <<>>, <<>>, words)
<1> DEFINE r == Sorted(words)
<1>1. r = Parsed(r.opts, r.rest, r.ended) /\ r.opts \in Seq(Seq(Token)) /\ r.rest \in Seq(Token)
  BY SortedIsTyped DEF IsParse
<1> HIDE DEF r
<1>2. <<>> \o r.opts = r.opts /\ <<>> \o r.rest = r.rest BY <1>1, ConcatEmptySeq
<1>3. <<>> \in Seq(Seq(Token)) OBVIOUS
<1> QED BY <1>1, <1>2, <1>3, NothingReads DEF Sound, r

\* What the loop takes for a global option is one for Click too, with the same value.
LEMMA HoistedIsSorted ==
  ASSUME NEW a \in Seq(Token), a # <<>>, ~ IsSeparator(a[1]), IsGlobal(a), ~ HasEmptyValue(a)
  PROVE  /\ Sorted(a) = OptionFirst(SubSeq(a, 1, Consumed(a)), Sorted(Past(a, Consumed(a))))
         /\ IsParse(Sorted(Past(a, Consumed(a))))
         /\ SubSeq(a, 1, Consumed(a)) \in Seq(Token) /\ SubSeq(a, 1, Consumed(a)) # <<>>
         /\ \A X \in Seq(Token) :
              ParseRoot(SubSeq(a, 1, Consumed(a)) \o X) = OptionFirst(SubSeq(a, 1, Consumed(a)), ParseRoot(X))
<1> DEFINE c == Consumed(a)
           q == SubSeq(a, 1, c)
           t == a[1]
<1>1. /\ Len(a) \in Nat /\ Len(a) >= 1 /\ t \in Token /\ Head(a) = t
      /\ SubSeq(a, 1, 1) = <<t>>
  BY FirstAndRest
<1> HIDE DEF t
<1>2. t.name \in Valued => t.inline # "" BY EmptyValueOfFirst DEF t
<1>3. c = IF t.name \in Valued /\ NoInline(t) /\ Len(a) > 1 THEN 2 ELSE 1
  BY <1>1, <1>2 DEF Consumed, EmptyInline
<1>4. t.name \in Valued \union Flags \union Clusters BY <1>1 DEF IsGlobal
<1>5. ~ IsWord(t) /\ ~ IsSeparator(t) BY <1>4, OptionsAreNoWords
<1> HIDE DEF c
<1>6. c \in {1, 2} /\ c <= Len(a) /\ (c = 2 <=> Asks(t) /\ 1 < Len(a)) BY <1>1, <1>3 DEF Asks
<1>7. Asks(t) => c = 2
  <2> HAVE Asks(t)
  <2>1. t.name \in Valued /\ NoInline(t) BY DEF Asks
  <2>2. t.name \notin Flags \union Clusters BY <2>1, OptionsAreNoWords
  <2>3. Consumed(a) = 2 \/ ~ (NoInline(t) \/ EmptyInline(t)) BY <1>1, <2>2 DEF IsGlobal
  <2> QED BY <2>1, <2>3 DEF c
<1>8. c = 1 => IsTaken(t)
  <2> HAVE c = 1
  <2>1. ~ Asks(t) BY <1>7
  <2> QED BY <1>4, <2>1 DEF IsTaken
<1>9. /\ Sorted(a) = OptionFirst(q, Sorted(Past(a, c)))
      /\ IsParse(Sorted(Past(a, c)))
  <2>1. CASE c = 2
    <3>1. Asks(a[1]) /\ 1 < Len(a) BY <1>6, <2>1 DEF t
    <3> QED BY <2>1, <3>1, SortedOf
  <2>2. CASE c = 1
    <3>1. IsTaken(a[1]) BY <1>8, <2>2 DEF t
    <3>2. q = <<a[1]>> BY <1>1, <2>2 DEF t
    <3> HIDE DEF q
    <3> QED BY <2>2, <3>1, <3>2, SortedOf
  <2> QED BY <1>6, <2>1, <2>2
<1>10. q \in Seq(Token) /\ Len(q) = c /\ q[1] = t
  <2>1. \A i \in 1 .. Len(a) : a[i] \in Token BY ElementOfSeq
  <2>2. \A i \in 1 .. c : a[i] \in Token
    <3>1. \A i \in 1 .. c : i \in 1 .. Len(a) BY <1>1, <1>6
    <3> QED BY <2>1, <3>1
  <2>3. c \in Int /\ 1 <= c /\ c - 1 + 1 = c /\ 1 \in 1 .. c - 1 + 1 /\ 1 + 1 - 1 = 1 BY <1>6
  <2>4. /\ q \in Seq(Token) /\ Len(q) = IF 1 <= c THEN c - 1 + 1 ELSE 0
        /\ \A i \in 1 .. c - 1 + 1 : q[i] = a[1 + i - 1]
    BY <2>2, <2>3, SubSeqProperties
  <2> HIDE DEF q
  <2> QED BY <2>3, <2>4 DEF t
<1>11. q # <<>>
  <2>1. Len(<<>>) = 0 OBVIOUS
  <2> HIDE DEF q
  <2> QED BY <1>6, <1>10, <2>1
<1>12. Len(q) = Width(q, 1)
  <2> HIDE DEF q
  <2>1. CASE Asks(t) BY <1>7, <1>10, <2>1 DEF Width
  <2>2. CASE ~ Asks(t) BY <1>6, <1>10, <2>2 DEF Width
  <2> QED BY <2>1, <2>2
<1>13. \A X \in Seq(Token) : ParseRoot(q \o X) = OptionFirst(q, ParseRoot(X))
  <2> HIDE DEF q
  <2> QED BY <1>5, <1>10, <1>11, <1>12, OptionReads
<1> QED BY <1>9, <1>10, <1>11, <1>13 DEF c

LEMMA HoistIsSound ==
  ASSUME NEW words \in Seq(Token), NEW moved \in Seq(Token), NEW kept \in Seq(Token),
         NEW a \in Seq(Token), Sound(words, moved, kept, a),
         a # <<>>, ~ IsSeparator(a[1]), IsGlobal(a), ~ HasEmptyValue(a)
  PROVE  Sound(words, moved \o SubSeq(a, 1, Consumed(a)), kept, Past(a, Consumed(a)))
<1> DEFINE q == SubSeq(a, 1, Consumed(a))
           rest == Past(a, Consumed(a))
           r == Sorted(rest)
<1>1. /\ Sorted(a) = OptionFirst(q, r) /\ IsParse(r) /\ q \in Seq(Token)
      /\ \A X \in Seq(Token) : ParseRoot(q \o X) = OptionFirst(q, ParseRoot(X))
  BY HoistedIsSorted
<1> HIDE DEF q, rest
<1>2. PICK H \in Seq(Seq(Token)) :
        /\ ReadsAs(moved, H)
        /\ Sorted(words) = Parsed(H \o Sorted(a).opts, kept \o Sorted(a).rest, Sorted(a).ended)
  BY DEF Sound
<1> DEFINE G == H \o <<q>>
<1>3. ReadsAs(moved \o q, G) /\ G \in Seq(Seq(Token)) BY <1>1, <1>2, ReadsWithOptionBehind
<1>4. G # <<>>
  <2>1. <<q>> \in Seq(Seq(Token)) /\ Len(<<q>>) = 1 BY <1>1
  <2>2. Len(G) = Len(H) + Len(<<q>>) /\ Len(H) \in Nat BY <2>1, ConcatProperties
  <2>3. Len(<<>>) = 0 OBVIOUS
  <2> HIDE DEF G
  <2> QED BY <2>1, <2>2, <2>3
<1>5. Sorted(words) = Parsed(G \o r.opts, kept \o r.rest, r.ended)
  <2> DEFINE s == <<q>>
             u == r.opts
  <2>1. s \in Seq(Seq(Token)) /\ u \in Seq(Seq(Token)) BY <1>1 DEF IsParse
  <2>2. /\ Sorted(a).opts = s \o u /\ Sorted(a).rest = r.rest /\ Sorted(a).ended = r.ended
    <3> HIDE DEF r
    <3> QED BY <1>1 DEF OptionFirst, Parsed
  <2> HIDE DEF s, u
  <2>3. (H \o s) \o u = H \o (s \o u) BY <2>1, OptionsAreAssociative
  <2>4. Sorted(words) = Parsed((H \o s) \o u, kept \o r.rest, r.ended) BY <1>2, <2>2, <2>3
  <2> QED BY <2>4 DEF s, u
<1> HIDE DEF G, r
<1>6. Sound(words, moved \o q, kept, rest)
  BY <1>3, <1>4, <1>5 DEF Sound, r
<1> QED BY <1>6 DEF q, rest

\* What the loop leaves with the command is the command's own for Click too.
LEMMA KeepIsSound ==
  ASSUME NEW words \in Seq(Token), NEW moved \in Seq(Token), NEW kept \in Seq(Token),
         NEW a \in Seq(Token), Sound(words, moved, kept, a),
         a # <<>>, ~ IsSeparator(a[1]), ~ IsGlobal(a), ~ HasEmptyValue(a)
  PROVE  Sound(words, moved, kept \o <<a[1]>>, Past(a, 1))
<1> DEFINE r == Sorted(Past(a, 1))
           t == a[1]
<1>1. /\ Len(a) \in Nat /\ Len(a) >= 1 /\ t \in Token /\ Head(a) = t
  BY FirstAndRest
<1> HIDE DEF t
<1>2. t.name \in Valued => t.inline # "" BY EmptyValueOfFirst DEF t
<1>3. t.name \notin Flags \union Clusters BY <1>1 DEF IsGlobal
<1>4. t.name \in Valued => NoInline(t) /\ ~ (Len(a) > 1)
  <2> HAVE t.name \in Valued
  <2>1. NoInline(t) BY <1>1, <1>2 DEF IsGlobal, EmptyInline
  <2>2. Consumed(a) # 2 BY <1>1 DEF IsGlobal
  <2>3. Consumed(a) = IF t.name \in Valued /\ (NoInline(t) \/ EmptyInline(t)) /\ Len(a) > 1 THEN 2 ELSE 1
    BY <1>1 DEF Consumed
  <2> QED BY <2>1, <2>2, <2>3
<1>5. ~ (Asks(t) /\ 1 < Len(a))
  <2> SUFFICES ASSUME Asks(t)
               PROVE  ~ (1 < Len(a))
    OBVIOUS
  <2>1. t.name \in Valued BY DEF Asks
  <2>2. ~ (Len(a) > 1) BY <1>4, <2>1
  <2>3. Len(a) \in Nat BY <1>1
  <2> QED BY <2>2, <2>3
<1>6. ~ IsTaken(t) BY <1>3, <1>4 DEF IsTaken, Asks
<1>7. Sorted(a) = KeptFirst(t, r) /\ IsParse(r) BY <1>5, <1>6, SortedOf DEF t
<1> HIDE DEF r
<1>8. PICK H \in Seq(Seq(Token)) :
        /\ ReadsAs(moved, H) /\ (H = <<>> => moved = <<>>)
        /\ Sorted(words) = Parsed(H \o Sorted(a).opts, kept \o Sorted(a).rest, Sorted(a).ended)
  BY DEF Sound
<1>9. Sorted(words) = Parsed(H \o r.opts, (kept \o <<t>>) \o r.rest, r.ended)
  <2> DEFINE s == <<t>>
             u == r.rest
  <2>1. s \in Seq(Token) /\ u \in Seq(Token) BY <1>1, <1>7 DEF IsParse
  <2>2. Sorted(a).opts = r.opts /\ Sorted(a).rest = s \o u /\ Sorted(a).ended = r.ended
    BY <1>7 DEF KeptFirst, Parsed
  <2> HIDE DEF s, u
  <2>3. (kept \o s) \o u = kept \o (s \o u)
    <3>1. \A s3 \in Seq(Token) : (kept \o s) \o s3 = kept \o (s \o s3)
      BY <2>1, TokensAreAssociative, Zenon
    <3> QED BY <2>1, <3>1
  <2>4. Sorted(words) = Parsed(H \o r.opts, (kept \o s) \o u, r.ended) BY <1>8, <2>2, <2>3
  <2> QED BY <2>4 DEF s, u
<1> QED BY <1>8, <1>9 DEF Sound, r, t

\* From "--" on everything is the command's own.
LEMMA StopIsSound ==
  ASSUME NEW words \in Seq(Token), NEW moved \in Seq(Token), NEW kept \in Seq(Token),
         NEW a \in Seq(Token), Sound(words, moved, kept, a), a # <<>>, IsSeparator(a[1])
  PROVE  Sound(words, moved, kept \o a, <<>>)
<1>1. Sorted(a) = Parsed(<<>>, a, FALSE) BY SortedOf
<1>2. Sorted(<<>>) = Parsed(<<>>, <<>>, FALSE) BY SortedOfNothing DEF NothingParsed
<1>3. PICK H \in Seq(Seq(Token)) :
        /\ ReadsAs(moved, H) /\ (H = <<>> => moved = <<>>)
        /\ Sorted(words) = Parsed(H \o Sorted(a).opts, kept \o Sorted(a).rest, Sorted(a).ended)
  BY DEF Sound
<1>4. Sorted(words) = Parsed(H \o Sorted(<<>>).opts, (kept \o a) \o Sorted(<<>>).rest, Sorted(<<>>).ended)
  <2>1. Sorted(a).opts = <<>> /\ Sorted(a).rest = a /\ Sorted(a).ended = FALSE BY <1>1 DEF Parsed
  <2>2. Sorted(<<>>).opts = <<>> /\ Sorted(<<>>).rest = <<>> /\ Sorted(<<>>).ended = FALSE
    BY <1>2 DEF Parsed
  <2>3. (kept \o a) \o <<>> = kept \o a
    <3> DEFINE s == kept \o a
    <3>1. s \in Seq(Token) BY ConcatProperties
    <3> HIDE DEF s
    <3>2. s \o <<>> = s BY <3>1, ConcatEmptySeq
    <3> QED BY <3>2 DEF s
  <2> QED BY <1>3, <2>1, <2>2, <2>3
<1> QED BY <1>3, <1>4 DEF Sound

\* At a token that can be moved the loop moves something; it stops at "--" only.
LEMMA KeepLeavesMovers ==
  ASSUME NEW a \in Seq(Token), a # <<>>, MovesSomething(a)
  PROVE  /\ ~ IsSeparator(a[1])
         /\ ~ IsGlobal(a) => MovesSomething(Past(a, 1))
<1> DEFINE t == a[1]
<1>1. Len(a) \in Nat /\ Len(a) >= 1 /\ Head(a) = t BY FirstAndRest
<1>2. ~ IsSeparator(t) /\ (IsMovable(t, 1 = Len(a)) \/ MovesSomething(Past(a, 1)))
  BY MovesFirstOrLater
<1> HIDE DEF t
<1>3. IsMovable(t, 1 = Len(a)) => IsGlobal(a)
  <2> HAVE IsMovable(t, 1 = Len(a))
  <2>1. CASE t.name \in Flags \union Clusters BY <1>1, <2>1 DEF IsGlobal
  <2>2. CASE t.name \in Valued /\ t.inline \notin {"none", ""}
    BY <1>1, <2>2 DEF IsGlobal, NoInline, EmptyInline
  <2>3. CASE t.name \in Valued /\ t.inline \in {"none", ""} /\ ~ (1 = Len(a))
    <3>1. Len(a) > 1
      <4> DEFINE n == Len(a)
      <4>1. n \in Nat /\ n >= 1 /\ ~ (1 = n) BY <1>1, <2>3
      <4> HIDE DEF n
      <4>2. n > 1 BY <4>1
      <4> QED BY <4>2 DEF n
    <3>2. NoInline(t) \/ EmptyInline(t) BY <2>3 DEF NoInline, EmptyInline
    <3>3. Consumed(a) = 2 BY <1>1, <2>3, <3>1, <3>2 DEF Consumed
    <3> QED BY <1>1, <2>3, <3>3 DEF IsGlobal
  <2> QED BY <2>1, <2>2, <2>3 DEF IsMovable
<1> QED BY <1>2, <1>3 DEF t

-----------------------------------------------------------------------------
(* What Click gets and what the line says *)

Said(line, p) ==
  /\ \/ p = Meant(line)
     \/ ValueTakenForCommand(line) \/ ValueTakenForSeparator(line)
     \/ HasEmptyValue(line)
  /\ ValueTakenForCommand(line) \/ ValueTakenForSeparator(line) => p # Meant(line)

\* The words Click finds are the end of the line.
LEMMA RestIsTheEnd ==
  ASSUME NEW X \in Seq(Token)
  PROVE  /\ \E w \in 0 .. Len(X) : ParseRoot(X).rest = Past(X, w)
         /\ ParseRoot(X).ended \in BOOLEAN
<1> DEFINE S == {Y \in Seq(Token) : /\ \E w \in 0 .. Len(Y) : ParseRoot(Y).rest = Past(Y, w)
                                    /\ ParseRoot(Y).ended \in BOOLEAN}
<1>1. <<>> \in S
  <2>1. <<>> \in Seq(Token) /\ 0 \in 0 .. Len(<<>>) OBVIOUS
  <2>2. ParseRoot(<<>>).rest = <<>> /\ ParseRoot(<<>>).ended = FALSE
    BY ParseOfNothing DEF NothingParsed, Parsed
  <2>3. Past(<<>>, 0) = <<>> BY <2>1, RestOfConcat
  <2>4. \E w \in 0 .. Len(<<>>) : ParseRoot(<<>>).rest = Past(<<>>, w) BY <2>1, <2>2, <2>3
  <2> QED BY <2>1, <2>2, <2>4
<1>2. ASSUME NEW Y \in Seq(Token), Y # <<>>, Past(Y, 1) \in S, Len(Y) >= 2 => Past(Y, 2) \in S
      PROVE  Y \in S
  <2> DEFINE r == ParseRoot(Y)
  <2> SUFFICES (\E w \in 0 .. Len(Y) : r.rest = Past(Y, w)) /\ r.ended \in BOOLEAN OBVIOUS
  <2>1. Len(Y) \in Nat /\ Len(Y) >= 1 BY <1>2, FirstAndRest
  <2>2. Past(Y, 0) = Y /\ Past(Y, Len(Y)) = <<>> BY RestOfConcat
  <2>3. 0 \in 0 .. Len(Y) /\ 1 \in 0 .. Len(Y) /\ Len(Y) \in 0 .. Len(Y) BY <2>1
  <2>4. CASE IsWord(Y[1])
    <3>1. r.rest = Y /\ r.ended = FALSE BY <1>2, <2>4, ParseOfWord DEF Parsed
    <3> HIDE DEF r
    <3> QED BY <2>2, <2>3, <3>1
  <2>5. CASE ~ IsWord(Y[1]) /\ IsSeparator(Y[1])
    <3>1. r.rest = Past(Y, 1) /\ r.ended = TRUE BY <1>2, <2>5, ParseOfSeparator DEF Parsed
    <3> HIDE DEF r
    <3> QED BY <2>3, <3>1
  <2>6. CASE ~ IsWord(Y[1]) /\ ~ IsSeparator(Y[1]) /\ Width(Y, 1) <= Len(Y)
    <3> DEFINE w == Width(Y, 1)
               Z == Past(Y, w)
               t == ParseRoot(Z)
    <3>1. r.rest = t.rest /\ r.ended = t.ended
      <4> DEFINE p == SubSeq(Y, 1, w)
      <4>1. r = OptionFirst(p, t) BY <1>2, <2>6, ParseOfOption
      <4> HIDE DEF p, t, r
      <4> QED BY <4>1 DEF OptionFirst, Parsed
    <3>2. w \in {1, 2} /\ w <= Len(Y) BY <2>6 DEF Width
    <3> HIDE DEF w, r
    <3>3. Z \in S BY <1>2, <3>2
    <3>4. PICK v \in 0 .. Len(Z) : t.rest = Past(Z, v) BY <3>3
    <3>5. t.ended \in BOOLEAN BY <3>3
    <3>6. w \in 0 .. Len(Y) BY <2>1, <3>2
    <3>7. Len(Z) = Len(Y) - w /\ \A u \in 0 .. Len(Y) - w : Past(Z, u) = Past(Y, w + u)
      BY <3>6, RestOfALine
    <3>8. w + v \in 0 .. Len(Y) /\ v \in 0 .. Len(Y) - w
      <4> DEFINE n == Len(Y)
      <4>1. n \in Nat /\ v \in 0 .. n - w /\ w \in 0 .. n BY <2>1, <3>6, <3>7
      <4> HIDE DEF n, Z
      <4>2. w + v \in 0 .. n BY <4>1
      <4> QED BY <4>1, <4>2 DEF n
    <3> HIDE DEF Z, t
    <3> QED BY <3>1, <3>4, <3>5, <3>7, <3>8
  <2>7. CASE ~ IsWord(Y[1]) /\ ~ IsSeparator(Y[1]) /\ ~ Width(Y, 1) <= Len(Y)
    <3>1. Asks(Y[1]) /\ Len(Y) = 1
      <4> DEFINE n == Len(Y)
      <4>1. n \in Nat /\ n >= 1 /\ ~ (Width(Y, 1) <= n) BY <2>1, <2>7
      <4> HIDE DEF n
      <4>2. Asks(Y[1]) BY <4>1 DEF Width
      <4>3. Width(Y, 1) = 2 BY <4>2 DEF Width
      <4>4. n = 1 BY <4>1, <4>3
      <4> QED BY <4>2, <4>4 DEF n
    <3>2. r.rest = <<>> /\ r.ended = FALSE BY <2>7, <3>1, ParseOfLoneOption DEF Parsed
    <3> HIDE DEF r
    <3> QED BY <2>2, <2>3, <3>2
  <2> QED BY <2>4, <2>5, <2>6, <2>7
<1>3. Seq(Token) \subseteq S
  <2> HIDE DEF S
  <2> QED BY <1>1, <1>2, ByTheRest
<1> QED BY <1>3

\* What a line means, by the command Click finds in it
LEMMA MeaningOfLine ==
  ASSUME NEW line \in Seq(Token)
  PROVE  LET r == ParseRoot(line)
             own == Sorted(Past(r.rest, 1))
         IN /\ r.ended \/ r.rest = <<>> => Meant(line) = r
            /\ ~ r.ended /\ r.rest # <<>> =>
                 Meant(line) = Parsed(r.opts \o own.opts, <<r.rest[1]>> \o own.rest, FALSE)
<1> DEFINE r == ParseRoot(line)
<1>1. r.rest \in Seq(Token) BY ParsesAreTyped DEF IsParse
<1>2. r.ended \/ r.rest = <<>> => Meant(line) = r BY DEF Meant
<1>3. ~ r.ended /\ r.rest # <<>> =>
        Meant(line) = Parsed(r.opts \o Sorted(Past(r.rest, 1)).opts,
                             <<r.rest[1]>> \o Sorted(Past(r.rest, 1)).rest, FALSE)
  <2> HAVE ~ r.ended /\ r.rest # <<>>
  <2>1. Tail(r.rest) = Past(r.rest, 1) /\ Head(r.rest) = r.rest[1]
    <3> DEFINE Y == r.rest
    <3>1. Y \in Seq(Token) /\ Y # <<>> BY <1>1
    <3> HIDE DEF Y
    <3>2. Tail(Y) = Past(Y, 1) /\ Head(Y) = Y[1] BY <3>1, FirstAndRest
    <3> QED BY <3>2 DEF Y
  <2> QED BY <2>1 DEF Meant
<1> QED BY <1>2, <1>3

\* If nothing behind the command moves, the line means what Click reads in it.
LEMMA QuietMeaning ==
  ASSUME NEW line \in Seq(Token), ~ HasEmptyValue(line), Quiet(ParseRoot(line))
  PROVE  Meant(line) = ParseRoot(line)
<1> DEFINE r == ParseRoot(line)
<1>1. r = Parsed(r.opts, r.rest, r.ended) /\ r.opts \in Seq(Seq(Token)) /\ r.rest \in Seq(Token)
  BY ParsesAreTyped DEF IsParse
<1>2. PICK w \in 0 .. Len(line) : r.rest = Past(line, w) BY RestIsTheEnd
<1>3. r.ended \in BOOLEAN BY RestIsTheEnd
<1> DEFINE Y == r.rest
           Z == Past(Y, 1)
<1>4. ~ HasEmptyValue(Y) BY <1>2, EmptyValueOfRest
<1>5. CASE r.ended \/ r.rest = <<>> BY <1>5, MeaningOfLine
<1>6. CASE ~ r.ended /\ r.rest # <<>>
  <2>1. ~ MovesSomething(Z) BY <1>6 DEF Quiet
  <2>2. Meant(line) = Parsed(r.opts \o Sorted(Z).opts, <<Y[1]>> \o Sorted(Z).rest, FALSE)
    BY <1>6, MeaningOfLine
  <2> HIDE DEF r
  <2>3. Y \in Seq(Token) /\ Y # <<>> BY <1>1, <1>6
  <2> HIDE DEF Y
  <2>4. Z \in Seq(Token) /\ <<Y[1]>> \o Z = Y /\ 1 \in 0 .. Len(Y)
    <3>1. Len(Y) \in Nat /\ Len(Y) >= 1 /\ Z \in Seq(Token) /\ <<Y[1]>> \o Z = Y BY <2>3, FirstAndRest
    <3> QED BY <3>1
  <2>5. ~ HasEmptyValue(Z) BY <1>4, <2>3, <2>4, EmptyValueOfRest
  <2> HIDE DEF Z
  <2>6. Sorted(Z) = Parsed(<<>>, Z, FALSE) BY <2>1, <2>4, <2>5, NothingToSort
  <2>7. Sorted(Z).opts = <<>> /\ Sorted(Z).rest = Z BY <2>6 DEF Parsed
  <2>8. r.opts \o <<>> = r.opts BY <1>1, ConcatEmptySeq
  <2>9. Meant(line) = Parsed(r.opts, Y, FALSE) BY <2>2, <2>4, <2>7, <2>8
  <2>10. r.ended = FALSE BY <1>3, <1>6
  <2> QED BY <1>1, <2>9, <2>10 DEF Y, r
<1> QED BY <1>5, <1>6

\* A line in which normalize_argv finds no command goes to Click as it is.
LEMMA UnmovedLineIsSaid ==
  ASSUME NEW line \in Seq(Token), FirstWord(line) = 0
  PROVE  Said(line, ParseRoot(line))
<1> DEFINE r == ParseRoot(line)
           Z == Past(r.rest, 1)
<1>1. r.opts \in Seq(Seq(Token)) /\ r.rest \in Seq(Token) BY ParsesAreTyped DEF IsParse
<1>2. ~ ValueTakenForCommand(line) BY DEF ValueTakenForCommand
<1>3. r.rest # <<>> => Tail(r.rest) = Z /\ Z \in Seq(Token)
  <2> DEFINE Y == r.rest
  <2>1. Y \in Seq(Token) BY <1>1
  <2> HIDE DEF Y
  <2>2. Y # <<>> => Tail(Y) = Past(Y, 1) /\ Past(Y, 1) \in Seq(Token) BY <2>1, FirstAndRest
  <2> QED BY <2>2 DEF Y
<1>4. ValueTakenForSeparator(line) <=> r.rest # <<>> /\ ~ r.ended /\ MovesSomething(Z)
  BY <1>3 DEF ValueTakenForSeparator
<1>5. ASSUME ~ ValueTakenForSeparator(line), ~ HasEmptyValue(line)
      PROVE  r = Meant(line)
  <2>1. Quiet(r) BY <1>4, <1>5 DEF Quiet
  <2> QED BY <1>5, <2>1, QuietMeaning
<1>6. ASSUME ValueTakenForSeparator(line)
      PROVE  r # Meant(line)
  <2>1. r.rest # <<>> /\ ~ r.ended /\ MovesSomething(Z) BY <1>4, <1>6
  <2>2. Meant(line) = Parsed(r.opts \o Sorted(Z).opts, <<r.rest[1]>> \o Sorted(Z).rest, FALSE)
    BY <2>1, MeaningOfLine
  <2>3. Sorted(Z).opts # <<>> /\ Sorted(Z).opts \in Seq(Seq(Token))
    BY <1>3, <2>1, SomethingToSort, SortedIsTyped DEF IsParse
  <2> HIDE DEF r, Z
  <2>4. Meant(line).opts = r.opts \o Sorted(Z).opts
    <3> DEFINE opts == r.opts \o Sorted(Z).opts
               rest == <<r.rest[1]>> \o Sorted(Z).rest
    <3>1. Meant(line) = Parsed(opts, rest, FALSE) BY <2>2
    <3> HIDE DEF opts, rest
    <3>2. Meant(line).opts = opts BY <3>1 DEF Parsed
    <3> QED BY <3>2 DEF opts
  <2> DEFINE more == Sorted(Z).opts
  <2>5. r.opts \o more # r.opts
    <3>1. more # <<>> /\ more \in Seq(Seq(Token)) BY <2>3
    <3> HIDE DEF more
    <3> QED BY <1>1, <3>1, ConcatEqualIffEmpty
  <2> QED BY <2>4, <2>5
<1> QED BY <1>2, <1>5, <1>6 DEF Said

\* The line split at a place
LEMMA LineAtAPlace ==
  ASSUME NEW line \in Seq(Token), NEW f \in 1 .. Len(line)
  PROVE  /\ SubSeq(line, 1, f - 1) \in Seq(Token)
         /\ Past(line, f - 1) \in Seq(Token) /\ Past(line, f - 1) # <<>>
         /\ Past(line, f - 1)[1] = line[f] /\ line[f] \in Token
         /\ Past(Past(line, f - 1), 1) = Past(line, f) /\ Past(line, f) \in Seq(Token)
         /\ Past(line, f - 1) = <<line[f]>> \o Past(line, f)
         /\ SubSeq(line, 1, f - 1) \o Past(line, f - 1) = line
         /\ Len(Past(line, f - 1)) > Len(line) - f /\ Len(Past(line, f)) = Len(line) - f
         /\ f > 1 => /\ SubSeq(line, 1, f - 2) \in Seq(Token) /\ line[f - 1] \in Token
                     /\ SubSeq(line, 1, f - 1) = SubSeq(line, 1, f - 2) \o <<line[f - 1]>>
<1> DEFINE n == Len(line)
<1>1. n \in Nat /\ f \in 1 .. n /\ f - 1 \in 0 .. n /\ f \in 0 .. n /\ (f - 1) + 1 = f
      /\ n - (f - 1) > n - f /\ n - (f - 1) >= 1 /\ 1 \in 1 .. n - (f - 1) /\ 1 \in 0 .. n - (f - 1)
      /\ n \in f .. n /\ 1 \in 1 .. n + 1 /\ f - 1 \in 1 - 1 .. n /\ n \in f - 1 .. n
  <2>1. n \in Nat /\ f \in 1 .. n OBVIOUS
  <2> HIDE DEF n
  <2> QED BY <2>1
<1>2. \A i \in 1 .. n : line[i] \in Token BY ElementOfSeq
<1>3. ASSUME NEW e \in 0 .. n
      PROVE  SubSeq(line, 1, e) \in Seq(Token)
  <2> HIDE DEF n
  <2>1. e \in Int /\ 1 \in Int /\ \A k \in 1 .. e : line[k] \in Token BY <1>1, <1>2
  <2> QED BY <2>1, SubSeqProperties
<1>4. /\ Past(line, f - 1) \in Seq(Token) /\ Len(Past(line, f - 1)) = n - (f - 1)
      /\ \A i \in 1 .. n - (f - 1) : Past(line, f - 1)[i] = line[(f - 1) + i]
      /\ \A v \in 0 .. n - (f - 1) : Past(Past(line, f - 1), v) = Past(line, (f - 1) + v)
  BY <1>1, RestOfALine
<1>5. Past(line, f) \in Seq(Token) /\ Len(Past(line, f)) = n - f BY <1>1, RestOfALine
<1>6. Past(line, f - 1) # <<>>
  <2>1. Len(<<>>) = 0 OBVIOUS
  <2> HIDE DEF n
  <2> QED BY <1>1, <1>4, <2>1
<1>7. Past(line, f - 1)[1] = line[f] /\ Past(Past(line, f - 1), 1) = Past(line, f) BY <1>1, <1>4
<1>8. Past(line, f - 1) = <<line[f]>> \o Past(line, f)
  <2>1. SubSeq(line, f, n) = <<line[f]>> \o SubSeq(line, f + 1, n) BY <1>1, SubSeqRecursiveFirst
  <2> QED BY <1>1, <2>1 DEF Past
<1>9. SubSeq(line, 1, f - 1) \o Past(line, f - 1) = line
  <2>1. SubSeq(line, 1, f - 1) \o SubSeq(line, (f - 1) + 1, n) = SubSeq(line, 1, n)
    BY <1>1, ConcatAdjacentSubSeq
  <2> QED BY <2>1, SubSeqFull DEF Past
<1>10. f > 1 => /\ SubSeq(line, 1, f - 2) \in Seq(Token) /\ line[f - 1] \in Token
                /\ SubSeq(line, 1, f - 1) = SubSeq(line, 1, f - 2) \o <<line[f - 1]>>
  <2> HAVE f > 1
  <2>1. f - 1 \in 1 .. n /\ f - 2 \in 0 .. n /\ f - 1 \in 1 .. f - 1 /\ (f - 1) - 1 = f - 2
        /\ 1 \in 1 .. n /\ f - 1 \in 1 .. n
    BY <1>1
  <2>2. SubSeq(line, 1, f - 1) = SubSeq(line, 1, (f - 1) - 1) \o <<line[f - 1]>>
    BY <2>1, SubSeqRecursiveSecond
  <2> QED BY <1>2, <1>3, <2>1, <2>2
<1>11. line[f] \in Token /\ SubSeq(line, 1, f - 1) \in Seq(Token) BY <1>1, <1>2, <1>3
<1> QED BY <1>1, <1>4, <1>5, <1>6, <1>7, <1>8, <1>9, <1>10, <1>11

\* What the loop has made of the words after the command once none is left
Shared(line, f, moved, kept) ==
  /\ ~ HasEmptyValue(line) => Sound(Past(line, f), moved, kept, <<>>)
  /\ MovesSomething(Past(line, f)) => moved # <<>>
  /\ moved # <<>> => moved[1].name \in Valued \union Flags \union Clusters

\* With only options before the command, the hoisted options follow them.
LEMMA OptionsThenCommand ==
  ASSUME NEW line \in Seq(Token), NEW f \in 1 .. Len(line), IsWord(line[f]), FirstWord(line) = f,
         NEW H \in Seq(Seq(Token)), ReadsAs(SubSeq(line, 1, f - 1), H),
         NEW moved \in Seq(Token), NEW kept \in Seq(Token), Shared(line, f, moved, kept)
  PROVE  Said(line, ParseRoot(SubSeq(line, 1, f - 1) \o (moved \o (<<line[f]>> \o kept))))
<1> DEFINE b == SubSeq(line, 1, f - 1)
           Y == Past(line, f - 1)
           B == Past(line, f)
           t == line[f]
           r == ParseRoot(line)
<1>1. /\ b \in Seq(Token) /\ Y \in Seq(Token) /\ Y # <<>> /\ Y[1] = t /\ t \in Token
      /\ Past(Y, 1) = B /\ b \o Y = line /\ Len(Y) > Len(line) - f
  BY LineAtAPlace
<1>2. ReadsAs(b, H) /\ IsWord(t) OBVIOUS
<1> HIDE DEF b, Y, B, t
<1>3. /\ r.opts = H /\ r.rest = Y /\ r.ended = FALSE
  <2>1. ParseRoot(Y) = Parsed(<<>>, Y, FALSE) BY <1>1, <1>2, ParseOfWord
  <2>2. ParseRoot(b \o Y) = Parsed(H \o ParseRoot(Y).opts, ParseRoot(Y).rest, ParseRoot(Y).ended)
    BY <1>1, <1>2 DEF ReadsAs
  <2>3. ParseRoot(Y).opts = <<>> /\ ParseRoot(Y).rest = Y /\ ParseRoot(Y).ended = FALSE
    BY <2>1 DEF Parsed
  <2>4. H \o <<>> = H BY ConcatEmptySeq
  <2>5. r = Parsed(H, Y, FALSE) BY <1>1, <2>2, <2>3, <2>4
  <2> HIDE DEF r
  <2> QED BY <2>5 DEF Parsed
<1>4. ~ ValueTakenForCommand(line) /\ ~ ValueTakenForSeparator(line)
  <2>1. ~ (Len(Y) <= Len(line) - f)
    <3> DEFINE m == Len(Y)
               n == Len(line)
    <3>1. m \in Nat /\ n \in Nat /\ f \in Nat /\ m > n - f BY <1>1
    <3> HIDE DEF m, n
    <3>2. ~ (m <= n - f) BY <3>1
    <3> QED BY <3>2 DEF m, n
  <2>2. ~ (Len(ParseRoot(line).rest) <= Len(line) - FirstWord(line)) BY <1>3, <2>1
  <2>3. ~ ValueTakenForCommand(line) BY <2>2 DEF ValueTakenForCommand
  <2>4. FirstWord(line) # 0 OBVIOUS
  <2>5. ~ ValueTakenForSeparator(line) BY <2>4 DEF ValueTakenForSeparator
  <2> QED BY <2>3, <2>5
<1>5. ASSUME ~ HasEmptyValue(line)
      PROVE  ParseRoot(b \o (moved \o (<<t>> \o kept))) = Meant(line)
  <2>1. PICK G \in Seq(Seq(Token)) :
          /\ ReadsAs(moved, G)
          /\ Sorted(B) = Parsed(G \o Sorted(<<>>).opts, kept \o Sorted(<<>>).rest, Sorted(<<>>).ended)
    BY <1>5 DEF Shared, Sound, B
  <2>2. Sorted(<<>>).opts = <<>> /\ Sorted(<<>>).rest = <<>>
    BY SortedOfNothing DEF NothingParsed, Parsed
  <2>3. G \o <<>> = G /\ kept \o <<>> = kept BY ConcatEmptySeq
  <2>4. Sorted(B).opts = G /\ Sorted(B).rest = kept
    <3>1. Sorted(B) = Parsed(G, kept, Sorted(<<>>).ended) BY <2>1, <2>2, <2>3
    <3> QED BY <3>1 DEF Parsed
  <2>5. Meant(line) = Parsed(H \o G, <<t>> \o kept, FALSE)
    <3>1. ~ r.ended /\ r.rest # <<>> BY <1>1, <1>3
    <3>2. Meant(line) = Parsed(r.opts \o Sorted(Past(r.rest, 1)).opts,
                               <<r.rest[1]>> \o Sorted(Past(r.rest, 1)).rest, FALSE)
      BY <3>1, MeaningOfLine
    <3> HIDE DEF r
    <3> QED BY <1>1, <1>3, <2>4, <3>2
  <2> DEFINE C == <<t>> \o kept
             M == moved \o C
  <2>6. C \in Seq(Token) /\ C # <<>> /\ C[1] = t
    <3>1. <<t>> \in Seq(Token) /\ Len(<<t>>) = 1 /\ <<t>>[1] = t BY <1>1
    <3>2. /\ C \in Seq(Token) /\ Len(C) = Len(<<t>>) + Len(kept)
          /\ \A i \in 1 .. Len(<<t>>) + Len(kept) :
               C[i] = IF i <= Len(<<t>>) THEN <<t>>[i] ELSE kept[i - Len(<<t>>)]
      BY <3>1, ConcatProperties
    <3>3. Len(kept) \in Nat /\ 1 \in 1 .. 1 + Len(kept) /\ 1 + Len(kept) # 0 OBVIOUS
    <3>4. Len(<<>>) = 0 OBVIOUS
    <3> HIDE DEF C
    <3> QED BY <3>1, <3>2, <3>3, <3>4
  <2>7. M \in Seq(Token) BY <2>6, ConcatProperties
  <2> HIDE DEF C
  <2>8. ParseRoot(C) = Parsed(<<>>, C, FALSE) BY <1>2, <2>6, ParseOfWord
  <2>9. ParseRoot(C).opts = <<>> /\ ParseRoot(C).rest = C /\ ParseRoot(C).ended = FALSE
    BY <2>8 DEF Parsed
  <2>10. ParseRoot(M) = Parsed(G, C, FALSE)
    <3>1. ParseRoot(M) = Parsed(G \o ParseRoot(C).opts, ParseRoot(C).rest, ParseRoot(C).ended)
      BY <2>1, <2>6 DEF ReadsAs
    <3> QED BY <2>3, <2>9, <3>1
  <2> HIDE DEF M
  <2>11. ParseRoot(M).opts = G /\ ParseRoot(M).rest = C /\ ParseRoot(M).ended = FALSE
    BY <2>10 DEF Parsed
  <2>12. ParseRoot(b \o M) = Parsed(H \o ParseRoot(M).opts, ParseRoot(M).rest, ParseRoot(M).ended)
    BY <1>2, <2>7 DEF ReadsAs
  <2>13. ParseRoot(b \o M) = Parsed(H \o G, C, FALSE) BY <2>11, <2>12
  <2> QED BY <2>5, <2>13 DEF M, C
<1>6. Said(line, ParseRoot(b \o (moved \o (<<t>> \o kept)))) BY <1>4, <1>5 DEF Said
<1> QED BY <1>6 DEF b, t

\* The option behind others is there where it stands.
LEMMA OptionAt ==
  ASSUME NEW H \in Seq(Seq(Token)), NEW q \in Seq(Token), NEW s \in Seq(Seq(Token)),
         NEW z \in Seq(Seq(Token))
  PROVE  /\ (H \o (<<q>> \o s))[Len(H) + 1] = q
         /\ ((H \o (<<q>> \o s)) \o z)[Len(H) + 1] = q
         /\ H \o (<<q>> \o s) \in Seq(Seq(Token))
<1> DEFINE p == <<q>>
           o == p \o s
           h == H \o o
           k == Len(H) + 1
<1>1. p \in Seq(Seq(Token)) /\ Len(p) = 1 /\ p[1] = q OBVIOUS
<1> HIDE DEF p
<1>2. /\ o \in Seq(Seq(Token)) /\ Len(o) = 1 + Len(s)
      /\ \A i \in 1 .. 1 + Len(s) : o[i] = IF i <= 1 THEN p[i] ELSE s[i - 1]
  <2>1. /\ o \in Seq(Seq(Token)) /\ Len(o) = Len(p) + Len(s)
        /\ \A i \in 1 .. Len(p) + Len(s) : o[i] = IF i <= Len(p) THEN p[i] ELSE s[i - Len(p)]
    BY <1>1, ConcatProperties
  <2> HIDE DEF o
  <2> QED BY <1>1, <2>1
<1>3. Len(H) \in Nat /\ Len(s) \in Nat /\ Len(z) \in Nat OBVIOUS
<1>4. o[1] = q
  <2>1. 1 \in 1 .. 1 + Len(s) /\ 1 <= 1 BY <1>3
  <2> HIDE DEF o
  <2> QED BY <1>1, <1>2, <2>1
<1> HIDE DEF o
<1>5. /\ h \in Seq(Seq(Token)) /\ Len(h) = Len(H) + Len(o)
      /\ \A i \in 1 .. Len(H) + Len(o) : h[i] = IF i <= Len(H) THEN H[i] ELSE o[i - Len(H)]
  BY <1>2, ConcatProperties
<1> HIDE DEF h
<1>6. k \in 1 .. Len(H) + Len(o) /\ ~ (k <= Len(H)) /\ k - Len(H) = 1 /\ k <= Len(h)
      /\ k \in 1 .. Len(h) + Len(z)
  <2> DEFINE m == Len(H)
             n == Len(s)
             v == Len(z)
  <2>1. m \in Nat /\ n \in Nat /\ v \in Nat /\ Len(o) = 1 + n /\ k = m + 1 /\ Len(h) = m + Len(o)
    BY <1>2, <1>3, <1>5
  <2> HIDE DEF m, n, v, k
  <2>2. /\ k \in 1 .. m + Len(o) /\ ~ (k <= m) /\ k - m = 1 /\ k <= Len(h)
        /\ k \in 1 .. Len(h) + v
    BY <2>1
  <2> QED BY <2>2 DEF m, v
<1>7. h[k] = q BY <1>4, <1>5, <1>6
<1>8. (h \o z)[k] = q
  <2>1. \A i \in 1 .. Len(h) + Len(z) : (h \o z)[i] = IF i <= Len(h) THEN h[i] ELSE z[i - Len(h)]
    BY <1>5, ConcatProperties
  <2> HIDE DEF k
  <2> QED BY <1>6, <1>7, <2>1
<1> QED BY <1>5, <1>7, <1>8 DEF h, o, p

\* An option that takes the command as its value in the line takes what was
\* hoisted as its value from normalize_argv.
LEMMA OptionTakesCommand ==
  ASSUME NEW line \in Seq(Token), NEW f \in 1 .. Len(line), IsWord(line[f]), FirstWord(line) = f,
         f > 1, Asks(line[f - 1]), ~ IsWord(line[f - 1]), ~ IsSeparator(line[f - 1]),
         NEW H \in Seq(Seq(Token)), ReadsAs(SubSeq(line, 1, f - 2), H),
         NEW moved \in Seq(Token), NEW kept \in Seq(Token), Shared(line, f, moved, kept)
  PROVE  Said(line, ParseRoot(SubSeq(line, 1, f - 1) \o (moved \o (<<line[f]>> \o kept))))
<1> DEFINE b == SubSeq(line, 1, f - 1)
           p == SubSeq(line, 1, f - 2)
           a == line[f - 1]
           Y == Past(line, f - 1)
           B == Past(line, f)
           t == line[f]
           r == ParseRoot(line)
           tail == <<t>> \o kept
           argument == b \o (moved \o tail)
<1>1. /\ b \in Seq(Token) /\ p \in Seq(Token) /\ a \in Token /\ t \in Token /\ B \in Seq(Token)
      /\ b = p \o <<a>> /\ Y = <<t>> \o B /\ b \o Y = line
      /\ Len(B) = Len(line) - f
  <2>1. /\ SubSeq(line, 1, f - 1) \in Seq(Token) /\ Past(line, f) \in Seq(Token) /\ line[f] \in Token
        /\ Past(line, f - 1) = <<line[f]>> \o Past(line, f)
        /\ SubSeq(line, 1, f - 1) \o Past(line, f - 1) = line
        /\ Len(Past(line, f)) = Len(line) - f
    BY LineAtAPlace
  <2>2. /\ SubSeq(line, 1, f - 2) \in Seq(Token) /\ line[f - 1] \in Token
        /\ SubSeq(line, 1, f - 1) = SubSeq(line, 1, f - 2) \o <<line[f - 1]>>
    <3>1. f > 1 => /\ SubSeq(line, 1, f - 2) \in Seq(Token) /\ line[f - 1] \in Token
                   /\ SubSeq(line, 1, f - 1) = SubSeq(line, 1, f - 2) \o <<line[f - 1]>>
      BY LineAtAPlace
    <3> QED BY <3>1
  <2> QED BY <2>1, <2>2
<1>2. /\ ReadsAs(p, H) /\ IsWord(t) /\ Asks(a) /\ ~ IsWord(a) /\ ~ IsSeparator(a)
  OBVIOUS
<1>3. FirstWord(line) # 0 /\ FirstWord(line) = f OBVIOUS
<1>4. /\ ~ HasEmptyValue(line) => Sound(B, moved, kept, <<>>)
      /\ MovesSomething(B) => moved # <<>>
      /\ moved # <<>> => moved[1].name \in Valued \union Flags \union Clusters
  BY DEF Shared
<1> HIDE DEF b, p, a, Y, B, t
<1>5. <<a>> \in Seq(Token) /\ <<t>> \in Seq(Token) /\ tail \in Seq(Token)
  <2>1. <<a>> \in Seq(Token) /\ <<t>> \in Seq(Token) BY <1>1
  <2> QED BY <2>1, ConcatProperties
<1>6. ASSUME NEW v \in Token, NEW X \in Seq(Token)
      PROVE  /\ <<a, v>> \in Seq(Token)
             /\ b \o (<<v>> \o X) = p \o (<<a, v>> \o X)
             /\ ParseRoot(b \o (<<v>> \o X)) =
                  Parsed(H \o (<<<<a, v>>>> \o ParseRoot(X).opts), ParseRoot(X).rest, ParseRoot(X).ended)
  <2> DEFINE q == <<a, v>>
             s == q \o X
  <2>1. q \in Seq(Token) /\ Len(q) = 2 /\ q[1] = a /\ q # <<>> BY <1>1
  <2>2. <<v>> \in Seq(Token) /\ q = <<a>> \o <<v>> OBVIOUS
  <2> HIDE DEF q
  <2>3. s \in Seq(Token) BY <2>1, ConcatProperties
  <2>4. b \o (<<v>> \o X) = p \o s
    <3> DEFINE x == <<a>>
               y == <<v>>
    <3>1. x \in Seq(Token) /\ y \in Seq(Token) /\ b = p \o x /\ q = x \o y BY <1>1, <1>5, <2>2
    <3> HIDE DEF x, y
    <3>2. y \o X \in Seq(Token) BY <3>1, ConcatProperties
    <3>3. (p \o x) \o (y \o X) = p \o (x \o (y \o X))
      <4> DEFINE z == y \o X
      <4>1. p \in Seq(Token) BY <1>1
      <4>2. x \in Seq(Token) BY <3>1
      <4>3. z \in Seq(Token) BY <3>2
      <4> HIDE DEF z
      <4>4. \A s3 \in Seq(Token) : (p \o x) \o s3 = p \o (x \o s3)
        BY <4>1, <4>2, TokensAreAssociative, Zenon
      <4> QED BY <4>3, <4>4 DEF z
    <3>4. (x \o y) \o X = x \o (y \o X)
      <4>1. x \in Seq(Token) BY <3>1
      <4>2. y \in Seq(Token) BY <3>1
      <4>3. \A s3 \in Seq(Token) : (x \o y) \o s3 = x \o (y \o s3)
        BY <4>1, <4>2, TokensAreAssociative, Zenon
      <4> QED BY <4>3
    <3> QED BY <3>1, <3>3, <3>4 DEF x, y
  <2>5. ParseRoot(s) = OptionFirst(q, ParseRoot(X))
    <3>1. Len(q) = Width(q, 1) BY <1>2, <2>1 DEF Width
    <3> QED BY <1>2, <2>1, <3>1, OptionReads
  <2>6. ParseRoot(s).opts = <<q>> \o ParseRoot(X).opts /\ ParseRoot(s).rest = ParseRoot(X).rest
        /\ ParseRoot(s).ended = ParseRoot(X).ended
    <3> DEFINE u == ParseRoot(X)
               w == ParseRoot(s)
    <3>1. w = OptionFirst(q, u) BY <2>5
    <3> HIDE DEF u, w
    <3>2. w.opts = <<q>> \o u.opts /\ w.rest = u.rest /\ w.ended = u.ended
      BY <3>1 DEF OptionFirst, Parsed
    <3> QED BY <3>2, Zenon DEF u, w
  <2> HIDE DEF s
  <2>7. ParseRoot(p \o s) = Parsed(H \o ParseRoot(s).opts, ParseRoot(s).rest, ParseRoot(s).ended)
    BY <1>2, <2>3 DEF ReadsAs
  <2>8. ParseRoot(p \o s) = Parsed(H \o (<<q>> \o ParseRoot(X).opts), ParseRoot(X).rest, ParseRoot(X).ended)
    BY <2>6, <2>7
  <2> QED BY <2>1, <2>4, <2>8 DEF q, s
<1> DEFINE inner == ParseRoot(B)
           lead == H \o (<<<<a, t>>>> \o inner.opts)
<1>7. inner.opts \in Seq(Seq(Token)) /\ inner.rest \in Seq(Token) BY <1>1, ParsesAreTyped DEF IsParse
<1>8. r.opts = lead /\ r.rest = inner.rest /\ r.ended = inner.ended
  <2>1. r = Parsed(lead, inner.rest, inner.ended) BY <1>1, <1>6
  <2> HIDE DEF r, lead, inner
  <2> QED BY <2>1 DEF Parsed
<1>9. Len(r.rest) <= Len(line) - f
  <2>1. Len(inner.rest) <= Len(B) BY <1>1, QuietParse
  <2> HIDE DEF r, inner
  <2> QED BY <1>1, <1>8, <2>1
<1>10. ~ ValueTakenForSeparator(line) BY <1>3 DEF ValueTakenForSeparator
<1>11. ValueTakenForCommand(line) <=> MovesSomething(B)
  BY <1>3, <1>9 DEF ValueTakenForCommand, B, Past
<1>12. ASSUME ~ MovesSomething(B), ~ HasEmptyValue(line)
       PROVE  ParseRoot(argument) = Meant(line)
  <2>1. ~ HasEmptyValue(B)
    <3>1. f \in 0 .. Len(line) OBVIOUS
    <3> QED BY <1>12, <3>1, EmptyValueOfRest DEF B
  <2>2. Sorted(B) = Parsed(<<>>, B, FALSE) BY <1>1, <1>12, <2>1, NothingToSort
  <2>3. PICK G \in Seq(Seq(Token)) :
          /\ ReadsAs(moved, G) /\ (G = <<>> => moved = <<>>)
          /\ Sorted(B) = Parsed(G \o Sorted(<<>>).opts, kept \o Sorted(<<>>).rest, Sorted(<<>>).ended)
    BY <1>4, <1>12 DEF Sound
  <2>4. Sorted(<<>>).opts = <<>> /\ Sorted(<<>>).rest = <<>>
    BY SortedOfNothing DEF NothingParsed, Parsed
  <2>5. G \o <<>> = G /\ kept \o <<>> = kept BY ConcatEmptySeq
  <2>6. Parsed(<<>>, B, FALSE) = Parsed(G, kept, Sorted(<<>>).ended) BY <2>2, <2>3, <2>4, <2>5
  <2>7. G = <<>> /\ kept = B BY <2>6 DEF Parsed
  <2>8. moved = <<>> BY <2>3, <2>7
  <2>9. <<>> \o tail = tail BY <1>5, ConcatEmptySeq
  <2>10. argument = line BY <1>1, <2>7, <2>8, <2>9
  <2>11. Quiet(r)
    <3>1. Quiet(inner) BY <1>1, <1>12, QuietParse
    <3> HIDE DEF r, inner
    <3> QED BY <1>8, <3>1 DEF Quiet
  <2>12. Meant(line) = r BY <1>12, <2>11, QuietMeaning
  <2> QED BY <2>10, <2>12
<1>13. ASSUME MovesSomething(B)
       PROVE  ParseRoot(argument) # Meant(line)
  <2> DEFINE v == moved[1]
             X == Past(moved, 1) \o tail
             k == Len(H) + 1
  <2>1. moved # <<>> /\ v.name \in Valued \union Flags \union Clusters BY <1>4, <1>13
  <2>2. v \in Token /\ Past(moved, 1) \in Seq(Token) /\ <<v>> \o Past(moved, 1) = moved
    BY <2>1, FirstAndRest
  <2> HIDE DEF v
  <2>3. X \in Seq(Token) BY <1>5, <2>2, ConcatProperties
  <2>4. moved \o tail = <<v>> \o X
    <3> DEFINE x == <<v>>
               y == Past(moved, 1)
    <3>1. x \in Seq(Token) /\ y \in Seq(Token) /\ moved = x \o y BY <2>2
    <3> HIDE DEF x, y, tail
    <3>2. (x \o y) \o tail = x \o (y \o tail)
      <4>1. x \in Seq(Token) BY <3>1
      <4>2. y \in Seq(Token) BY <3>1
      <4>3. tail \in Seq(Token) BY <1>5
      <4>4. \A s3 \in Seq(Token) : (x \o y) \o s3 = x \o (y \o s3)
        BY <4>1, <4>2, TokensAreAssociative, Zenon
      <4> QED BY <4>3, <4>4, Zenon
    <3> QED BY <3>1, <3>2 DEF x, y
  <2> HIDE DEF X, tail
  <2> DEFINE o == ParseRoot(X).opts
  <2>5. o \in Seq(Seq(Token)) BY <2>3, ParsesAreTyped DEF IsParse
  <2>6. ParseRoot(argument).opts = H \o (<<<<a, v>>>> \o o) /\ <<a, v>> \in Seq(Token)
    <3>1. /\ <<a, v>> \in Seq(Token)
          /\ ParseRoot(argument) = Parsed(H \o (<<<<a, v>>>> \o o), ParseRoot(X).rest, ParseRoot(X).ended)
      BY <1>6, <2>2, <2>3, <2>4
    <3> DEFINE w == H \o (<<<<a, v>>>> \o o)
               u == ParseRoot(argument)
    <3>2. u = Parsed(w, ParseRoot(X).rest, ParseRoot(X).ended) BY <3>1
    <3> HIDE DEF w, u
    <3>3. u.opts = w BY <3>2 DEF Parsed
    <3> QED BY <3>1, <3>3 DEF w, u
  <2> HIDE DEF o
  <2>7. ParseRoot(argument).opts[k] = <<a, v>>
    <3> DEFINE q == <<a, v>>
    <3>1. q \in Seq(Token) BY <2>6
    <3> HIDE DEF q
    <3>2. (H \o (<<q>> \o o))[k] = q BY <2>5, <3>1, OptionAt
    <3> QED BY <2>6, <3>2 DEF q
  <2>8. Meant(line).opts[k] = <<a, t>>
    <3> DEFINE q == <<a, t>>
               i == inner.opts
    <3>1. q \in Seq(Token) /\ i \in Seq(Seq(Token)) BY <1>1, <1>7
    <3> HIDE DEF q, i
    <3>2. /\ (H \o (<<q>> \o i))[k] = q
          /\ \A z \in Seq(Seq(Token)) : ((H \o (<<q>> \o i)) \o z)[k] = q
      BY <3>1, OptionAt
    <3>3. r.opts = H \o (<<q>> \o i) BY <1>8 DEF q, i
    <3>4. CASE r.ended \/ r.rest = <<>>
      <4>1. Meant(line) = r BY <3>4, MeaningOfLine
      <4> QED BY <3>2, <3>3, <4>1 DEF q
    <3>5. CASE ~ r.ended /\ r.rest # <<>>
      <4> DEFINE Z == Past(r.rest, 1)
                 z == Sorted(Z).opts
                 rest == <<r.rest[1]>> \o Sorted(Z).rest
      <4>1. Meant(line) = Parsed(r.opts \o z, rest, FALSE) BY <3>5, MeaningOfLine
      <4>2. Z \in Seq(Token)
        <5> DEFINE y == r.rest
        <5>1. y \in Seq(Token) /\ y # <<>> BY <1>7, <1>8, <3>5
        <5> HIDE DEF y
        <5>2. Past(y, 1) \in Seq(Token) BY <5>1, FirstAndRest
        <5> QED BY <5>2 DEF y
      <4> HIDE DEF r, Z
      <4>3. z \in Seq(Seq(Token)) BY <4>2, SortedIsTyped DEF IsParse
      <4> HIDE DEF z, rest
      <4>4. Meant(line).opts = r.opts \o z BY <4>1 DEF Parsed
      <4> QED BY <3>2, <3>3, <4>3, <4>4 DEF q
    <3> QED BY <3>4, <3>5
  <2>9. v # t
    <3>1. ~ IsWord(v) BY <2>1, OptionsAreNoWords
    <3> QED BY <1>2, <3>1
  <2>10. <<a, v>> # <<a, t>> BY <2>9
  <2> QED BY <2>7, <2>8, <2>10
<1>14. Said(line, ParseRoot(argument)) BY <1>10, <1>11, <1>12, <1>13 DEF Said
<1> QED BY <1>14 DEF b, t

\* A line that normalize_argv has put together again
LEMMA MovedLineIsSaid ==
  ASSUME NEW line \in Seq(Token), FirstWord(line) # 0,
         NEW moved \in Seq(Token), NEW kept \in Seq(Token),
         Shared(line, FirstWord(line), moved, kept)
  PROVE  Said(line, ParseRoot(SubSeq(line, 1, FirstWord(line) - 1) \o moved
                                \o <<line[FirstWord(line)]>> \o kept))
<1> DEFINE f == FirstWord(line)
           b == SubSeq(line, 1, f - 1)
           t == <<line[f]>>
<1>1. /\ f \in 1 .. Len(line) /\ IsWord(line[f])
      /\ \A i \in 1 .. f - 1 : ~ IsWord(line[i]) /\ ~ IsSeparator(line[i])
  BY FirstWordIsFirst
<1>2. FirstWord(line) = f /\ Shared(line, f, moved, kept) OBVIOUS
<1> HIDE DEF f
<1>3. b \in Seq(Token) /\ line[f] \in Token BY <1>1, LineAtAPlace
<1>4. ((b \o moved) \o t) \o kept = b \o (moved \o (t \o kept))
  <2>1. t \in Seq(Token) BY <1>3
  <2>2. b \in Seq(Token) BY <1>3
  <2> HIDE DEF t, b
  <2>3. t \o kept \in Seq(Token) /\ b \o moved \in Seq(Token) BY <2>1, <2>2, ConcatProperties
  <2>4. t \o kept \in Seq(Token) BY <2>3
  <2>5. b \o moved \in Seq(Token) BY <2>3
  <2>6. ((b \o moved) \o t) \o kept = (b \o moved) \o (t \o kept)
    BY <2>1, <2>5, TokensAreAssociative, Zenon
  <2>7. (b \o moved) \o (t \o kept) = b \o (moved \o (t \o kept))
    BY <2>2, <2>4, TokensAreAssociative, Zenon
  <2> QED BY <2>6, <2>7
<1>5. Said(line, ParseRoot(b \o (moved \o (t \o kept))))
  <2>1. CASE \E H \in Seq(Seq(Token)) : ReadsAs(b, H)
    <3>1. PICK H \in Seq(Seq(Token)) : ReadsAs(b, H) BY <2>1
    <3> QED BY <1>1, <1>2, <3>1, OptionsThenCommand
  <2>2. CASE f > 1 /\ Asks(line[f - 1]) /\ \E H \in Seq(Seq(Token)) : ReadsAs(SubSeq(line, 1, f - 2), H)
    <3>1. PICK H \in Seq(Seq(Token)) : ReadsAs(SubSeq(line, 1, f - 2), H) BY <2>2
    <3>2. f - 1 \in 1 .. f - 1 BY <1>1, <2>2
    <3>3. ~ IsWord(line[f - 1]) /\ ~ IsSeparator(line[f - 1]) BY <1>1, <3>2
    <3> QED BY <1>1, <1>2, <2>2, <3>1, <3>3, OptionTakesCommand
  <2> QED BY <1>1, <2>1, <2>2, FrontOfLine
<1> QED BY <1>4, <1>5 DEF f

-----------------------------------------------------------------------------
(* While the loop runs, hoisted, remaining and what is left mean what the     *)
(* words after the command mean; what comes out says what the line says.      *)

LoopMeans ==
  LET own == Past(typed, FirstWord(typed))
  IN /\ FirstWord(typed) # 0
     /\ before = SubSeq(typed, 1, FirstWord(typed) - 1)
     /\ subcommand = typed[FirstWord(typed)]
     /\ ~ HasEmptyValue(typed) => ~ HasEmptyValue(after) /\ Sound(own, hoisted, remaining, after)
     /\ MovesSomething(own) => hoisted # <<>> \/ MovesSomething(after)
     /\ hoisted # <<>> => hoisted[1].name \in Valued \union Flags \union Clusters

MeansInv ==
  /\ pc \in {"find", "scan", "parse"} => parsed = NothingParsed
  /\ pc = "scan" => LoopMeans
  /\ pc = "parse" => Said(typed, ParseRoot(argv))
  /\ pc \notin {"find", "scan", "parse"} => parsed = NothingParsed \/ Said(typed, parsed)

LEMMA MeansInvInitially == Init => MeansInv
BY DEF Init, MeansInv

LEMMA SplitKeepsMeansInv ==
  ASSUME LineInv, MeansInv, NothingToMove \/ FindSubcommand
  PROVE  MeansInv'
<1>1. typed \in Seq(Token) /\ pc = "find" /\ parsed = NothingParsed /\ hoisted = <<>> /\ remaining = <<>>
  BY LinesAreSequences DEF LineInv, TypedLine, SplitLine, MeansInv, NothingToMove, FindSubcommand
<1>2. CASE NothingToMove
  <2>1. /\ FirstWord(typed) = 0 /\ argv' = typed /\ typed' = typed /\ pc' = "parse"
        /\ parsed' = NothingParsed
    BY <1>1, <1>2 DEF NothingToMove
  <2>2. Said(typed, ParseRoot(typed)) BY <1>1, <2>1, UnmovedLineIsSaid
  <2> QED BY <2>1, <2>2 DEF MeansInv
<1>3. CASE FindSubcommand
  <2> DEFINE f == FirstWord(typed)
             own == Past(typed, f)
  <2>1. /\ f # 0 /\ typed' = typed /\ pc' = "scan" /\ parsed' = NothingParsed
        /\ before' = SubSeq(typed, 1, f - 1) /\ subcommand' = typed[f] /\ after' = own
        /\ hoisted' = <<>> /\ remaining' = <<>>
    BY <1>1, <1>3 DEF FindSubcommand, Past
  <2>2. f \in 0 .. Len(typed) BY <1>1, FirstWordIsAPlace
  <2> HIDE DEF f
  <2>3. own \in Seq(Token) BY <1>1, <2>2, RestOfALine
  <2>4. ~ HasEmptyValue(typed) => ~ HasEmptyValue(own) BY <1>1, <2>2, EmptyValueOfRest
  <2>5. Sound(own, <<>>, <<>>, own) BY <2>3, SoundAtFirst
  <2>6. LoopMeans' BY <2>1, <2>4, <2>5 DEF LoopMeans, f
  <2> QED BY <2>1, <2>6 DEF MeansInv
<1> QED BY <1>2, <1>3

\* The first of what was hoisted stays the first.
LEMMA FirstStaysFirst ==
  ASSUME NEW moved \in Seq(Token), NEW q \in Seq(Token), q # <<>>
  PROVE  /\ moved \o q # <<>>
         /\ (moved \o q)[1] = IF moved = <<>> THEN q[1] ELSE moved[1]
<1> DEFINE s == moved \o q
           m == Len(moved)
           n == Len(q)
<1>1. /\ s \in Seq(Token) /\ Len(s) = m + n
      /\ \A i \in 1 .. m + n : s[i] = IF i <= m THEN moved[i] ELSE q[i - m]
  BY ConcatProperties
<1>2. m \in Nat /\ n \in Nat /\ n >= 1 /\ (moved = <<>> <=> m = 0)
  <2>1. Len(q) \in Nat \ {0} BY EmptySeq
  <2>2. moved = <<>> <=> m = 0 BY EmptySeq
  <2> QED BY <2>1, <2>2
<1>3. s # <<>>
  <2>1. Len(<<>>) = 0 OBVIOUS
  <2> HIDE DEF s, m, n
  <2> QED BY <1>1, <1>2, <2>1
<1> HIDE DEF s, m, n
<1>4. 1 \in 1 .. m + n /\ (m = 0 => ~ (1 <= m) /\ 1 - m = 1) /\ (m # 0 => 1 <= m) BY <1>2
<1>5. s[1] = IF moved = <<>> THEN q[1] ELSE moved[1] BY <1>1, <1>2, <1>4
<1> QED BY <1>3, <1>5 DEF s

LEMMA TurnKeepsMeansInv ==
  ASSUME LineInv, MeansInv, HoistOption \/ KeepToken \/ StopAtSeparator
  PROVE  MeansInv'
<1> DEFINE f == FirstWord(typed)
           own == Past(typed, f)
<1>1. /\ typed \in Seq(Token) /\ after \in Seq(Token) /\ hoisted \in Seq(Token) /\ remaining \in Seq(Token)
      /\ pc = "scan" /\ after # <<>> /\ parsed = NothingParsed /\ LoopMeans
  BY LinesAreSequences
  DEF LineInv, TypedLine, MeansInv, HoistOption, KeepToken, StopAtSeparator, Scanning
<1>2. /\ f # 0 /\ before = SubSeq(typed, 1, f - 1) /\ subcommand = typed[f]
      /\ ~ HasEmptyValue(typed) => ~ HasEmptyValue(after) /\ Sound(own, hoisted, remaining, after)
      /\ MovesSomething(own) => hoisted # <<>> \/ MovesSomething(after)
      /\ hoisted # <<>> => hoisted[1].name \in Valued \union Flags \union Clusters
  BY <1>1 DEF LoopMeans
<1>3. UNCHANGED <<typed, pc, before, subcommand, argv, parsed>>
  BY DEF HoistOption, KeepToken, StopAtSeparator
<1>4. own \in Seq(Token)
  <2>1. f \in 0 .. Len(typed) BY <1>1, FirstWordIsAPlace
  <2> HIDE DEF f
  <2> QED BY <1>1, <2>1, RestOfALine
<1>5. /\ Len(after) \in Nat /\ Len(after) >= 1 /\ Head(after) = after[1] /\ after[1] \in Token
  BY <1>1, FirstAndRest
<1> HIDE DEF f, own
<1>6. ASSUME ~ HasEmptyValue(typed) => ~ HasEmptyValue(after') /\ Sound(own, hoisted', remaining', after'),
             MovesSomething(own) => hoisted' # <<>> \/ MovesSomething(after'),
             hoisted' # <<>> => hoisted'[1].name \in Valued \union Flags \union Clusters
      PROVE  MeansInv'
  <2>1. LoopMeans' BY <1>2, <1>3, <1>6 DEF LoopMeans, f, own
  <2> QED BY <1>1, <1>3, <2>1 DEF MeansInv
<1>7. CASE HoistOption
  <2> DEFINE c == Consumed(after)
             q == SubSeq(after, 1, c)
  <2>1. /\ ~ IsSeparator(after[1]) /\ IsGlobal(after)
        /\ hoisted' = hoisted \o q /\ remaining' = remaining /\ after' = Past(after, c)
    BY <1>5, <1>7 DEF HoistOption, Take, Past
  <2>2. c \in 0 .. Len(after) /\ c >= 1 /\ c \in Nat /\ c <= Len(after)
    <3>1. c \in 1 .. Len(after) BY <1>1, ConsumedIsThere
    <3> HIDE DEF c
    <3> QED BY <1>5, <3>1
  <2>3. ~ HasEmptyValue(typed) => ~ HasEmptyValue(after') /\ Sound(own, hoisted', remaining', after')
    <3> HAVE ~ HasEmptyValue(typed)
    <3>1. ~ HasEmptyValue(after) /\ Sound(own, hoisted, remaining, after) BY <1>2
    <3>2. ~ HasEmptyValue(Past(after, c)) BY <1>1, <2>2, <3>1, EmptyValueOfRest
    <3>3. Sound(own, hoisted \o q, remaining, Past(after, c))
      BY <1>1, <1>4, <2>1, <3>1, HoistIsSound
    <3> QED BY <2>1, <3>2, <3>3
  <2> HIDE DEF c
  <2>4. q \in Seq(Token) /\ q # <<>> /\ q[1] = after[1]
    <3>1. \A i \in 1 .. Len(after) : after[i] \in Token BY <1>1, ElementOfSeq
    <3>2. \A i \in 1 .. c : after[i] \in Token
      <4>1. \A i \in 1 .. c : i \in 1 .. Len(after) BY <1>5, <2>2
      <4> QED BY <3>1, <4>1
    <3>3. c \in Int /\ 1 <= c /\ c - 1 + 1 = c /\ 1 \in 1 .. c - 1 + 1 /\ 1 + 1 - 1 = 1 BY <2>2
    <3>4. /\ q \in Seq(Token) /\ Len(q) = IF 1 <= c THEN c - 1 + 1 ELSE 0
          /\ \A i \in 1 .. c - 1 + 1 : q[i] = after[1 + i - 1]
      BY <3>2, <3>3, SubSeqProperties
    <3>5. Len(<<>>) = 0 OBVIOUS
    <3> HIDE DEF q
    <3> QED BY <2>2, <3>3, <3>4, <3>5
  <2> HIDE DEF q
  <2>5. hoisted' # <<>> /\ hoisted'[1] = IF hoisted = <<>> THEN after[1] ELSE hoisted[1]
    BY <1>1, <2>1, <2>4, FirstStaysFirst
  <2>6. after[1].name \in Valued \union Flags \union Clusters BY <1>5, <2>1 DEF IsGlobal
  <2>7. hoisted'[1].name \in Valued \union Flags \union Clusters BY <1>2, <2>5, <2>6
  <2> QED BY <1>6, <2>3, <2>5, <2>7
<1>8. CASE KeepToken
  <2>1. /\ ~ IsSeparator(after[1]) /\ ~ IsGlobal(after)
        /\ hoisted' = hoisted /\ remaining' = remaining \o <<after[1]>> /\ after' = Past(after, 1)
    <3>1. Append(remaining, after[1]) = remaining \o <<after[1]>> BY <1>1, <1>5, AppendIsConcat
    <3> QED BY <1>5, <1>8, <3>1 DEF KeepToken, Take, Past
  <2>2. ~ HasEmptyValue(typed) => ~ HasEmptyValue(after') /\ Sound(own, hoisted', remaining', after')
    <3> HAVE ~ HasEmptyValue(typed)
    <3>1. ~ HasEmptyValue(after) /\ Sound(own, hoisted, remaining, after) BY <1>2
    <3>2. 1 \in 0 .. Len(after) BY <1>5
    <3>3. ~ HasEmptyValue(Past(after, 1)) BY <1>1, <3>1, <3>2, EmptyValueOfRest
    <3>4. Sound(own, hoisted, remaining \o <<after[1]>>, Past(after, 1))
      BY <1>1, <1>4, <2>1, <3>1, KeepIsSound
    <3> QED BY <2>1, <3>3, <3>4
  <2>3. MovesSomething(own) => hoisted' # <<>> \/ MovesSomething(after')
    BY <1>1, <1>2, <2>1, KeepLeavesMovers
  <2>4. hoisted' # <<>> => hoisted'[1].name \in Valued \union Flags \union Clusters BY <1>2, <2>1
  <2> QED BY <1>6, <2>2, <2>3, <2>4
<1>9. CASE StopAtSeparator
  <2>1. /\ IsSeparator(after[1])
        /\ hoisted' = hoisted /\ remaining' = remaining \o after /\ after' = <<>>
    BY <1>5, <1>9 DEF StopAtSeparator
  <2>2. ~ HasEmptyValue(typed) => ~ HasEmptyValue(after') /\ Sound(own, hoisted', remaining', after')
    <3> HAVE ~ HasEmptyValue(typed)
    <3>1. Sound(own, hoisted, remaining, after) BY <1>2
    <3>2. Sound(own, hoisted, remaining \o after, <<>>) BY <1>1, <1>4, <2>1, <3>1, StopIsSound
    <3>3. ~ HasEmptyValue(<<>>) BY DEF HasEmptyValue
    <3> QED BY <2>1, <3>2, <3>3
  <2>3. ~ MovesSomething(after) BY <1>1, <2>1, KeepLeavesMovers
  <2>4. hoisted' # <<>> => hoisted'[1].name \in Valued \union Flags \union Clusters BY <1>2, <2>1
  <2>5. MovesSomething(own) => hoisted' # <<>> \/ MovesSomething(after') BY <1>2, <2>1, <2>3
  <2> QED BY <1>6, <2>2, <2>4, <2>5
<1> QED BY <1>7, <1>8, <1>9

LEMMA AssembleKeepsMeansInv ==
  ASSUME LineInv, MeansInv, Assemble
  PROVE  MeansInv'
<1> DEFINE f == FirstWord(typed)
<1>1. /\ typed \in Seq(Token) /\ hoisted \in Seq(Token) /\ remaining \in Seq(Token)
      /\ pc = "scan" /\ after = <<>> /\ parsed = NothingParsed /\ LoopMeans
  BY LinesAreSequences DEF LineInv, TypedLine, MeansInv, Assemble
<1>2. /\ typed' = typed /\ parsed' = parsed /\ pc' = "parse"
      /\ argv' = before \o hoisted \o <<subcommand>> \o remaining
  BY DEF Assemble
<1>3. /\ f # 0 /\ before = SubSeq(typed, 1, f - 1) /\ subcommand = typed[f]
      /\ ~ HasEmptyValue(typed) => Sound(Past(typed, f), hoisted, remaining, <<>>)
      /\ MovesSomething(Past(typed, f)) => hoisted # <<>> \/ MovesSomething(<<>>)
      /\ hoisted # <<>> => hoisted[1].name \in Valued \union Flags \union Clusters
  BY <1>1 DEF LoopMeans
<1>4. Shared(typed, f, hoisted, remaining) BY <1>3, NothingMovesNothing DEF Shared
<1>5. Said(typed, ParseRoot(SubSeq(typed, 1, f - 1) \o hoisted \o <<typed[f]>> \o remaining))
  BY <1>1, <1>3, <1>4, MovedLineIsSaid
<1>6. Said(typed, ParseRoot(argv'))
  <2> HIDE DEF f
  <2> QED BY <1>2, <1>3, <1>5
<1> QED BY <1>1, <1>2, <1>6 DEF MeansInv

LEMMA MeansInvIsInductive ==
  ASSUME LineInv, MeansInv, [Next]_vars
  PROVE  MeansInv'
<1>1. CASE UNCHANGED vars
  BY <1>1 DEF vars, split, MeansInv, LoopMeans
<1>2. CASE NothingToMove \/ FindSubcommand BY <1>2, SplitKeepsMeansInv
<1>3. CASE HoistOption \/ KeepToken \/ StopAtSeparator BY <1>3, TurnKeepsMeansInv
<1>4. CASE Assemble BY <1>4, AssembleKeepsMeansInv
<1>5. CASE Parse
  <2>1. /\ pc = "parse" /\ pc' \in {"done", "callback", "resolve"} /\ typed' = typed
        /\ parsed' = ParseRoot(argv)
    BY <1>5 DEF Parse, Exit
  <2> QED BY <2>1 DEF MeansInv
<1>6. CASE \/ ResolveBuiltin \/ ResolvePlugin \/ UnknownCommand \/ CallbackFails
           \/ ParseArguments \/ RunBuiltin \/ RunPlugin \/ Interrupt \/ BuildContext
  <2>1. /\ typed' = typed /\ parsed' = parsed /\ pc' \in {"callback", "run", "done", "arguments"}
        /\ (pc \notin {"find", "scan", "parse"} \/ parsed = NothingParsed)
    BY <1>6
    DEF ResolveBuiltin, ResolvePlugin, UnknownCommand, CallbackFails, ParseArguments, RunBuiltin,
        RunPlugin, Interrupt, BuildContext, Exit, MeansInv
  <2> QED BY <2>1 DEF MeansInv
<1> QED BY <1>1, <1>2, <1>3, <1>4, <1>5, <1>6 DEF Next, Work

\* argv_normalize.py and the group of app.py, whatever is typed: what Click
\* reads is what the line says, with options before or behind the command. It
\* never is where the value of a leading option is taken for the command or for
\* "--" and something could be moved, and may not be with an empty --option=.
THEOREM WhatIsReadIsWhatWasTyped == Spec => []MeansWhatWasTyped
<1>1. LineInv /\ MeansInv /\ [Next]_vars => MeansInv' BY MeansInvIsInductive
<1>2. MeansInv => MeansWhatWasTyped
  BY DEF MeansInv, MeansWhatWasTyped, IsParsed, Said
<1> QED BY <1>1, <1>2, MeansInvInitially, LineInvHolds, PTL DEF Spec
=============================================================================
