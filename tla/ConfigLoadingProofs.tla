------------------------- MODULE ConfigLoadingProofs -------------------------
(* What bcs validate and bcs version do with any documents, overrides and    *)
(* files, and however often the files change meanwhile.                      *)
EXTENDS ConfigLoading, SequenceTheorems, WellFoundedInduction, TLAPS

Paths == Seq(STRING)

-----------------------------------------------------------------------------
(* Paths and their prefixes *)

LEMMA PrefixMeans ==
  ASSUME NEW s \in Paths, NEW t \in Paths
  PROVE  IsPrefix(s, t) <=> Len(s) <= Len(t) /\ \A i \in 1 .. Len(s) : s[i] = t[i]
<1> DEFINE n == Len(s)
<1>1. n \in Nat /\ Len(t) \in Nat BY DEF Paths
<1>2. CASE n <= Len(t)
  <2>1. /\ \A i \in 1 .. n : s[i] \in STRING
        /\ \A i \in 1 .. n : t[i] \in STRING
    BY <1>1, <1>2, ElementOfSeq DEF Paths
  <2>2. /\ SubSeq(s, 1, n) \in Paths /\ Len(SubSeq(s, 1, n)) = n
        /\ \A i \in 1 .. n : SubSeq(s, 1, n)[i] = s[i]
    BY <1>1, <2>1, SubSeqProperties DEF Paths
  <2>3. /\ SubSeq(t, 1, n) \in Paths /\ Len(SubSeq(t, 1, n)) = n
        /\ \A i \in 1 .. n : SubSeq(t, 1, n)[i] = t[i]
    BY <1>1, <2>1, SubSeqProperties DEF Paths
  <2>4. SubSeq(s, 1, n) = SubSeq(t, 1, n) <=> \A i \in 1 .. n : s[i] = t[i]
    BY <2>2, <2>3, SeqEqual DEF Paths
  <2> QED BY <1>2, <2>4 DEF IsPrefix
<1>3. CASE ~ n <= Len(t) BY <1>3 DEF IsPrefix
<1> QED BY <1>2, <1>3

LEMMA PrefixesAreOrdered ==
  ASSUME NEW s \in Paths, NEW t \in Paths
  PROVE  /\ IsPrefix(s, s) /\ IsPrefix(<<>>, s)
         /\ IsPrefix(s, t) /\ IsPrefix(t, s) => s = t
<1>1. <<>> \in Paths /\ Len(<<>>) = 0 /\ Len(s) \in Nat BY DEF Paths
<1>2. IsPrefix(s, s) /\ IsPrefix(<<>>, s)
  <2>1. Len(s) <= Len(s) /\ Len(<<>>) <= Len(s) /\ \A i \in 1 .. Len(<<>>) : <<>>[i] = s[i]
    BY <1>1
  <2> QED BY <1>1, <2>1, PrefixMeans
<1>3. ASSUME IsPrefix(s, t), IsPrefix(t, s)
      PROVE  s = t
  <2>1. Len(s) \in Nat /\ Len(t) \in Nat BY DEF Paths
  <2>2. Len(s) = Len(t) /\ \A i \in 1 .. Len(s) : s[i] = t[i] BY <1>3, <2>1, PrefixMeans
  <2> QED BY <2>2, SeqEqual DEF Paths
<1> QED BY <1>2, <1>3

LEMMA PrefixesAreTransitive ==
  ASSUME NEW s \in Paths, NEW t \in Paths, NEW u \in Paths, IsPrefix(s, t), IsPrefix(t, u)
  PROVE  IsPrefix(s, u)
<1>1. Len(s) \in Nat /\ Len(t) \in Nat /\ Len(u) \in Nat BY DEF Paths
<1>2. Len(s) <= Len(t) /\ Len(t) <= Len(u) BY PrefixMeans
<1>3. \A i \in 1 .. Len(s) : s[i] = u[i] BY <1>1, <1>2, PrefixMeans
<1> QED BY <1>1, <1>2, <1>3, PrefixMeans

LEMMA PrefixesOfOnePath ==
  ASSUME NEW s \in Paths, NEW t \in Paths, NEW u \in Paths, IsPrefix(s, u), IsPrefix(t, u)
  PROVE  IsPrefix(s, t) \/ IsPrefix(t, s)
<1>1. Len(s) \in Nat /\ Len(t) \in Nat /\ Len(u) \in Nat BY DEF Paths
<1>2. CASE Len(s) <= Len(t)
  <2>1. \A i \in 1 .. Len(s) : s[i] = t[i] BY <1>1, <1>2, PrefixMeans
  <2> QED BY <1>2, <2>1, PrefixMeans
<1>3. CASE Len(t) <= Len(s)
  <2>1. \A i \in 1 .. Len(t) : t[i] = s[i] BY <1>1, <1>3, PrefixMeans
  <2> QED BY <1>3, <2>1, PrefixMeans
<1> QED BY <1>1, <1>2, <1>3

\* The first n keys of a path
LEMMA Beginnings ==
  ASSUME NEW s \in Paths, NEW n \in 0 .. Len(s)
  PROVE  /\ SubSeq(s, 1, n) \in Paths /\ Len(SubSeq(s, 1, n)) = n
         /\ \A i \in 1 .. n : SubSeq(s, 1, n)[i] = s[i]
         /\ IsPrefix(SubSeq(s, 1, n), s)
<1>1. Len(s) \in Nat /\ n \in Nat /\ n <= Len(s) BY DEF Paths
<1>2. \A i \in 1 .. n : s[i] \in STRING BY <1>1, ElementOfSeq DEF Paths
<1>3. /\ SubSeq(s, 1, n) \in Paths /\ Len(SubSeq(s, 1, n)) = n
      /\ \A i \in 1 .. n : SubSeq(s, 1, n)[i] = s[i]
  BY <1>1, <1>2, SubSeqProperties DEF Paths
<1> QED BY <1>1, <1>3, PrefixMeans

\* The maps that set_by_path makes on its way are the strict prefixes of the path.
LEMMA TheWay ==
  ASSUME NEW path \in Paths
  PROVE  {SubSeq(path, 1, i) : i \in 0 .. Len(path) - 1} = {p \in Paths : IsStrictPrefix(p, path)}
<1>1. Len(path) \in Nat BY DEF Paths
<1>2. ASSUME NEW i \in 0 .. Len(path) - 1
      PROVE  SubSeq(path, 1, i) \in Paths /\ IsStrictPrefix(SubSeq(path, 1, i), path)
  <2>1. i \in 0 .. Len(path) /\ i # Len(path) BY <1>1
  <2> QED BY <2>1, Beginnings DEF IsStrictPrefix
<1>3. ASSUME NEW p \in Paths, IsStrictPrefix(p, path)
      PROVE  Len(p) \in 0 .. Len(path) - 1 /\ p = SubSeq(path, 1, Len(p))
  <2>1. IsPrefix(p, path) /\ p # path BY <1>3 DEF IsStrictPrefix
  <2>2. Len(p) \in Nat BY DEF Paths
  <2>3. Len(p) <= Len(path) /\ \A i \in 1 .. Len(p) : p[i] = path[i] BY <2>1, PrefixMeans
  <2>4. Len(p) # Len(path) BY <2>1, <2>3, SeqEqual DEF Paths
  <2>5. Len(p) \in 0 .. Len(path) - 1 /\ Len(p) \in 0 .. Len(path) BY <1>1, <2>2, <2>3, <2>4
  <2>6. /\ SubSeq(path, 1, Len(p)) \in Paths /\ Len(SubSeq(path, 1, Len(p))) = Len(p)
        /\ \A i \in 1 .. Len(p) : SubSeq(path, 1, Len(p))[i] = path[i]
    BY <2>5, Beginnings
  <2> QED BY <2>3, <2>5, <2>6, SeqEqual DEF Paths
<1> QED BY <1>2, <1>3

\* Front is the longest strict prefix.
LEMMA FrontIsNearest ==
  ASSUME NEW p \in Paths, p # <<>>
  PROVE  /\ Front(p) \in Paths /\ Len(Front(p)) = Len(p) - 1 /\ IsStrictPrefix(Front(p), p)
         /\ \A q \in Paths : IsStrictPrefix(q, p) => IsPrefix(q, Front(p))
<1>1. Len(p) \in Nat /\ Len(p) # 0 BY DEF Paths
<1>2. Len(p) - 1 \in 0 .. Len(p) BY <1>1
<1>3. /\ Front(p) \in Paths /\ Len(Front(p)) = Len(p) - 1 /\ IsPrefix(Front(p), p)
      /\ \A i \in 1 .. Len(p) - 1 : Front(p)[i] = p[i]
  BY <1>2, Beginnings DEF Front
<1>4. IsStrictPrefix(Front(p), p) BY <1>1, <1>3 DEF IsStrictPrefix
<1>5. ASSUME NEW q \in Paths, IsStrictPrefix(q, p)
      PROVE  IsPrefix(q, Front(p))
  <2>1. Len(q) \in Nat /\ Len(q) <= Len(p) /\ (\A i \in 1 .. Len(q) : q[i] = p[i]) /\ q # p
    BY <1>5, PrefixMeans DEF IsStrictPrefix, Paths
  <2>2. Len(q) # Len(p) BY <2>1, SeqEqual DEF Paths
  <2>3. Len(q) <= Len(p) - 1 BY <1>1, <2>1, <2>2
  <2>4. \A i \in 1 .. Len(q) : q[i] = Front(p)[i] BY <1>1, <1>3, <2>1, <2>3
  <2> QED BY <1>3, <2>3, <2>4, PrefixMeans
<1> QED BY <1>3, <1>4, <1>5

-----------------------------------------------------------------------------
(* Documents *)

IsTree(doc) == IsDocument(doc) /\ DOMAIN doc \subseteq Paths

\* What set_by_path leaves: its value, the maps on the way, and what was there
\* before and is not below the path.
LEMMA WhatIsSet ==
  ASSUME NEW doc, DOMAIN doc \subseteq Paths, NEW path \in Paths, NEW value, NEW p \in Paths
  PROVE  LET new == SetByPath(doc, path, value)
         IN /\ p \in DOMAIN new <=>
                 p = path \/ IsStrictPrefix(p, path) \/ (p \in DOMAIN doc /\ ~ IsPrefix(path, p))
            /\ p = path => new[p] = value
            /\ IsStrictPrefix(p, path) => new[p] = Map
            /\ p \in DOMAIN new /\ p # path /\ ~ IsStrictPrefix(p, path) => new[p] = doc[p]
            /\ DOMAIN new \subseteq Paths
<1> DEFINE way == {q \in Paths : IsStrictPrefix(q, path)}
           new == SetByPath(doc, path, value)
           all == {path} \union way \union (DOMAIN doc \ Below(doc, path))
<1>1. new = [q \in all |-> IF q = path THEN value ELSE IF q \in way THEN Map ELSE doc[q]]
  BY TheWay DEF SetByPath
<1>2. way \subseteq Paths /\ path \notin way BY DEF IsStrictPrefix
<1>3. p \in way <=> IsStrictPrefix(p, path) OBVIOUS
<1>4. p \in all <=> p = path \/ IsStrictPrefix(p, path) \/ (p \in DOMAIN doc /\ ~ IsPrefix(path, p))
  BY <1>3 DEF Below
<1>5. DOMAIN new = all /\ all \subseteq Paths BY <1>1, <1>2
<1>6. p \in all => new[p] = IF p = path THEN value ELSE IF p \in way THEN Map ELSE doc[p] BY <1>1
<1>7. IsStrictPrefix(p, path) => p # path BY DEF IsStrictPrefix
<1> HIDE DEF new, way, all
<1>8. /\ p \in DOMAIN new <=>
           p = path \/ IsStrictPrefix(p, path) \/ (p \in DOMAIN doc /\ ~ IsPrefix(path, p))
      /\ DOMAIN new \subseteq Paths
  BY <1>4, <1>5
<1>9. p = path => new[p] = value BY <1>4, <1>6
<1>10. IsStrictPrefix(p, path) => new[p] = Map BY <1>3, <1>4, <1>6, <1>7
<1>11. p \in DOMAIN new /\ p # path /\ ~ IsStrictPrefix(p, path) => new[p] = doc[p]
  BY <1>3, <1>5, <1>6
<1> QED BY <1>8, <1>9, <1>10, <1>11 DEF new

\* A document stays one: every path in it has all of its prefixes, as maps.
LEMMA DocumentsStayTrees ==
  ASSUME NEW doc, IsTree(doc), NEW path \in Paths, path # <<>>, NEW value, value.kind \in Kinds
  PROVE  IsTree(SetByPath(doc, path, value))
<1> DEFINE new == SetByPath(doc, path, value)
<1>1. DOMAIN doc \subseteq Paths /\ IsDocument(doc) BY DEF IsTree
<1>2. <<>> \in Paths BY DEF Paths
<1>3. \A p \in Paths :
        /\ p \in DOMAIN new <=>
             p = path \/ IsStrictPrefix(p, path) \/ (p \in DOMAIN doc /\ ~ IsPrefix(path, p))
        /\ p = path => new[p] = value
        /\ IsStrictPrefix(p, path) => new[p] = Map
        /\ p \in DOMAIN new /\ p # path /\ ~ IsStrictPrefix(p, path) => new[p] = doc[p]
  BY <1>1, WhatIsSet
<1>4. DOMAIN new \subseteq Paths BY <1>1, <1>2, WhatIsSet
<1>5. Map.kind = "map" /\ "map" \in Kinds BY DEF Map, Val, Kinds
<1> HIDE DEF new
<1>6. <<>> \in DOMAIN new BY <1>2, <1>3, PrefixesAreOrdered DEF IsStrictPrefix
<1>7. ASSUME NEW p \in DOMAIN new
      PROVE  new[p].kind \in Kinds
  <2>1. p \in Paths BY <1>4
  <2>2. CASE p = path \/ IsStrictPrefix(p, path) BY <1>3, <1>5, <2>1, <2>2
  <2>3. CASE ~ (p = path \/ IsStrictPrefix(p, path))
    <3>1. p \in DOMAIN doc /\ new[p] = doc[p] BY <1>3, <2>1, <2>3
    <3> QED BY <1>1, <3>1 DEF IsDocument
  <2> QED BY <2>2, <2>3
<1>8. ASSUME NEW p \in DOMAIN new, p # <<>>
      PROVE  Front(p) \in DOMAIN new /\ new[Front(p)].kind = "map"
  <2>1. p \in Paths BY <1>4
  <2>2. /\ Front(p) \in Paths /\ IsPrefix(Front(p), p) /\ Front(p) # p
        /\ \A q \in Paths : IsStrictPrefix(q, p) => IsPrefix(q, Front(p))
    BY <1>8, <2>1, FrontIsNearest DEF IsStrictPrefix
  <2>3. CASE IsPrefix(p, path)
    <3>1. IsPrefix(Front(p), path) BY <2>1, <2>2, <2>3, PrefixesAreTransitive
    <3>2. Front(p) # path
      BY <2>1, <2>2, <2>3, PrefixesAreOrdered
    <3> QED BY <1>3, <1>5, <2>2, <3>1, <3>2 DEF IsStrictPrefix
  <2>4. CASE ~ IsPrefix(p, path)
    <3>1. p # path /\ ~ IsStrictPrefix(p, path) BY <2>1, <2>4, PrefixesAreOrdered DEF IsStrictPrefix
    <3>2. p \in DOMAIN doc /\ ~ IsPrefix(path, p) BY <1>3, <2>1, <3>1
    <3>3. Front(p) \in DOMAIN doc /\ doc[Front(p)].kind = "map" BY <1>1, <1>8, <3>2 DEF IsDocument
    <3>4. ~ IsPrefix(path, Front(p)) BY <2>1, <2>2, <3>2, PrefixesAreTransitive
    <3>5. Front(p) \in DOMAIN new BY <1>3, <2>2, <3>3, <3>4
    <3>6. CASE IsStrictPrefix(Front(p), path) BY <1>3, <1>5, <2>2, <3>5, <3>6
    <3>7. CASE ~ IsStrictPrefix(Front(p), path)
      <4>1. Front(p) # path BY <2>2, <3>4, PrefixesAreOrdered
      <4> QED BY <1>3, <2>2, <3>3, <3>5, <3>7, <4>1
    <3> QED BY <3>6, <3>7
  <2> QED BY <2>3, <2>4
<1> QED BY <1>4, <1>6, <1>7, <1>8 DEF IsTree, IsDocument, new

\* The smallest number of a set
LEMMA LeastNat ==
  ASSUME NEW S \in SUBSET Nat, S # {}
  PROVE  \E m \in S : \A n \in S : m <= n
<1> DEFINE R == {ss \in Nat \X Nat : ss[1] < ss[2]}
<1>1. IsWellFoundedOn(R, Nat) BY NatLessThanWellFounded DEF OpToRel
<1>2. \E m \in S : \A n \in S : ~ (<<n, m>> \in R)
  <2> HIDE DEF R
  <2> QED BY <1>1, WFMin
<1>3. \A m, n \in Nat : <<n, m>> \notin R => m <= n OBVIOUS
<1> QED
  <2> HIDE DEF R
  <2> QED BY <1>2, <1>3

\* The keys that an override can speak of
IsSpoken(path) == path \in Paths /\ \A n \in 1 .. Len(path) : path[n] \notin NonText

\* Where a variable of the environment goes is a path, and its keys are strings.
LEMMA VariablesGoSomewhere ==
  ASSUME NEW doc, IsTree(doc), NEW segments, IsSpoken(segments)
  PROVE  IsSpoken(EnvPath(doc, segments))
<1> DEFINE same == {p \in DOMAIN doc :
                      /\ Len(p) <= Len(segments)
                      /\ \A i \in DOMAIN p : p[i] \notin NonText /\ Folded[p[i]] = segments[i]}
           longest == CHOOSE p \in same : \A q \in same : Len(q) <= Len(p)
           rests == {Len(segments) - Len(p) : p \in same}
           n == Len(segments)
           k == Len(longest)
           rest == SubSeq(segments, k + 1, n)
<1>1. /\ segments \in Paths /\ n \in Nat /\ (\A i \in 1 .. n : segments[i] \notin NonText)
      /\ DOMAIN doc \subseteq Paths /\ <<>> \in DOMAIN doc
  BY DEF IsSpoken, IsTree, IsDocument, Paths
<1>2. \A p \in same : Len(p) \in Nat /\ Len(p) <= n /\ p \in Paths BY <1>1 DEF Paths
<1>3. <<>> \in same BY <1>1
<1>4. rests \in SUBSET Nat /\ rests # {} BY <1>1, <1>2, <1>3
<1>5. PICK m \in rests : \A r \in rests : m <= r
  <2> HIDE DEF rests
  <2> QED BY <1>4, LeastNat
<1>6. PICK p \in same : m = n - Len(p) OBVIOUS
<1>7. \A q \in same : Len(q) <= Len(p)
  <2>1. \A q \in same : n - Len(p) <= n - Len(q) BY <1>5, <1>6
  <2> HIDE DEF same, n
  <2> QED BY <1>1, <1>2, <1>6, <2>1
<1>8. longest \in same
  <2> HIDE DEF same
  <2> QED BY <1>6, <1>7
<1>9. /\ longest \in Paths /\ k \in 0 .. n
      /\ \A i \in 1 .. k : longest[i] \notin NonText
  <2>1. \A q \in same : \A i \in DOMAIN q : q[i] \notin NonText OBVIOUS
  <2> HIDE DEF same, longest
  <2>2. longest \in Paths /\ k \in Nat /\ k <= n BY <1>2, <1>8
  <2>3. DOMAIN longest = 1 .. k BY <2>2 DEF Paths
  <2> QED BY <1>1, <1>8, <2>1, <2>2, <2>3
<1> HIDE DEF same, longest, rests
<1>10. \A i \in k + 1 .. n : segments[i] \in STRING BY <1>1, <1>9, ElementOfSeq DEF Paths
<1>11. /\ rest \in Paths /\ Len(rest) = n - k
       /\ \A i \in 1 .. n - k : rest[i] = segments[k + i]
  <2>1. k + 1 \in Int /\ n \in Int /\ k \in Nat BY <1>1, <1>9
  <2>2. /\ rest \in Seq(STRING) /\ Len(rest) = IF k + 1 <= n THEN n - (k + 1) + 1 ELSE 0
        /\ \A i \in 1 .. n - (k + 1) + 1 : rest[i] = segments[(k + 1) + i - 1]
    BY <1>10, <2>1, SubSeqProperties
  <2> QED BY <1>1, <1>9, <2>1, <2>2 DEF Paths
<1>12. /\ longest \o rest \in Paths /\ Len(longest \o rest) = k + (n - k)
       /\ \A i \in 1 .. k + (n - k) : (longest \o rest)[i] = IF i <= k THEN longest[i] ELSE rest[i - k]
  BY <1>9, <1>11, ConcatProperties DEF Paths
<1>13. \A i \in 1 .. Len(longest \o rest) : (longest \o rest)[i] \notin NonText
  <2>1. SUFFICES ASSUME NEW i \in 1 .. n
                 PROVE  (longest \o rest)[i] \notin NonText
    BY <1>1, <1>9, <1>12
  <2>2. CASE i <= k
    <3>1. i \in 1 .. k /\ i \in 1 .. k + (n - k) BY <1>1, <1>9, <2>2
    <3> QED BY <1>9, <1>12, <2>2, <3>1
  <2>3. CASE ~ i <= k
    <3>1. i - k \in 1 .. n - k /\ i \in 1 .. k + (n - k) /\ k + (i - k) = i
      BY <1>1, <1>9, <2>3
    <3>2. (longest \o rest)[i] = segments[i] BY <1>11, <1>12, <2>3, <3>1
    <3> QED BY <1>1, <3>2
  <2> QED BY <2>2, <2>3
<1> QED BY <1>12, <1>13 DEF IsSpoken, EnvPath, longest, same, rest, k, n

-----------------------------------------------------------------------------
(* What the overrides make of a text, one after the other *)

LEMMA Induction ==
  ASSUME NEW S \in SUBSET Nat, 0 \in S, NEW top \in Nat, \A n \in S : n < top => n + 1 \in S
  PROVE  0 .. top \subseteq S
<1> SUFFICES ASSUME (0 .. top) \ S # {}
             PROVE  FALSE
  OBVIOUS
<1>1. (0 .. top) \ S \in SUBSET Nat OBVIOUS
<1>2. PICK m \in (0 .. top) \ S : \A n \in (0 .. top) \ S : m <= n
  BY <1>1, LeastNat
<1>3. m # 0 /\ m - 1 \in 0 .. top /\ m - 1 < m BY <1>2
<1>4. m - 1 \in S /\ m - 1 < top
  <2>1. m - 1 \notin (0 .. top) \ S
    <3>1. ~ m <= m - 1 BY <1>2
    <3> QED BY <1>2, <3>1
  <2> QED BY <1>2, <1>3, <2>1
<1>5. (m - 1) + 1 = m BY <1>2
<1> QED BY <1>2, <1>4, <1>5

All(c) == c.env \o c.sets

Unchanged(text) == [doc |-> Parsed[text], end |-> "fine"]

Trail(c, text) ==
  LET after[i \in 0 .. Len(All(c))] ==
        IF i = 0 THEN [doc |-> Parsed[text], end |-> "fine"]
        ELSE CHOOSE s \in {AfterOne(before, All(c)[i], i <= Len(c.env)) : before \in {after[i - 1]}} : TRUE
  IN after

\* The trail is defined: it starts at the text and takes one override at a time.
LEMMA TrailIsStepwise ==
  ASSUME NEW c, NEW text, Len(All(c)) \in Nat
  PROVE  /\ Trail(c, text)[0] = Unchanged(text)
         /\ \A i \in 1 .. Len(All(c)) :
              Trail(c, text)[i] = AfterOne(Trail(c, text)[i - 1], All(c)[i], i <= Len(c.env))
<1> DEFINE n == Len(All(c))
           Step(state, i) == AfterOne(state, All(c)[i], i <= Len(c.env))
           IsTrail(f, k) == f = [i \in 0 .. k |-> IF i = 0 THEN Unchanged(text) ELSE Step(f[i - 1], i)]
           S == {k \in Nat : \E f : IsTrail(f, k)}
<1>1. 0 \in S
  <2> DEFINE f == [i \in 0 .. 0 |-> Unchanged(text)]
  <2>1. IsTrail(f, 0)
    <3> HIDE DEF Step
    <3> QED OBVIOUS
  <2> QED BY <2>1
<1>2. ASSUME NEW k \in S
      PROVE  k + 1 \in S
  <2> k \in Nat OBVIOUS
  <2>1. PICK f : IsTrail(f, k) OBVIOUS
  <2> DEFINE g == [i \in 0 .. k + 1 |-> IF i <= k THEN f[i] ELSE Step(f[k], k + 1)]
  <2>2. \A i \in 0 .. k + 1 : g[i] = IF i = 0 THEN Unchanged(text) ELSE Step(g[i - 1], i)
    <3> HIDE DEF Step
    <3>1. SUFFICES ASSUME NEW i \in 0 .. k + 1
                   PROVE  g[i] = IF i = 0 THEN Unchanged(text) ELSE Step(g[i - 1], i)
      OBVIOUS
    <3>2. CASE i = k + 1
      <4>1. g[i] = Step(f[k], k + 1) /\ g[i - 1] = f[k] /\ i # 0 BY <3>2
      <4> QED BY <3>2, <4>1
    <3>3. CASE i <= k
      <4>1. i \in 0 .. k /\ g[i] = f[i] BY <3>3
      <4>2. f[i] = IF i = 0 THEN Unchanged(text) ELSE Step(f[i - 1], i) BY <2>1, <4>1
      <4>3. i # 0 => g[i - 1] = f[i - 1] BY <3>3
      <4> QED BY <4>1, <4>2, <4>3
    <3> QED BY <3>2, <3>3
  <2>3. g = [i \in 0 .. k + 1 |-> g[i]] OBVIOUS
  <2>4. IsTrail(g, k + 1)
    <3> HIDE DEF g, Step
    <3> QED BY <2>2, <2>3
  <2>5. k + 1 \in Nat OBVIOUS
  <2> QED BY <2>4, <2>5
<1>3. n \in S
  <2> HIDE DEF S
  <2>1. S \in SUBSET Nat BY DEF S
  <2>2. 0 .. n \subseteq S BY <1>1, <1>2, <2>1, Induction
  <2> QED BY <2>2
<1>4. \A state, i : (CHOOSE s \in {AfterOne(before, All(c)[i], i <= Len(c.env)) : before \in {state}} : TRUE)
                      = Step(state, i)
  OBVIOUS
<1>5. PICK f : IsTrail(f, n) BY <1>3
<1> DEFINE Made(h) == [i \in 0 .. n |->
                         IF i = 0 THEN [doc |-> Parsed[text], end |-> "fine"]
                         ELSE CHOOSE s \in {AfterOne(before, All(c)[i], i <= Len(c.env)) :
                                              before \in {h[i - 1]}} : TRUE]
<1>6. Trail(c, text) = CHOOSE h : h = Made(h) BY DEF Trail
<1>7. \A h : Made(h) = [i \in 0 .. n |-> IF i = 0 THEN Unchanged(text) ELSE Step(h[i - 1], i)]
  BY <1>4 DEF Unchanged
<1>8. f = Made(f) BY <1>5, <1>7
<1>9. Trail(c, text) = Made(Trail(c, text))
  <2> HIDE DEF Made
  <2> QED BY <1>6, <1>8
<1>10. Trail(c, text) = [i \in 0 .. n |->
                           IF i = 0 THEN Unchanged(text) ELSE Step(Trail(c, text)[i - 1], i)]
  BY <1>7, <1>9
<1> HIDE DEF Step
<1>11. /\ Trail(c, text)[0] = Unchanged(text)
       /\ \A i \in 1 .. n : Trail(c, text)[i] = Step(Trail(c, text)[i - 1], i)
  BY <1>10
<1> QED BY <1>11 DEF Step

\* An override that is refused, or trips, is the end of the trail.
LEMMA TrailEnds ==
  ASSUME NEW c, NEW text, Len(All(c)) \in Nat, NEW i \in 0 .. Len(All(c)),
         Trail(c, text)[i].end # "fine"
  PROVE  Trail(c, text)[Len(All(c))] = Trail(c, text)[i]
<1> DEFINE n == Len(All(c))
           S == {k \in Nat : Trail(c, text)[i + k] = Trail(c, text)[i]}
<1>1. n \in Nat /\ i \in Nat /\ i <= n /\ n - i \in Nat /\ i + (n - i) = n OBVIOUS
<1> HIDE DEF n
<1>2. 0 \in S BY <1>1
<1>3. ASSUME NEW k \in S, k < n - i
      PROVE  k + 1 \in S
  <2>1. k \in Nat /\ Trail(c, text)[i + k] = Trail(c, text)[i] OBVIOUS
  <2>2. i + (k + 1) \in 1 .. n /\ (i + (k + 1)) - 1 = i + k BY <1>1, <1>3, <2>1
  <2>3. Trail(c, text)[i + (k + 1)] =
          AfterOne(Trail(c, text)[i + k], All(c)[i + (k + 1)], i + (k + 1) <= Len(c.env))
    BY <2>2, TrailIsStepwise DEF n
  <2>4. Trail(c, text)[i + (k + 1)] = Trail(c, text)[i + k] BY <2>1, <2>3 DEF AfterOne
  <2> QED BY <2>1, <2>4
<1>4. n - i \in S
  <2>1. S \in SUBSET Nat OBVIOUS
  <2> HIDE DEF S
  <2>2. 0 .. n - i \subseteq S BY <1>1, <1>2, <1>3, <2>1, Induction
  <2> QED BY <1>1, <2>2
<1> QED BY <1>1, <1>4 DEF n

-----------------------------------------------------------------------------
(* The inductive invariant *)

Seeking == {"start", "given", "variable", "first", "second", "choose"}

Typed ==
  /\ disk \in [Files -> Texts \union {"absent"}] /\ changes \in 0 .. call.edits
  /\ call \in Calls
  /\ pc \in Seeking \union {"read", "override", "done"}
  /\ found \subseteq DefaultFiles
  /\ targets \in Seq(Files) /\ (pc \in {"read", "override"} => targets # <<>>)
  /\ seen \in Seq([file : Files, text : Texts \union {"absent"}])
  /\ IsTree(document)
  /\ \E S : reports \in Seq(S)
  /\ loaded \in {"none", "incompatible", "compatible"}
  /\ status \in {-1, 0, 1, 2, 3}

\* The file may be the one that resolve_path takes.
MayBeTaken(f) ==
  LET named == {call.config, call.preference, call.variable} \ {NoFile}
  IN /\ call.config # NoFile => f = call.config
     /\ f \in named \/ (named = {} /\ f \in DefaultFiles)
     /\ named = {} /\ changes = 0 => {g \in DefaultFiles : Exists(g)} = {f}

Sought ==
  /\ pc \in Seeking => seen = <<>> /\ reports = <<>> /\ loaded = "none"
  /\ pc \in Seeking \ {"start"} => call.files = <<>>
  /\ pc \in {"variable", "first", "second", "choose"} => Given = NoFile
  /\ pc \in {"first", "second", "choose"} => call.variable = NoFile
  /\ pc \in Seeking \ {"second", "choose"} => found = {}
  /\ pc = "second" /\ changes = 0 => found = {f \in {"bcs.yaml"} : Exists(f)}
  /\ pc = "choose" /\ changes = 0 => found = {f \in DefaultFiles : Exists(f)}
  /\ pc = "read" /\ seen = <<>> /\ call.files = <<>> => MayBeTaken(Head(targets))
  /\ seen # <<>> /\ call.files = <<>> => MayBeTaken(seen[1].file)

\* The document is the text with as many overrides as have been applied.
Underway ==
  pc = "override" =>
    LET text == Last(seen).text
    IN /\ seen # <<>> /\ text \in Texts \ (Unparsed \union {"absent"})
       /\ Len(applied) <= Len(All(call))
       /\ ahead = SubSeq(All(call), Len(applied) + 1, Len(All(call)))
       /\ Trail(call, text)[Len(applied)] = [doc |-> document, end |-> "fine"]
       /\ \A p \in DOMAIN document \ {<<>>} : Last(p) \in NonText => p \in DOMAIN Parsed[text]

Spoken ==
  /\ \E S : applied \in Seq(S)
  /\ \A i \in 1 .. Len(applied) : IsSpoken(applied[i].path) /\ applied[i].value.kind \in Kinds

\* Of a path, what the last of the overrides that overlap with it says
Node(doc, p) == IF p \in DOMAIN doc THEN doc[p] ELSE Val("nothing", "")
Touching(list, p) == {i \in DOMAIN list : IsPrefix(list[i].path, p) \/ IsPrefix(p, list[i].path)}
Said(base, list, p) ==
  LET over == Touching(list, p)
      last == CHOOSE i \in over : \A j \in over : j <= i
  IN IF over = {} THEN Node(base, p)
     ELSE IF list[last].path = p THEN list[last].value
     ELSE IF IsPrefix(p, list[last].path) THEN Map ELSE Val("nothing", "")

Winners ==
  pc = "override" =>
    \A p \in Paths : Node(document, p) = Said(Parsed[Last(seen).text], applied, p)

ErrorsFor(c, text) ==
  LET doc == Trail(c, text)[Len(All(c))].doc
  IN IF text \in Unparsed \union {"absent"} THEN {Finding("schema", <<>>)}
     ELSE IF ParseErrors(doc) # {} THEN ParseErrors(doc) ELSE SemanticErrors(doc)
WarningsFor(c, text) ==
  LET doc == Trail(c, text)[Len(All(c))].doc
  IN IF text \in Unparsed \union {"absent"} \/ ParseErrors(doc) # {} THEN {} ELSE SemanticWarnings(doc)
OutcomeFor(c, text) ==
  IF text \in {"undecodable", "impossible"} THEN "crash"
  ELSE IF text \in Unparsed \union {"absent"} THEN "invalid" ELSE Judged(Trail(c, text)[Len(All(c))])

IsVerdict(c, text, report) ==
  /\ report.errors = ErrorsFor(c, text) /\ report.warnings = WarningsFor(c, text)
  /\ OutcomeFor(c, text) = IF report.errors # {} THEN "invalid"
                           ELSE IF report.warnings # {} THEN "warned" ELSE "valid"

Concluded ==
  LET last == Last(seen).text
  IN IF seen = <<>> THEN status = IF call.command = "version" THEN 0 ELSE 2
     ELSE \/ status = 1 /\ (OutcomeFor(call, last) = "crash" \/ MayCrash(last))
          \/ status = 2 /\ OutcomeFor(call, last) = "usage"
          \/ call.command = "version" /\ status = 0 /\ OutcomeFor(call, last) \notin {"usage", "crash"}
          \/ /\ call.command = "validate" /\ Len(seen) = Len(reports)
             /\ Len(seen) = Len(call.files) \/ call.files = <<>>
             /\ status = IF \A i \in 1 .. Len(reports) : IsOk(reports[i]) THEN 0 ELSE 3

Verdicts ==
  /\ pc = "read" => Len(seen) = Len(reports)
  /\ pc = "override" => Len(seen) = Len(reports) + 1
  /\ Len(reports) <= Len(seen)
  /\ call.files # <<>> /\ pc \in {"read", "override"} => Len(targets) + Len(reports) = Len(call.files)
  /\ call.command = "version" => reports = <<>>
  /\ loaded # "none" => pc = "done"
  /\ \A i \in 1 .. Len(reports) : IsVerdict(call, seen[i].text, reports[i])
  /\ pc = "done" => Concluded

LoadingInv == Typed /\ Sought /\ Underway /\ Spoken /\ Winners /\ Verdicts /\ NoOverrideIsLost

-----------------------------------------------------------------------------
(* The call never changes, and the environment goes first *)

LEMMA CallsAreCalls ==
  ASSUME NEW c \in Calls
  PROVE  /\ c.command \in Commands /\ c.files \in Seq(Files) /\ c.edits \in Nat
         /\ {c.config, c.preference, c.variable} \subseteq Files \union {NoFile}
         /\ Len(c.env) \in Nat /\ Len(c.sets) \in Nat
         /\ Len(All(c)) = Len(c.env) + Len(c.sets) /\ Len(All(c)) \in Nat
         /\ All(c) \in Seq(Override)
         /\ \A i \in 1 .. Len(All(c)) : IsSpoken(All(c)[i].path)
<1> DEFINE a == Len(c.env)
           b == Len(c.sets)
           n == Len(All(c))
<1>1. c.env \in Seq(Override) /\ c.sets \in Seq(Override) BY CallsAreTyped
<1>2. Len(c.env) \in Nat /\ Len(c.sets) \in Nat BY <1>1, LenProperties
<1>3. /\ All(c) \in Seq(Override) /\ Len(All(c)) = Len(c.env) + Len(c.sets)
      /\ \A i \in 1 .. Len(c.env) + Len(c.sets) :
           All(c)[i] = IF i <= Len(c.env) THEN c.env[i] ELSE c.sets[i - Len(c.env)]
  BY <1>1, ConcatProperties DEF All
<1>4. ASSUME NEW o \in ToSet(c.env) \union ToSet(c.sets), o \in Override
      PROVE  IsSpoken(o.path)
  <2>1. o.path \in Paths BY <1>4 DEF Override, Paths
  <2>2. ToSet(o.path) \intersect NonText = {} BY CallsAreTyped
  <2>3. \A m \in 1 .. Len(o.path) : o.path[m] \in ToSet(o.path) BY <2>1 DEF Paths, ToSet
  <2> QED BY <2>1, <2>2, <2>3 DEF IsSpoken
<1>5. ASSUME NEW i \in 1 .. n
      PROVE  IsSpoken(All(c)[i].path)
  <2>1. All(c)[i] \in Override BY <1>3, <1>5, ElementOfSeq
  <2>2. /\ DOMAIN c.env = 1 .. a /\ DOMAIN c.sets = 1 .. b /\ a \in Nat /\ b \in Nat /\ n = a + b
        /\ i <= a => All(c)[i] = c.env[i]
        /\ ~ i <= a => All(c)[i] = c.sets[i - a]
    BY <1>1, <1>2, <1>3, LenProperties
  <2> HIDE DEF a, b, n
  <2>3. CASE i <= a
    <3>1. i \in DOMAIN c.env /\ All(c)[i] = c.env[i] BY <2>2, <2>3
    <3>2. All(c)[i] \in ToSet(c.env) BY <3>1 DEF ToSet
    <3> QED BY <1>4, <2>1, <3>2
  <2>4. CASE ~ i <= a
    <3>1. i - a \in DOMAIN c.sets /\ All(c)[i] = c.sets[i - a] BY <2>2, <2>4
    <3>2. All(c)[i] \in ToSet(c.sets) BY <3>1 DEF ToSet
    <3> QED BY <1>4, <2>1, <3>2
  <2> QED BY <2>3, <2>4
<1>6. /\ c.command \in Commands /\ c.files \in Seq(Files) /\ c.edits \in Nat
      /\ {c.config, c.preference, c.variable} \subseteq Files \union {NoFile}
  BY CallsAreTyped
<1>7. Len(All(c)) \in Nat BY <1>3, LenProperties
<1> QED BY <1>2, <1>3, <1>5, <1>6, <1>7

\* The override that is next, and what it is the next of
LEMMA NextOverride ==
  ASSUME Typed, Underway, Spoken, pc = "override", ahead # <<>>
  PROVE  LET k == Len(applied) + 1
         IN /\ k \in 1 .. Len(All(call)) /\ Head(ahead) = All(call)[k]
            /\ Tail(ahead) = SubSeq(All(call), k + 1, Len(All(call)))
            /\ FromEnvironment <=> k <= Len(call.env)
<1> DEFINE k == Len(applied) + 1
           n == Len(All(call))
<1>1. /\ All(call) \in Seq(Override) /\ n \in Nat /\ Len(call.env) \in Nat /\ Len(call.sets) \in Nat
      /\ n = Len(call.env) + Len(call.sets)
  BY CallsAreCalls DEF Typed
<1>2. ahead = SubSeq(All(call), k, n) /\ Len(applied) <= n BY DEF Underway
<1>3. Len(applied) \in Nat BY DEF Spoken
<1>4. k \in Int /\ n \in Int /\ k >= 1 BY <1>1, <1>3
<1>5. k <= n
  <2>1. n < k => ahead = <<>> BY <1>2, <1>4, SubSeqEmpty
  <2> QED BY <1>4, <2>1
<1>6. k \in 1 .. n /\ n \in k .. n BY <1>4, <1>5
<1>7. Head(ahead) = All(call)[k] /\ Tail(ahead) = SubSeq(All(call), k + 1, n)
  <2> DEFINE all == All(call)
  <2>1. all \in Seq(Override) /\ n = Len(all) /\ ahead = SubSeq(all, k, n) BY <1>1, <1>2
  <2> HIDE DEF n, k, all
  <2>2. k \in 1 .. Len(all) /\ n \in k .. Len(all) BY <1>6, <2>1
  <2>3. Head(SubSeq(all, k, n)) = all[k] /\ Tail(SubSeq(all, k, n)) = SubSeq(all, k + 1, n)
    BY <2>1, <2>2, HeadTailOfSubSeq
  <2> QED BY <2>1, <2>3 DEF all
<1>8. Len(ahead) = (n - k) + 1
  <2>1. \A i \in 1 .. n : All(call)[i] \in Override BY <1>1, ElementOfSeq
  <2> HIDE DEF n, k
  <2> \A i \in k .. n : All(call)[i] \in Override BY <1>4, <2>1
  <2>2. Len(SubSeq(All(call), k, n)) = IF k <= n THEN (n - k) + 1 ELSE 0
    BY <1>4, <2>1, SubSeqProperties
  <2> QED BY <1>2, <1>5, <2>2
<1>9. FromEnvironment <=> k <= Len(call.env)
  <2> DEFINE a == Len(call.env)
             b == Len(call.sets)
             l == Len(ahead)
  <2>1. l = (n - k) + 1 /\ n = a + b /\ a \in Nat /\ b \in Nat /\ k \in Int BY <1>1, <1>4, <1>8
  <2> HIDE DEF a, b, l, n, k
  <2>2. l > b <=> k <= a BY <2>1
  <2> QED BY <2>2 DEF FromEnvironment, a, b, l
<1> QED BY <1>6, <1>7, <1>9

-----------------------------------------------------------------------------
(* Finding a file keeps the invariant *)

\* No file has been read, and none is being worked on.
LEMMA NothingReadYet ==
  ASSUME LoadingInv, pc \in Seeking, pc' \in Seeking \union {"read", "done"},
         UNCHANGED <<call, seen, document, ahead, applied, reports, loaded>>,
         pc' = "read" /\ call.files # <<>> => targets' = call.files,
         pc' = "done" => status' = IF call.command = "version" THEN 0 ELSE 2
  PROVE  Underway' /\ Spoken' /\ Winners' /\ NoOverrideIsLost' /\ Verdicts'
<1>1. seen = <<>> /\ reports = <<>> /\ loaded = "none" BY DEF LoadingInv, Sought
<1>2. pc' # "override" BY DEF Seeking
<1>3. Underway' /\ Winners' BY <1>2 DEF Underway, Winners
<1>4. Spoken' BY DEF LoadingInv, Spoken
<1>5. reports' = <<>> /\ loaded' = "none" /\ seen' = <<>> BY <1>1
<1>6. NoOverrideIsLost' BY <1>5 DEF NoOverrideIsLost
<1>7. Verdicts'
  <2>1. Len(<<>>) = 0 /\ 1 .. 0 = {} OBVIOUS
  <2>2. Concluded' <=> status' = IF call.command = "version" THEN 0 ELSE 2
    BY <1>5 DEF Concluded
  <2>3. call.files # <<>> /\ pc' \in {"read", "override"} => Len(targets') + Len(reports') = Len(call.files)
    <3>1. Len(call.files) \in Nat BY CallsAreCalls DEF LoadingInv, Typed
    <3> QED BY <1>2, <1>5, <2>1, <3>1
  <2> QED BY <1>2, <1>5, <2>1, <2>2, <2>3 DEF Verdicts
<1> QED BY <1>3, <1>4, <1>6, <1>7

\* With the disk as it was, so is what may be taken.
LEMMA SameDisk ==
  ASSUME UNCHANGED <<disk, changes, call>>
  PROVE  /\ \A f : Exists(f)' <=> Exists(f)
         /\ \A f : MayBeTaken(f)' <=> MayBeTaken(f)
         /\ Given' = Given
BY DEF Exists, MayBeTaken, Given

LEMMA StartKeepsIt ==
  ASSUME LoadingInv, Start
  PROVE  LoadingInv'
<1>1. /\ pc = "start" /\ targets' = call.files /\ status' = status
      /\ pc' = IF call.files = <<>> THEN "given" ELSE "read"
      /\ UNCHANGED <<disk, changes, call, found, seen, document, ahead, applied, reports, loaded>>
  BY DEF Start, GoTo, unread
<1>2. call \in Calls /\ call.files \in Seq(Files) BY CallsAreCalls DEF LoadingInv, Typed
<1>3. Typed'
  <2>1. pc' \in {"given", "read"} /\ (pc' = "read" => targets' # <<>>) BY <1>1
  <2> QED BY <1>1, <1>2, <2>1 DEF LoadingInv, Typed, Seeking
<1>4. Sought'
  <2>1. seen = <<>> /\ reports = <<>> /\ loaded = "none" /\ found = {}
    BY <1>1 DEF LoadingInv, Sought, Seeking
  <2> QED BY <1>1, <2>1 DEF Sought, Seeking
<1>5. pc \in Seeking /\ pc' \in Seeking \union {"read", "done"} /\ pc' # "done" BY <1>1 DEF Seeking
<1> QED BY <1>1, <1>3, <1>4, <1>5, NothingReadYet DEF LoadingInv

\* One more place has been looked at: it settles the file, ends the call, or
\* leads to the next place.
LEMMA OnePlaceOn ==
  ASSUME LoadingInv, pc \in Seeking \ {"start"}, NEW next,
         UNCHANGED <<disk, changes, call, seen, document, ahead, applied, reports, loaded>>,
         found' \subseteq DefaultFiles,
         \/ /\ next \in Seeking \ {"start"} /\ pc' = next /\ UNCHANGED <<status, targets>>
            /\ Sought'
         \/ /\ found' = found
            /\ \E f \in Files : pc' = "read" /\ targets' = <<f>> /\ status' = status /\ MayBeTaken(f)
         \/ found' = found /\ Unresolved
  PROVE  LoadingInv'
<1>1. /\ call \in Calls /\ call.files = <<>> /\ seen = <<>> /\ reports = <<>> /\ loaded = "none"
  BY DEF LoadingInv, Sought, Typed
<1>2. CASE next \in Seeking \ {"start"} /\ pc' = next /\ UNCHANGED <<status, targets>> /\ Sought'
  <2>1. Typed' BY <1>2 DEF LoadingInv, Typed, Seeking
  <2>2. pc' # "done" /\ pc' # "read" /\ pc' \in Seeking BY <1>2 DEF Seeking
  <2> QED BY <1>2, <2>1, <2>2, NothingReadYet DEF LoadingInv
<1>3. ASSUME NEW f \in Files, pc' = "read", targets' = <<f>>, status' = status, MayBeTaken(f),
             found' = found
      PROVE  LoadingInv'
  <2>1. targets' \in Seq(Files) /\ targets' # <<>> /\ Head(targets') = f BY <1>3
  <2>2. Typed' BY <1>3, <2>1 DEF LoadingInv, Typed, Seeking
  <2>3. MayBeTaken(f)' BY <1>3, SameDisk
  <2>4. Sought' BY <1>1, <1>3, <2>1, <2>3 DEF Sought, Seeking, LoadingInv
  <2> QED BY <1>1, <1>3, <2>2, <2>4, NothingReadYet DEF LoadingInv
<1>4. CASE found' = found /\ Unresolved
  <2>1. /\ pc' = "done" /\ targets' = targets
        /\ status' = IF call.command = "version" THEN 0 ELSE 2
    BY <1>4 DEF Unresolved, Exit
  <2>2. Typed' BY <1>4, <2>1 DEF LoadingInv, Typed, Seeking
  <2>3. Sought' BY <1>1, <1>4, <2>1 DEF Sought, Seeking
  <2> QED BY <1>1, <2>1, <2>2, <2>3, NothingReadYet DEF LoadingInv
<1> QED BY <1>2, <1>3, <1>4

LEMMA ResolvingKeepsIt ==
  ASSUME LoadingInv, ResolveGiven \/ ResolveVariable \/ ProbeFirst \/ ProbeSecond \/ Choose
  PROVE  LoadingInv'
<1>1. /\ UNCHANGED <<disk, changes, call, seen, document, ahead, applied, reports, loaded>>
      /\ pc \in Seeking \ {"start"}
  BY DEF ResolveGiven, ResolveVariable, ProbeFirst, ProbeSecond, Choose, unread, Seeking
<1>2. /\ call \in Calls /\ {call.config, call.preference, call.variable} \subseteq Files \union {NoFile}
      /\ call.files = <<>> /\ seen = <<>> /\ reports = <<>> /\ loaded = "none"
      /\ found \subseteq DefaultFiles /\ DefaultFiles \subseteq Files
  BY <1>1, CallsAreCalls, DefaultsAreFiles DEF LoadingInv, Sought, Typed
<1>3. Given' = Given /\ (\A f : Exists(f)' <=> Exists(f)) BY <1>1, SameDisk
<1>4. CASE ResolveGiven
  <2>1. pc = "given" /\ found' = found /\ found = {}
    BY <1>4 DEF ResolveGiven, LoadingInv, Sought, Seeking
  <2>2. CASE Given = NoFile /\ GoTo("variable") /\ UNCHANGED targets
    <3>1. pc' = "variable" /\ status' = status BY <2>2 DEF GoTo
    <3>2. Sought' BY <1>1, <1>2, <1>3, <2>1, <2>2, <3>1 DEF Sought, Seeking
    <3>3. "variable" \in Seeking \ {"start"} BY DEF Seeking
    <3> QED BY <1>1, <1>2, <2>1, <2>2, <3>1, <3>2, <3>3, OnePlaceOn
  <2>3. CASE Given # NoFile /\ Exists(Given) /\ Take(Given)
    <3>1. pc' = "read" /\ targets' = <<Given>> /\ status' = status BY <2>3 DEF Take, GoTo
    <3>2. Given \in Files BY <1>2, <2>3 DEF Given
    <3>3. MayBeTaken(Given) BY <2>3 DEF Given, MayBeTaken
    <3> QED BY <1>1, <1>2, <2>1, <3>1, <3>2, <3>3, OnePlaceOn
  <2>4. CASE Given # NoFile /\ ~ Exists(Given) /\ Unresolved BY <1>1, <1>2, <2>1, <2>4, OnePlaceOn
  <2> QED BY <1>4, <2>2, <2>3, <2>4 DEF ResolveGiven
<1>5. CASE ResolveVariable
  <2>1. pc = "variable" /\ found' = found /\ found = {} /\ Given = NoFile
    BY <1>5 DEF ResolveVariable, LoadingInv, Sought, Seeking
  <2>2. CASE call.variable = NoFile /\ GoTo("first") /\ UNCHANGED targets
    <3>1. pc' = "first" /\ status' = status BY <2>2 DEF GoTo
    <3>2. Sought' BY <1>1, <1>2, <1>3, <2>1, <2>2, <3>1 DEF Sought, Seeking
    <3>3. "first" \in Seeking \ {"start"} BY DEF Seeking
    <3> QED BY <1>1, <1>2, <2>1, <2>2, <3>1, <3>2, <3>3, OnePlaceOn
  <2>3. CASE call.variable # NoFile /\ Exists(call.variable) /\ Take(call.variable)
    <3>1. pc' = "read" /\ targets' = <<call.variable>> /\ status' = status BY <2>3 DEF Take, GoTo
    <3>2. call.variable \in Files BY <1>2, <2>3
    <3>3. MayBeTaken(call.variable) BY <2>1, <2>3 DEF Given, MayBeTaken
    <3> QED BY <1>1, <1>2, <2>1, <3>1, <3>2, <3>3, OnePlaceOn
  <2>4. CASE call.variable # NoFile /\ ~ Exists(call.variable) /\ Unresolved
    BY <1>1, <1>2, <2>1, <2>4, OnePlaceOn
  <2> QED BY <1>5, <2>2, <2>3, <2>4 DEF ResolveVariable
<1>6. CASE ProbeFirst
  <2>1. /\ pc = "first" /\ pc' = "second" /\ status' = status /\ targets' = targets
        /\ found' = IF Exists("bcs.yaml") THEN found \union {"bcs.yaml"} ELSE found
        /\ found = {} /\ Given = NoFile /\ call.variable = NoFile
    BY <1>6 DEF ProbeFirst, GoTo, Probe, LoadingInv, Sought, Seeking
  <2>2. found' = {f \in {"bcs.yaml"} : Exists(f)} /\ found' \subseteq DefaultFiles
    BY <2>1 DEF DefaultFiles
  <2>3. found' = {f \in {"bcs.yaml"} : Exists(f)'} BY <1>3, <2>2
  <2>4. Sought' BY <1>1, <1>2, <1>3, <2>1, <2>3 DEF Sought, Seeking
  <2>5. "second" \in Seeking \ {"start"} BY DEF Seeking
  <2> QED BY <1>1, <2>1, <2>2, <2>4, <2>5, OnePlaceOn
<1>7. CASE ProbeSecond
  <2>1. /\ pc = "second" /\ pc' = "choose" /\ status' = status /\ targets' = targets
        /\ found' = IF Exists("classroom.yaml") THEN found \union {"classroom.yaml"} ELSE found
        /\ Given = NoFile /\ call.variable = NoFile
        /\ changes = 0 => found = {f \in {"bcs.yaml"} : Exists(f)}
    BY <1>7 DEF ProbeSecond, GoTo, Probe, LoadingInv, Sought, Seeking
  <2>2. found' \subseteq DefaultFiles BY <1>2, <2>1 DEF DefaultFiles
  <2>3. changes = 0 => found' = {f \in DefaultFiles : Exists(f)} BY <2>1 DEF DefaultFiles
  <2>4. changes = 0 => found' = {f \in DefaultFiles : Exists(f)'} BY <1>3, <2>3
  <2>5. Sought' BY <1>1, <1>2, <1>3, <2>1, <2>4 DEF Sought, Seeking
  <2>6. "choose" \in Seeking \ {"start"} BY DEF Seeking
  <2> QED BY <1>1, <2>1, <2>2, <2>5, <2>6, OnePlaceOn
<1>8. CASE Choose
  <2>1. /\ pc = "choose" /\ found' = found /\ Given = NoFile /\ call.variable = NoFile
        /\ changes = 0 => found = {f \in DefaultFiles : Exists(f)}
    BY <1>8 DEF Choose, LoadingInv, Sought, Seeking
  <2>2. ASSUME NEW f \in found, found = {f}, Take(f)
        PROVE  LoadingInv'
    <3>1. pc' = "read" /\ targets' = <<f>> /\ status' = status BY <2>2 DEF Take, GoTo
    <3>2. f \in Files /\ f \in DefaultFiles BY <1>2, <2>2
    <3>3. MayBeTaken(f) BY <2>1, <2>2, <3>2 DEF Given, MayBeTaken
    <3> QED BY <1>1, <1>2, <2>1, <3>1, <3>2, <3>3, OnePlaceOn
  <2>3. CASE Unresolved BY <1>1, <1>2, <2>1, <2>3, OnePlaceOn
  <2> QED BY <1>8, <2>2, <2>3 DEF Choose
<1> QED BY <1>4, <1>5, <1>6, <1>7, <1>8

\* Others may change a file at any time; what was taken or read stays so.
LEMMA ChangesKeepIt ==
  ASSUME LoadingInv, ChangeFile
  PROVE  LoadingInv'
<1>1. /\ UNCHANGED <<call, pc, found, targets, seen, document, ahead, applied, reports, loaded, status>>
      /\ changes < call.edits /\ changes' = changes + 1
  BY DEF ChangeFile, unread
<1>2. PICK e \in Edits : disk' = [disk EXCEPT ![e[1]] = e[2]] BY DEF ChangeFile
<1>3. e[1] \in Files /\ e[2] \in Texts \union {"absent"} BY <1>2, EditsAreTyped
<1>4. disk' \in [Files -> Texts \union {"absent"}] BY <1>2, <1>3 DEF LoadingInv, Typed
<1>5. changes' \in 0 .. call.edits /\ changes' # 0
  <2>1. call.edits \in Nat BY CallsAreCalls DEF LoadingInv, Typed
  <2> QED BY <1>1, <2>1 DEF LoadingInv, Typed
<1>6. Typed' BY <1>1, <1>4, <1>5 DEF LoadingInv, Typed
<1>7. \A f : MayBeTaken(f) => MayBeTaken(f)' BY <1>1, <1>5 DEF MayBeTaken
<1>8. Sought'
  <2>1. Given' = Given BY <1>1 DEF Given
  <2> QED BY <1>1, <1>5, <1>7, <2>1 DEF LoadingInv, Sought
<1>9. Underway' /\ Spoken' /\ Winners' BY <1>1 DEF LoadingInv, Underway, Spoken, Winners
<1>10. Verdicts'
  <2>1. Concluded' <=> Concluded BY <1>1 DEF Concluded, IsOk, MayCrash
  <2> QED BY <1>1, <2>1 DEF LoadingInv, Verdicts
<1>11. NoOverrideIsLost' BY <1>1 DEF LoadingInv, NoOverrideIsLost
<1> QED BY <1>6, <1>8, <1>9, <1>10, <1>11 DEF LoadingInv

-----------------------------------------------------------------------------
(* Reading a file and working on its document keep the invariant *)

LEMMA Looking ==
  ASSUME LoadingInv, Look
  PROVE  /\ pc = "read" /\ Text \in Texts \union {"absent"}
         /\ seen' \in Seq([file : Files, text : Texts \union {"absent"}]) /\ seen' # <<>>
         /\ Len(seen') = Len(reports) + 1 /\ Len(reports) = Len(seen)
         /\ Last(seen').text = Text /\ seen'[Len(reports) + 1].text = Text
         /\ \A i \in 1 .. Len(reports) : seen'[i] = seen[i]
         /\ call.files = <<>> => MayBeTaken(seen'[1].file)
<1> DEFINE look == [file |-> Head(targets), text |-> Text]
           Looks == [file : Files, text : Texts \union {"absent"}]
<1>1. pc = "read" /\ seen' = Append(seen, look) BY DEF Look
<1>2. targets \in Seq(Files) /\ targets # <<>> BY <1>1 DEF LoadingInv, Typed
<1>3. Head(targets) \in Files BY <1>2, HeadTailProperties
<1>4. Text \in Texts \union {"absent"} BY <1>3 DEF Text, LoadingInv, Typed
<1>5. look \in Looks /\ seen \in Seq(Looks) BY <1>3, <1>4 DEF LoadingInv, Typed
<1>6. look.text = Text /\ look.file = Head(targets) OBVIOUS
<1> HIDE DEF look, Looks
<1>7. /\ seen' \in Seq(Looks) /\ seen' # <<>> /\ Len(seen') = Len(seen) + 1
      /\ \A i \in 1 .. Len(seen) : seen'[i] = seen[i]
      /\ seen'[Len(seen) + 1] = look
  BY <1>1, <1>5, AppendProperties
<1>8. Len(reports) = Len(seen) BY <1>1 DEF LoadingInv, Verdicts
<1>9. Last(seen') = look BY <1>7 DEF Last
<1>10. call.files = <<>> => MayBeTaken(seen'[1].file)
  <2>1. CASE seen = <<>>
    <3>1. Len(seen) = 0 BY <2>1
    <3>2. seen'[1] = look BY <1>7, <3>1
    <3> QED BY <1>1, <1>6, <2>1, <3>2 DEF LoadingInv, Sought
  <2>2. CASE seen # <<>>
    <3>1. 1 \in 1 .. Len(seen) BY <1>5, <2>2
    <3>2. seen'[1] = seen[1] BY <1>7, <3>1
    <3> QED BY <2>2, <3>2 DEF LoadingInv, Sought
  <2> QED BY <2>1, <2>2
<1> QED BY <1>1, <1>4, <1>6, <1>7, <1>8, <1>9, <1>10 DEF Looks

\* While a file is read or worked on, the conjunct about finding it is easy.
LEMMA FoundStaysFound ==
  ASSUME LoadingInv, pc \in {"read", "override"}, pc' \in {"read", "override", "done"},
         UNCHANGED <<disk, changes, call, found>>, seen' # <<>>,
         call.files = <<>> => MayBeTaken(seen'[1].file)
  PROVE  Sought'
<1>1. (call.files = <<>> => MayBeTaken(seen[1].file))'
  <2>1. CASE call.files # <<>> BY <2>1
  <2>2. CASE call.files = <<>>
    <3>1. PICK file : file = seen'[1].file OBVIOUS
    <3>2. MayBeTaken(file) BY <2>2, <3>1
    <3>3. MayBeTaken(file)' BY <3>2, SameDisk
    <3> QED BY <3>1, <3>3 DEF MayBeTaken
  <2> QED BY <2>1, <2>2
<1>3. pc' \notin Seeking /\ ~ (pc' = "read" /\ seen' = <<>>) BY DEF Seeking
<1> QED BY <1>1, <1>3 DEF Sought, Seeking

\* The verdict on the file that was read last is handed on.
LEMMA DeliveryKeepsIt ==
  ASSUME LoadingInv, pc \in {"read", "override"}, NEW errors, NEW warnings, NEW text,
         Deliver(errors, warnings), UNCHANGED <<disk, changes, call, found>>,
         seen' \in Seq([file : Files, text : Texts \union {"absent"}]), seen' # <<>>,
         Len(seen') = Len(reports) + 1, seen'[Len(reports) + 1].text = text,
         \A i \in 1 .. Len(reports) : seen'[i] = seen[i],
         call.command = "version" => OutcomeFor(call, text) \notin {"usage", "crash"},
         call.command = "validate" => IsVerdict(call, text, Report(errors, warnings)),
         IsTree(document')
  PROVE  Typed' /\ Verdicts'
<1>1. call \in Calls /\ call.command \in Commands /\ call.files \in Seq(Files)
  BY CallsAreCalls DEF LoadingInv, Typed
<1>2. PICK S : reports \in Seq(S) BY DEF LoadingInv, Typed
<1>3. Len(reports) \in Nat BY <1>2
<1>4. Last(seen').text = text BY <1>3 DEF Last
<1>5. targets \in Seq(Files) /\ targets # <<>> BY DEF LoadingInv, Typed
<1>6. /\ Tail(targets) \in Seq(Files) /\ Len(Tail(targets)) = Len(targets) - 1
      /\ Len(targets) \in Nat \ {0}
  BY <1>5, HeadTailProperties, EmptySeq
<1>7. \A i \in 1 .. Len(reports) : IsVerdict(call, seen'[i].text, reports[i])
  BY DEF LoadingInv, Verdicts
<1>8. CASE call.command = "version"
  <2>1. /\ loaded' \in {"incompatible", "compatible"} /\ pc' = "done" /\ status' = 0
        /\ targets' = targets /\ reports' = reports
    BY <1>8 DEF Deliver, Exit
  <2>2. Typed' BY <1>2, <2>1 DEF LoadingInv, Typed, Seeking
  <2>3. Concluded' BY <1>4, <1>8, <2>1 DEF Concluded
  <2>4. reports = <<>> BY <1>8 DEF LoadingInv, Verdicts
  <2>5. Len(reports') <= Len(seen') BY <1>3, <2>1
  <2>6. Verdicts' BY <1>7, <1>8, <2>1, <2>3, <2>4, <2>5 DEF Verdicts
  <2> QED BY <2>2, <2>6
<1>9. CASE call.command = "validate"
  <2> DEFINE report == Report(errors, warnings)
             good == \A i \in DOMAIN reports' : IsOk(reports'[i])
  <2>1. /\ reports' = Append(reports, report) /\ targets' = Tail(targets) /\ loaded' = loaded
        /\ \/ Len(targets) > 1 /\ pc' = "read" /\ status' = status
           \/ ~ Len(targets) > 1 /\ pc' = "done" /\ status' = IF good THEN 0 ELSE 3
    BY <1>9 DEF Deliver, Exit, GoTo
  <2>2. IsVerdict(call, text, report) BY <1>9
  <2> HIDE DEF report, good
  <2>3. reports \in Seq(S \union {report}) BY <1>2, SeqMonotonic
  <2>4. /\ reports' \in Seq(S \union {report}) /\ Len(reports') = Len(reports) + 1
        /\ \A i \in 1 .. Len(reports) : reports'[i] = reports[i]
        /\ reports'[Len(reports) + 1] = report
    BY <2>1, <2>3, AppendProperties
  <2>5. Typed'
    <3>1. pc' = "read" => targets' # <<>>
      <4>1. CASE Len(targets) > 1
        <5>1. Len(Tail(targets)) # 0 BY <1>6, <4>1
        <5>2. Tail(targets) # <<>>
          <6>1. Len(<<>>) = 0 OBVIOUS
          <6> QED BY <5>1, <6>1
        <5> QED BY <2>1, <5>2
      <4>2. CASE ~ Len(targets) > 1 BY <2>1, <4>2
      <4> QED BY <4>1, <4>2
    <3>2. (\E T : reports \in Seq(T))' BY <2>4
    <3>3. pc' \in {"read", "done"} /\ status' \in {-1, 0, 1, 2, 3} BY <2>1 DEF LoadingInv, Typed
    <3> QED BY <1>6, <2>1, <3>1, <3>2, <3>3 DEF LoadingInv, Typed, Seeking
  <2>6. \A i \in 1 .. Len(reports') : IsVerdict(call, seen'[i].text, reports'[i])
    <3>1. SUFFICES ASSUME NEW i \in 1 .. Len(reports) + 1
                   PROVE  IsVerdict(call, seen'[i].text, reports'[i])
      BY <2>4
    <3>2. CASE i = Len(reports) + 1 BY <2>2, <2>4, <3>2
    <3>3. CASE i \in 1 .. Len(reports) BY <1>7, <2>4, <3>3
    <3> QED BY <1>3, <3>2, <3>3
  <2>7. call.files # <<>> => Len(targets) + Len(reports) = Len(call.files)
    BY DEF LoadingInv, Verdicts
  <2>8. /\ Len(targets') = Len(targets) - 1 /\ Len(call.files) \in Nat BY <1>1, <1>6, <2>1
  <2>9. call.files # <<>> => Len(targets') + Len(reports') = Len(call.files)
    <3> DEFINE a == Len(targets)
               b == Len(reports)
               c == Len(call.files)
    <3>1. a \in Nat /\ b \in Nat /\ c \in Nat /\ (call.files # <<>> => a + b = c)
      BY <1>3, <1>6, <2>7, <2>8
    <3>2. Len(targets') = a - 1 /\ Len(reports') = b + 1 BY <2>4, <2>8
    <3> HIDE DEF a, b, c
    <3>3. call.files # <<>> => (a - 1) + (b + 1) = c BY <3>1
    <3> QED BY <3>2, <3>3 DEF c
  <2>10. pc' = "done" => Concluded'
    <3>1. SUFFICES ASSUME pc' = "done"
                   PROVE  Concluded'
      OBVIOUS
    <3>2. ~ Len(targets) > 1 /\ status' = IF good THEN 0 ELSE 3 BY <2>1, <3>1
    <3>3. Len(targets) = 1 BY <1>6, <3>2
    <3>4. Len(seen') = Len(call.files) \/ call.files = <<>> BY <1>3, <2>7, <3>3
    <3>5. Len(seen') = Len(reports') BY <2>4
    <3>6. good <=> \A i \in 1 .. Len(reports') :
                    reports'[i].errors = {} /\ ~ (call.strict /\ reports'[i].warnings # {})
      <4>1. DOMAIN reports' = 1 .. Len(reports') BY <2>4
      <4> QED BY <4>1 DEF good, IsOk
    <3>7. status' = IF \A i \in 1 .. Len(reports') :
                         reports'[i].errors = {} /\ ~ (call.strict /\ reports'[i].warnings # {})
                    THEN 0 ELSE 3
      BY <3>2, <3>6
    <3> QED BY <1>9, <3>4, <3>5, <3>7 DEF Concluded, IsOk
  <2>11. pc' \in {"read", "done"} /\ (loaded' # "none" => pc' = "done")
    BY <2>1 DEF LoadingInv, Verdicts
  <2>12. Len(seen') = Len(reports') BY <2>4
  <2>13. Len(reports') <= Len(seen') BY <1>3, <2>4, <2>12
  <2>14. Verdicts' BY <1>9, <2>6, <2>9, <2>10, <2>11, <2>12, <2>13 DEF Verdicts
  <2> QED BY <2>5, <2>14
<1> QED BY <1>1, <1>8, <1>9 DEF Commands

\* What the verdict on a file does to the control and to the promise about overrides
LEMMA AfterDelivery ==
  ASSUME LoadingInv, pc \in {"read", "override"}, NEW errors, NEW warnings,
         Deliver(errors, warnings), UNCHANGED call, errors # {}
  PROVE  pc' \in {"read", "done"} /\ NoOverrideIsLost'
<1>1. call.command \in Commands BY CallsAreCalls DEF LoadingInv, Typed
<1>2. CASE call.command = "version"
  <2>1. loaded' = "incompatible" /\ pc' = "done" /\ reports' = reports
    BY <1>2 DEF Deliver, Exit
  <2>2. reports = <<>> BY <1>2 DEF LoadingInv, Verdicts
  <2> QED BY <2>1, <2>2 DEF NoOverrideIsLost
<1>3. CASE call.command = "validate"
  <2> DEFINE report == Report(errors, warnings)
  <2>1. PICK S : reports \in Seq(S) BY DEF LoadingInv, Typed
  <2>2. /\ reports' = Append(reports, report) /\ pc' \in {"read", "done"} /\ loaded' = loaded
    BY <1>3 DEF Deliver, Exit, GoTo
  <2>3. report.errors = errors BY DEF Report
  <2> HIDE DEF report
  <2>4. reports \in Seq(S \union {report}) BY <2>1, SeqMonotonic
  <2>5. Len(reports') = Len(reports) + 1 /\ reports'[Len(reports) + 1] = report
    BY <2>2, <2>4, AppendProperties
  <2>6. Last(reports') = report BY <2>5 DEF Last
  <2>7. loaded = "none" BY DEF LoadingInv, Verdicts
  <2> QED BY <2>2, <2>3, <2>6, <2>7 DEF NoOverrideIsLost
<1> QED BY <1>1, <1>2, <1>3 DEF Commands

\* No such file any more, not allowed, not YAML, or not a mapping
LEMMA FailingReadKeepsIt ==
  ASSUME LoadingInv, ReadFails
  PROVE  LoadingInv'
<1> DEFINE errors == {Finding("schema", <<>>)}
<1>1. /\ Look /\ Text \in {"absent", "locked", "broken", "scalar"} /\ Deliver(errors, {})
      /\ UNCHANGED <<disk, changes, call, found, document, ahead, applied>>
  BY DEF ReadFails
<1>2. /\ Text \in Unparsed \union {"absent"} /\ Text \notin {"undecodable", "impossible"}
  BY <1>1 DEF Unparsed
<1>3. /\ OutcomeFor(call, Text) = "invalid" /\ ErrorsFor(call, Text) = errors
      /\ WarningsFor(call, Text) = {}
  BY <1>2 DEF OutcomeFor, ErrorsFor, WarningsFor
<1>4. errors # {} OBVIOUS
<1> HIDE DEF errors
<1>5. IsVerdict(call, Text, Report(errors, {})) BY <1>3, <1>4 DEF IsVerdict, Report
<1>6. pc = "read" BY <1>1 DEF Look
<1>7. pc' \in {"read", "done"} /\ NoOverrideIsLost' BY <1>1, <1>4, <1>6, AfterDelivery
<1>8. Sought' BY <1>1, <1>6, <1>7, FoundStaysFound, Looking
<1>9. Typed' /\ Verdicts'
  <2>1. IsTree(document') BY <1>1 DEF LoadingInv, Typed
  <2>2. /\ seen' \in Seq([file : Files, text : Texts \union {"absent"}]) /\ seen' # <<>>
        /\ Len(seen') = Len(reports) + 1 /\ seen'[Len(reports) + 1].text = Text
        /\ \A i \in 1 .. Len(reports) : seen'[i] = seen[i]
    BY <1>1, Looking
  <2>3. OutcomeFor(call, Text) \notin {"usage", "crash"} BY <1>3
  <2> QED BY <1>1, <1>5, <1>6, <2>1, <2>2, <2>3, DeliveryKeepsIt
<1>10. Underway' /\ Winners' /\ Spoken' BY <1>1, <1>7 DEF LoadingInv, Underway, Winners, Spoken
<1> QED BY <1>7, <1>8, <1>9, <1>10 DEF LoadingInv

\* The command ends over the file that it read last.
LEMMA GivingUpKeepsIt ==
  ASSUME LoadingInv, pc \in {"read", "override"}, pc' = "done", status' \in {1, 2},
         UNCHANGED <<disk, changes, call, found, targets, unread>>,
         seen' \in Seq([file : Files, text : Texts \union {"absent"}]), seen' # <<>>,
         Len(seen') = Len(reports) + 1, \A i \in 1 .. Len(reports) : seen'[i] = seen[i],
         call.files = <<>> => MayBeTaken(seen'[1].file),
         status' = 1 => OutcomeFor(call, Last(seen').text) = "crash" \/ MayCrash(Last(seen').text),
         status' = 2 => OutcomeFor(call, Last(seen').text) = "usage"
  PROVE  LoadingInv'
<1>1. UNCHANGED <<document, ahead, applied, reports, loaded>> BY DEF unread
<1>2. Typed' BY <1>1 DEF LoadingInv, Typed, Seeking
<1>3. Sought' BY FoundStaysFound
<1>4. Underway' /\ Winners' /\ Spoken' BY <1>1 DEF LoadingInv, Underway, Winners, Spoken
<1>5. loaded = "none" BY DEF LoadingInv, Verdicts
<1>6. NoOverrideIsLost' BY <1>1, <1>5 DEF NoOverrideIsLost
<1>7. Concluded'
  <2>1. MayCrash(Last(seen').text) => MayCrash(Last(seen).text)' BY DEF MayCrash
  <2> QED BY <2>1 DEF Concluded
<1>8. Verdicts'
  <2>1. Len(reports) \in Nat BY DEF LoadingInv, Typed
  <2>2. Len(reports') <= Len(seen') BY <1>1, <2>1
  <2>3. \A i \in 1 .. Len(reports') : IsVerdict(call, seen'[i].text, reports'[i])
    BY <1>1 DEF LoadingInv, Verdicts
  <2>4. call.command = "version" => reports' = <<>> BY <1>1 DEF LoadingInv, Verdicts
  <2> QED BY <1>1, <1>5, <1>7, <2>2, <2>3, <2>4 DEF Verdicts
<1> QED BY <1>2, <1>3, <1>4, <1>6, <1>8 DEF LoadingInv

\* The bytes of the file are no text, or it names a date that does not exist.
LEMMA TrippingReadKeepsIt ==
  ASSUME LoadingInv, ReadTrips
  PROVE  LoadingInv'
<1>1. /\ Look /\ Text \in {"undecodable", "impossible"} /\ pc' = "done" /\ status' = 1
      /\ UNCHANGED <<disk, changes, call, found, targets, unread>>
  BY DEF ReadTrips, Exit
<1>2. /\ pc = "read" /\ seen' \in Seq([file : Files, text : Texts \union {"absent"}]) /\ seen' # <<>>
      /\ Len(seen') = Len(reports) + 1 /\ Last(seen').text = Text
      /\ \A i \in 1 .. Len(reports) : seen'[i] = seen[i]
      /\ call.files = <<>> => MayBeTaken(seen'[1].file)
  BY <1>1, Looking
<1>3. OutcomeFor(call, Last(seen').text) = "crash" BY <1>1, <1>2 DEF OutcomeFor
<1> QED BY <1>1, <1>2, <1>3, GivingUpKeepsIt

\* The document starts as what the file says.
LEMMA ReadingKeepsIt ==
  ASSUME LoadingInv, Read
  PROVE  LoadingInv'
<1>1. /\ Look /\ Text \notin Unparsed \union {"absent"} /\ document' = Parsed[Text]
      /\ ahead' = All(call) /\ applied' = <<>> /\ pc' = "override" /\ status' = status
      /\ UNCHANGED <<disk, changes, call, found, targets, reports, loaded>>
  BY DEF Read, GoTo, All
<1>2. /\ pc = "read" /\ seen' \in Seq([file : Files, text : Texts \union {"absent"}]) /\ seen' # <<>>
      /\ Text \in Texts \union {"absent"}
      /\ Len(seen') = Len(reports) + 1 /\ Last(seen').text = Text
      /\ \A i \in 1 .. Len(reports) : seen'[i] = seen[i]
      /\ call.files = <<>> => MayBeTaken(seen'[1].file)
  BY <1>1, Looking
<1>3. Text \in Texts \ (Unparsed \union {"absent"}) BY <1>1, <1>2
<1>4. IsTree(document') BY <1>1, <1>3, TextsAreTyped DEF IsTree, Paths
<1>5. Typed' BY <1>1, <1>2, <1>4 DEF LoadingInv, Typed, Seeking
<1>6. Sought' BY <1>1, <1>2, FoundStaysFound
<1>7. Spoken'
  <2>1. applied' \in Seq({}) /\ 1 .. Len(applied') = {} BY <1>1
  <2> QED BY <2>1 DEF Spoken
<1>8. Underway'
  <2>1. /\ Len(All(call)) \in Nat /\ All(call) \in Seq(Override)
    BY CallsAreCalls DEF LoadingInv, Typed
  <2>2. SubSeq(All(call), 1, Len(All(call))) = All(call) BY <2>1, SubSeqFull
  <2>3. Trail(call, Text)[0] = [doc |-> Parsed[Text], end |-> "fine"]
    BY <2>1, TrailIsStepwise DEF Unchanged
  <2>4. Len(applied') = 0 BY <1>1
  <2> QED BY <1>1, <1>2, <1>3, <2>1, <2>2, <2>3, <2>4 DEF Underway
<1>9. Winners'
  <2>1. DOMAIN applied' = {} BY <1>1
  <2>2. \A p : Touching(applied', p) = {} BY <2>1 DEF Touching
  <2> QED BY <1>1, <1>2, <2>2 DEF Winners, Said
<1>10. NoOverrideIsLost' BY <1>1, <1>2 DEF LoadingInv, Verdicts, NoOverrideIsLost
<1>11. Verdicts'
  <2>1. Len(reports) \in Nat BY DEF LoadingInv, Typed
  <2>2. \A i \in 1 .. Len(reports') : IsVerdict(call, seen'[i].text, reports'[i])
    BY <1>1, <1>2 DEF LoadingInv, Verdicts
  <2>3. Len(reports') <= Len(seen') BY <1>1, <1>2, <2>1
  <2>4. /\ call.command = "version" => reports' = <<>>
        /\ call.files # <<>> => Len(targets') + Len(reports') = Len(call.files)
        /\ loaded' = "none"
    BY <1>1, <1>2 DEF LoadingInv, Verdicts
  <2> QED BY <1>1, <1>2, <2>2, <2>3, <2>4 DEF Verdicts
<1> QED BY <1>5, <1>6, <1>7, <1>8, <1>9, <1>10, <1>11 DEF LoadingInv

-----------------------------------------------------------------------------
(* Applying an override keeps the invariant *)

LEMMA ValuesHaveKinds ==
  ASSUME NEW raw
  PROVE  Coerced(raw).kind \in Kinds
<1>1. Coerced(raw) \in {Val("bool", Plain[raw]), Null, Val("int", raw), Val("float", raw),
                        Val("str", raw)}
  <2>1. /\ raw \in Numerals \union Decimals => Plain[raw] \notin {"true", "false", "null", "none", "~"}
        /\ ~ (raw \in Numerals /\ raw \in Decimals)
    BY NumeralsAreNoWords
  <2> QED BY <2>1 DEF Coerced
<1>2. /\ Val("bool", Plain[raw]).kind = "bool" /\ Null.kind = "null"
      /\ Val("int", raw).kind = "int" /\ Val("float", raw).kind = "float"
      /\ Val("str", raw).kind = "str"
  BY DEF Val, Null
<1>3. {"bool", "null", "int", "float", "str"} \subseteq Kinds BY DEF Kinds
<1> QED BY <1>1, <1>2, <1>3

\* The one that is next, in the document as it stands
LEMMA TheNextOverride ==
  ASSUME LoadingInv, pc = "override", ahead # <<>>
  PROVE  LET k == Len(applied) + 1
             text == Last(seen).text
         IN /\ k \in 1 .. Len(All(call)) /\ k \in Nat
            /\ Len(All(call)) \in Nat
            /\ Tail(ahead) = SubSeq(All(call), k + 1, Len(All(call)))
            /\ IsSpoken(PathOf(Head(ahead)))
            /\ Trail(call, text)[k] =
                 AfterOne([doc |-> document, end |-> "fine"], Head(ahead), FromEnvironment)
            /\ FromEnvironment => call.env # <<>>
            /\ text \notin Unparsed \union {"absent"}
<1> DEFINE k == Len(applied) + 1
           text == Last(seen).text
<1>1. /\ k \in 1 .. Len(All(call)) /\ Head(ahead) = All(call)[k]
      /\ Tail(ahead) = SubSeq(All(call), k + 1, Len(All(call)))
      /\ FromEnvironment <=> k <= Len(call.env)
  BY NextOverride DEF LoadingInv
<1>2. Len(applied) \in Nat BY DEF LoadingInv, Spoken
<1>3. /\ Len(All(call)) \in Nat /\ Len(call.env) \in Nat
      /\ \A i \in 1 .. Len(All(call)) : IsSpoken(All(call)[i].path)
  BY CallsAreCalls DEF LoadingInv, Typed
<1>4. IsSpoken(Head(ahead).path) BY <1>1, <1>3
<1>5. IsSpoken(PathOf(Head(ahead)))
  BY <1>4, VariablesGoSomewhere DEF PathOf, LoadingInv, Typed
<1>6. Trail(call, text)[Len(applied)] = [doc |-> document, end |-> "fine"]
  BY DEF LoadingInv, Underway
<1>7. k - 1 = Len(applied) BY <1>2
<1>8. Trail(call, text)[k] = AfterOne(Trail(call, text)[k - 1], All(call)[k], k <= Len(call.env))
  <2> HIDE DEF k
  <2> QED BY <1>1, <1>3, TrailIsStepwise
<1>9. Trail(call, text)[k] = AfterOne([doc |-> document, end |-> "fine"], Head(ahead), FromEnvironment)
  <2> HIDE DEF k
  <2> QED BY <1>1, <1>6, <1>7, <1>8 DEF AfterOne
<1>10. FromEnvironment => call.env # <<>>
  <2>1. SUFFICES ASSUME FromEnvironment, call.env = <<>>
                 PROVE  FALSE
    OBVIOUS
  <2>2. Len(call.env) = 0 BY <2>1
  <2> QED BY <1>1, <2>1, <2>2
<1>11. text \notin Unparsed \union {"absent"} BY DEF LoadingInv, Underway
<1> QED BY <1>1, <1>2, <1>3, <1>5, <1>9, <1>10, <1>11

\* What is there after one more override is what the last of them says.
LEMMA TheLastOneWins ==
  ASSUME NEW doc, DOMAIN doc \subseteq Paths, NEW base, NEW S, NEW list \in Seq(S),
         NEW path \in Paths, NEW value, NEW p \in Paths, Node(doc, p) = Said(base, list, p)
  PROVE  Node(SetByPath(doc, path, value), p) =
           Said(base, Append(list, [path |-> path, value |-> value]), p)
<1> DEFINE new == SetByPath(doc, path, value)
           one == [path |-> path, value |-> value]
           more == Append(list, one)
           n == Len(list)
           over == Touching(list, p)
           overs == Touching(more, p)
<1>1. /\ p \in DOMAIN new <=>
           p = path \/ IsStrictPrefix(p, path) \/ (p \in DOMAIN doc /\ ~ IsPrefix(path, p))
      /\ p = path => new[p] = value
      /\ IsStrictPrefix(p, path) => new[p] = Map
      /\ p \in DOMAIN new /\ p # path /\ ~ IsStrictPrefix(p, path) => new[p] = doc[p]
  BY WhatIsSet
<1>2. one.path = path /\ one.value = value OBVIOUS
<1> HIDE DEF one
<1>3. /\ n \in Nat /\ DOMAIN list = 1 .. n /\ DOMAIN more = 1 .. n + 1
      /\ \A i \in 1 .. n : more[i] = list[i]
      /\ more[n + 1] = one
  <2>1. list \in Seq(S \union {one}) BY SeqMonotonic
  <2>2. /\ more \in Seq(S \union {one}) /\ Len(more) = n + 1
        /\ \A i \in 1 .. n : more[i] = list[i]
        /\ more[n + 1] = one
    BY <2>1, AppendProperties
  <2> QED BY <2>2, LenProperties
<1>4. IsStrictPrefix(p, path) <=> IsPrefix(p, path) /\ p # path BY DEF IsStrictPrefix
<1>5. IsPrefix(p, p) BY PrefixesAreOrdered
<1>6. IsPrefix(path, p) /\ IsPrefix(p, path) => p = path BY PrefixesAreOrdered
<1> HIDE DEF new, more, n
<1>7. CASE IsPrefix(path, p) \/ IsPrefix(p, path)
  <2>1. n + 1 \in overs BY <1>2, <1>3, <1>7 DEF Touching
  <2>2. overs \subseteq 1 .. n + 1 BY <1>3 DEF Touching
  <2> DEFINE last == CHOOSE i \in overs : \A j \in overs : j <= i
  <2>3. last = n + 1
    <3>1. \A j \in overs : j <= n + 1 BY <1>3, <2>2
    <3>2. last \in overs /\ \A j \in overs : j <= last BY <2>1, <3>1
    <3>3. n + 1 <= last /\ last <= n + 1 /\ last \in Int BY <2>1, <2>2, <3>1, <3>2
    <3> HIDE DEF last
    <3> QED BY <1>3, <3>3
  <2>4. Said(base, more, p) = IF path = p THEN value
                              ELSE IF IsPrefix(p, path) THEN Map ELSE Val("nothing", "")
    <3>1. overs # {} /\ more[last].path = path /\ more[last].value = value
      BY <1>2, <1>3, <2>1, <2>3
    <3>2. Said(base, more, p) =
            IF overs = {} THEN Node(base, p)
            ELSE IF more[last].path = p THEN more[last].value
            ELSE IF IsPrefix(p, more[last].path) THEN Map ELSE Val("nothing", "")
      BY DEF Said
    <3> HIDE DEF last, overs
    <3> QED BY <3>1, <3>2
  <2>5. Node(new, p) = Said(base, more, p) BY <1>1, <1>4, <1>6, <1>7, <2>4 DEF Node
  <2> QED BY <2>5 DEF new, more, one
<1>8. CASE ~ (IsPrefix(path, p) \/ IsPrefix(p, path))
  <2>1. n + 1 \notin overs BY <1>2, <1>3, <1>8 DEF Touching
  <2>2. overs = over
    <3>1. \A i \in 1 .. n : i \in overs <=> i \in over BY <1>3 DEF Touching
    <3>2. overs \subseteq 1 .. n
      <4>1. overs \subseteq 1 .. n + 1 BY <1>3 DEF Touching
      <4> QED BY <1>3, <2>1, <4>1
    <3>3. over \subseteq 1 .. n BY <1>3 DEF Touching
    <3> HIDE DEF over, overs
    <3> QED BY <3>1, <3>2, <3>3
  <2> DEFINE last == CHOOSE i \in over : \A j \in over : j <= i
  <2>3. over # {} => more[last] = list[last]
    <3>1. over \subseteq 1 .. n BY <1>3 DEF Touching
    <3>2. over # {} => \E i \in over : \A j \in over : j <= i
      <4>1. SUFFICES ASSUME over # {}
                     PROVE  \E i \in over : \A j \in over : j <= i
        OBVIOUS
      <4> DEFINE rests == {n - j : j \in over}
      <4> HIDE DEF over
      <4>6. \A j \in over : n - j \in Nat BY <1>3, <3>1
      <4>2. rests \in SUBSET Nat /\ rests # {} BY <4>1, <4>6
      <4> HIDE DEF rests
      <4>3. PICK m \in rests : \A r \in rests : m <= r BY <4>2, LeastNat
      <4>4. PICK i \in over : m = n - i BY <4>3 DEF rests
      <4>5. ASSUME NEW j \in over
            PROVE  j <= i
        <5>1. m <= n - j BY <4>3 DEF rests
        <5> QED BY <1>3, <3>1, <4>4, <5>1
      <4> QED BY <4>5
    <3> HIDE DEF over
    <3>3. over # {} => last \in over BY <3>2
    <3> HIDE DEF last
    <3> QED BY <1>3, <3>1, <3>3
  <2>4. Said(base, more, p) = Said(base, list, p) BY <2>2, <2>3 DEF Said
  <2>5. p # path BY <1>5, <1>8
  <2>6. Node(new, p) = Node(doc, p) BY <1>1, <1>4, <1>8, <2>5 DEF Node
  <2> QED BY <1>8, <2>4, <2>6 DEF new, more, one
<1> QED BY <1>7, <1>8

LEMMA ApplyingKeepsIt ==
  ASSUME LoadingInv, ApplyOverride
  PROVE  LoadingInv'
<1> DEFINE o == Head(ahead)
           path == PathOf(o)
           value == Coerced(o.raw)
           one == [path |-> path, value |-> value]
           text == Last(seen).text
           k == Len(applied) + 1
           new == SetByPath(document, path, value)
<1>1. /\ pc = "override" /\ ahead # <<>> /\ ~ (FromEnvironment /\ MustTrip(document, o.path))
      /\ CanSet(document, path) /\ document' = new /\ applied' = Append(applied, one)
      /\ ahead' = Tail(ahead)
      /\ UNCHANGED <<disk, changes, call, pc, found, targets, seen, reports, loaded, status>>
  BY DEF ApplyOverride
<1>2. /\ k \in 1 .. Len(All(call)) /\ k \in Nat /\ Len(All(call)) \in Nat
      /\ Tail(ahead) = SubSeq(All(call), k + 1, Len(All(call)))
      /\ IsSpoken(path)
      /\ Trail(call, text)[k] = AfterOne([doc |-> document, end |-> "fine"], o, FromEnvironment)
  BY <1>1, TheNextOverride
<1>3. path \in Paths /\ path # <<>> /\ value.kind \in Kinds
  BY <1>1, <1>2, ValuesHaveKinds DEF IsSpoken, CanSet
<1>4. IsTree(document) BY DEF LoadingInv, Typed
<1>5. IsTree(new) BY <1>3, <1>4, DocumentsStayTrees
<1>6. one.path = path /\ one.value = value OBVIOUS
<1>7. Trail(call, text)[k] = [doc |-> new, end |-> "fine"]
  <2>1. path = IF FromEnvironment THEN EnvPath(document, o.path) ELSE o.path BY DEF PathOf
  <2>2. AfterOne([doc |-> document, end |-> "fine"], o, FromEnvironment) =
          [[doc |-> document, end |-> "fine"] EXCEPT !.doc = new]
    <3> HIDE DEF path, value, o
    <3> QED BY <1>1, <2>1 DEF AfterOne, value
  <2> HIDE DEF new
  <2>3. [[doc |-> document, end |-> "fine"] EXCEPT !.doc = new] = [doc |-> new, end |-> "fine"]
    OBVIOUS
  <2> QED BY <1>2, <2>2, <2>3
<1>8. PICK S : applied \in Seq(S) BY DEF LoadingInv, Spoken
<1>9. /\ applied' \in Seq(S \union {one}) /\ Len(applied') = k
      /\ \A i \in 1 .. Len(applied) : applied'[i] = applied[i]
      /\ applied'[k] = one
  <2> HIDE DEF one
  <2>1. applied \in Seq(S \union {one}) BY <1>8, SeqMonotonic
  <2> QED BY <1>1, <2>1, AppendProperties
<1>10. Typed' BY <1>1, <1>5 DEF LoadingInv, Typed
<1>11. Sought'
  <2>1. seen # <<>> BY <1>1 DEF LoadingInv, Underway
  <2>2. call.files = <<>> => MayBeTaken(seen[1].file) BY <2>1 DEF LoadingInv, Sought
  <2>3. seen' # <<>> /\ (call.files = <<>> => MayBeTaken(seen'[1].file)) BY <1>1, <2>1, <2>2
  <2> QED BY <1>1, <2>3, FoundStaysFound
<1>12. Spoken'
  <2>1. \A i \in 1 .. Len(applied) : IsSpoken(applied[i].path) /\ applied[i].value.kind \in Kinds
    BY DEF LoadingInv, Spoken
  <2>2. Len(applied) \in Nat BY <1>8
  <2>3. \A i \in 1 .. k : i \in 1 .. Len(applied) \/ i = k BY <2>2
  <2>4. \A i \in 1 .. Len(applied') : IsSpoken(applied'[i].path) /\ applied'[i].value.kind \in Kinds
    <3> HIDE DEF path, value, one, k
    <3> QED BY <1>2, <1>3, <1>6, <1>9, <2>1, <2>3
  <2> QED BY <1>9, <2>4 DEF Spoken
<1>13. \A p \in DOMAIN new \ {<<>>} : Last(p) \in NonText => p \in DOMAIN Parsed[text]
  <2>1. SUFFICES ASSUME NEW p \in DOMAIN new \ {<<>>}, Last(p) \in NonText
                 PROVE  p \in DOMAIN document
    BY <1>1 DEF LoadingInv, Underway
  <2>2. p \in Paths BY <1>5 DEF IsTree
  <2>3. p = path \/ IsStrictPrefix(p, path) \/ p \in DOMAIN document
    BY <1>3, <1>4, <2>2, WhatIsSet DEF IsTree
  <2>4. Len(p) \in Nat \ {0} BY <2>1, <2>2, EmptySeq DEF Paths
  <2>5. \A n \in 1 .. Len(path) : path[n] \notin NonText BY <1>2 DEF IsSpoken
  <2>6. Last(p) = p[Len(p)] BY DEF Last
  <2>7. p # path
    <3> HIDE DEF path
    <3> QED BY <2>1, <2>4, <2>5, <2>6
  <2>8. ~ IsStrictPrefix(p, path)
    <3>1. SUFFICES ASSUME IsPrefix(p, path)
                   PROVE  FALSE
      BY DEF IsStrictPrefix
    <3>2. Len(p) <= Len(path) /\ \A i \in 1 .. Len(p) : p[i] = path[i]
      BY <1>3, <2>2, <3>1, PrefixMeans
    <3>3. Len(path) \in Nat BY <1>3 DEF Paths
    <3>4. Len(p) \in 1 .. Len(path) /\ p[Len(p)] = path[Len(p)]
      <4> HIDE DEF path
      <4> QED BY <2>4, <3>2, <3>3
    <3> QED BY <2>1, <2>5, <2>6, <3>4
  <2> QED BY <2>3, <2>7, <2>8
<1>14. Underway'
  <2>1. seen' = seen /\ call' = call /\ pc' = "override" BY <1>1
  <2>2. seen # <<>> /\ text \in Texts \ (Unparsed \union {"absent"}) BY <1>1 DEF LoadingInv, Underway
  <2>3. ahead' = SubSeq(All(call), Len(applied') + 1, Len(All(call))) BY <1>1, <1>2, <1>9
  <2>4. Len(applied') <= Len(All(call)) BY <1>2, <1>9
  <2>5. Trail(call, text)[Len(applied')] = [doc |-> document', end |-> "fine"] BY <1>1, <1>7, <1>9
  <2>6. \A p \in DOMAIN document' \ {<<>>} : Last(p) \in NonText => p \in DOMAIN Parsed[text]
    BY <1>1, <1>13
  <2> QED BY <2>1, <2>2, <2>3, <2>4, <2>5, <2>6 DEF Underway
<1>15. Winners'
  <2>1. ASSUME NEW p \in Paths
        PROVE  Node(new, p) = Said(Parsed[text], Append(applied, one), p)
    <3>1. Node(document, p) = Said(Parsed[text], applied, p) BY <1>1 DEF LoadingInv, Winners
    <3>2. DOMAIN document \subseteq Paths BY <1>4 DEF IsTree
    <3> QED BY <1>3, <1>8, <3>1, <3>2, TheLastOneWins
  <2> QED BY <1>1, <2>1 DEF Winners
<1>16. loaded = "none" BY <1>1 DEF LoadingInv, Verdicts
<1>17. NoOverrideIsLost' BY <1>1, <1>16 DEF NoOverrideIsLost
<1>18. Verdicts' BY <1>1 DEF LoadingInv, Verdicts
<1> QED BY <1>10, <1>11, <1>12, <1>14, <1>15, <1>17, <1>18 DEF LoadingInv

\* An override that is refused, or trips over a key, ends the command.
LEMMA RefusingKeepsIt ==
  ASSUME LoadingInv, RefuseOverride \/ TripOverOverride
  PROVE  LoadingInv'
<1> DEFINE text == Last(seen).text
           o == Head(ahead)
           path == PathOf(o)
           k == Len(applied) + 1
           n == Len(All(call))
<1>1. /\ pc = "override" /\ ahead # <<>> /\ pc' = "done" /\ status' \in {1, 2}
      /\ UNCHANGED <<disk, changes, call, found, targets, seen, unread>>
  BY DEF RefuseOverride, TripOverOverride, Exit
<1>2. /\ k \in 1 .. n /\ k \in Nat /\ n \in Nat
      /\ Trail(call, text)[k] = AfterOne([doc |-> document, end |-> "fine"], o, FromEnvironment)
      /\ FromEnvironment => call.env # <<>>
      /\ text \notin Unparsed \union {"absent"}
  BY <1>1, TheNextOverride
<1>3. /\ seen # <<>> /\ seen \in Seq([file : Files, text : Texts \union {"absent"}])
      /\ Len(seen) = Len(reports) + 1
      /\ call.files = <<>> => MayBeTaken(seen[1].file)
  BY <1>1 DEF LoadingInv, Typed, Underway, Verdicts, Sought
<1>4. status' = 2 => OutcomeFor(call, text) = "usage"
  <2>1. SUFFICES ASSUME status' = 2
                 PROVE  OutcomeFor(call, text) = "usage"
    OBVIOUS
  <2>2. ~ (FromEnvironment /\ MustTrip(document, o.path)) /\ ~ CanSet(document, path)
    BY <2>1 DEF RefuseOverride, TripOverOverride, Exit
  <2>3. AfterOne([doc |-> document, end |-> "fine"], o, FromEnvironment) =
          [[doc |-> document, end |-> "fine"] EXCEPT !.end = "usage"]
    <3>1. path = IF FromEnvironment THEN EnvPath(document, o.path) ELSE o.path BY DEF PathOf
    <3> HIDE DEF path, o
    <3> QED BY <2>2, <3>1 DEF AfterOne
  <2>4. Trail(call, text)[k].end = "usage" BY <1>2, <2>3
  <2>5. Trail(call, text)[n].end = "usage"
    <3>1. k \in 0 .. n BY <1>2
    <3> HIDE DEF k
    <3> QED BY <1>2, <2>4, <3>1, TrailEnds
  <2> QED BY <1>2, <2>5 DEF OutcomeFor, Judged, Unparsed
<1>5. status' = 1 => MayCrash(text)
  <2>1. SUFFICES ASSUME status' = 1
                 PROVE  MayCrash(text)
    OBVIOUS
  <2>2. FromEnvironment /\ MayTrip(document, o.path)
    BY <2>1 DEF RefuseOverride, TripOverOverride, Exit
  <2>3. \E q \in DOMAIN document \ {<<>>} : Last(q) \in NonText
    BY <2>2 DEF MayTrip, Odd
  <2>4. \E p \in DOMAIN Parsed[text] : p # <<>> /\ Last(p) \in NonText
    BY <1>1, <2>3 DEF LoadingInv, Underway
  <2> QED BY <1>2, <2>2, <2>4 DEF MayCrash
<1>6. /\ seen' = seen /\ seen' # <<>> /\ Len(seen') = Len(reports) + 1
      /\ seen' \in Seq([file : Files, text : Texts \union {"absent"}])
      /\ call.files = <<>> => MayBeTaken(seen'[1].file)
      /\ \A i \in 1 .. Len(reports) : seen'[i] = seen[i]
  BY <1>1, <1>3
<1> QED BY <1>1, <1>4, <1>5, <1>6, GivingUpKeepsIt

-----------------------------------------------------------------------------
(* Validating keeps the invariant *)

\* A document that the schema takes has no key that it does not know.
LEMMA GoodDocumentsHoldNothingUnexpected ==
  ASSUME NEW doc, DOMAIN doc \subseteq Paths, SchemaErrors(doc) = {}
  PROVE  Unexpected(doc) = {}
<1> DEFINE early == Early(doc)
           late == Late(doc)
           spec == {<<"spec">> : p \in {q \in late : Len(q) = 2 /\ ~ \E e \in early : e[1] = "spec"}}
           root == {<<>> : p \in {q \in late : Len(q) = 1 /\ early \union spec = {}}}
<1>1. early = {} /\ spec = {} /\ root = {}
  <2>1. SchemaErrors(doc) = early \union spec \union root BY DEF SchemaErrors
  <2> HIDE DEF early, spec, root
  <2> QED BY <2>1
<1>2. \A q \in late : Len(q) # 2
  <2> HIDE DEF late, early
  <2>1. ASSUME NEW q \in late, Len(q) = 2
        PROVE  <<"spec">> \in spec
    BY <1>1, <2>1
  <2> QED BY <1>1, <2>1
<1>3. \A q \in late : Len(q) # 1
  <2>1. ASSUME NEW q \in late, Len(q) = 1
        PROVE  <<>> \in root
    <3> HIDE DEF late, early, spec
    <3> QED BY <1>1, <2>1
  <2> QED BY <1>1, <2>1
<1>4. Unexpected(doc) \subseteq late BY <1>1 DEF Early
<1>5. ASSUME NEW q \in late
      PROVE  Front(q) \in Known /\ (Front(q) # <<>> => Front(q) = <<"spec">>)
  <2>1. IsExtensible(FieldAt(Front(q))) BY <1>5 DEF Late
  <2>2. FieldAt(Front(q)).is = "model" BY <2>1 DEF IsExtensible, IsModel
  <2>3. CASE Front(q) = <<>> BY <2>3 DEF Known
  <2>4. CASE Front(q) # <<>> /\ Front(q) \in Known
    <3>1. FieldAt(Front(q)) = Sections[Front(Front(q))][Last(Front(q))] BY <2>4 DEF FieldAt
    <3> QED BY <2>1, <2>4, <3>1, OnlySpecIsExtensible
  <2>5. CASE Front(q) # <<>> /\ Front(q) \notin Known
    <3>1. FieldAt(Front(q)) \in {Str, ListOf("strings"), Field("any", {}, 0)}
      BY <2>5 DEF FieldAt
    <3>2. Str.is = "str" /\ ListOf("strings").is = "list" /\ Field("any", {}, 0).is = "any"
      BY DEF Str, ListOf, Field
    <3> QED BY <2>2, <3>1, <3>2
  <2> QED BY <2>3, <2>4, <2>5
<1>6. ASSUME NEW q \in late
      PROVE  FALSE
  <2>1. q \in Paths /\ q # <<>> BY <1>6 DEF Late, Unexpected, Known
  <2>2. Len(q) \in Nat /\ Len(Front(q)) = Len(q) - 1 BY <2>1, FrontIsNearest DEF Paths
  <2>3. Len(<<>>) = 0 /\ Len(<<"spec">>) = 1 OBVIOUS
  <2> HIDE DEF late
  <2>4. Len(Front(q)) \in {0, 1} BY <1>5, <1>6, <2>3
  <2>5. Len(q) \in {1, 2} BY <2>2, <2>4
  <2> QED BY <1>2, <1>3, <1>6, <2>5
<1> QED BY <1>4, <1>6

\* Where the last of the overrides stands that nothing threw out, there is something.
LEMMA AnOverrideIsThere ==
  ASSUME NEW doc, IsTree(doc), NEW base, NEW S, NEW list \in Seq(S), NEW i \in 1 .. Len(list),
         \A j \in 1 .. Len(list) : IsSpoken(list[j].path) /\ list[j].value.kind \in Kinds,
         \A p \in Paths : Node(doc, p) = Said(base, list, p),
         \A j \in i + 1 .. Len(list) : ~ IsPrefix(list[j].path, list[i].path)
  PROVE  list[i].path \in DOMAIN doc
<1> DEFINE path == list[i].path
           n == Len(list)
           over == Touching(list, path)
           last == CHOOSE l \in over : \A j \in over : j <= l
           rests == {n - j : j \in over}
<1>1. n \in Nat /\ DOMAIN list = 1 .. n BY LenProperties
<1>2. path \in Paths BY DEF IsSpoken
<1>3. over \subseteq 1 .. n /\ i \in over
  <2>1. IsPrefix(path, path) BY <1>2, PrefixesAreOrdered
  <2> QED BY <1>1, <2>1 DEF Touching
<1>4. last \in over /\ \A j \in over : j <= last
  <2> HIDE DEF over
  <2>1. \A j \in over : n - j \in Nat BY <1>1, <1>3
  <2>2. rests \in SUBSET Nat /\ rests # {} BY <1>3, <2>1
  <2> HIDE DEF rests
  <2>3. PICK m \in rests : \A r \in rests : m <= r BY <2>2, LeastNat
  <2>4. PICK l \in over : m = n - l BY <2>3 DEF rests
  <2>5. ASSUME NEW j \in over
        PROVE  j <= l
    <3>1. m <= n - j BY <2>3 DEF rests
    <3> QED BY <1>1, <1>3, <2>4, <3>1
  <2> QED BY <2>5
<1>5. last \in 1 .. n /\ i <= last BY <1>3, <1>4
<1>6. Said(base, list, path) = IF over = {} THEN Node(base, path)
                               ELSE IF list[last].path = path THEN list[last].value
                               ELSE IF IsPrefix(path, list[last].path) THEN Map
                               ELSE Val("nothing", "")
  BY DEF Said
<1>7. IsPrefix(list[last].path, path) \/ IsPrefix(path, list[last].path)
  BY <1>4 DEF Touching
<1> HIDE DEF over, last, path, n
<1>8. list[last].path = path \/ IsPrefix(path, list[last].path)
  <2>1. last = i \/ last \in i + 1 .. n BY <1>5
  <2> QED BY <1>7, <2>1 DEF path, n
<1>9. Said(base, list, path).kind \in Kinds
  <2>1. Map.kind \in Kinds BY DEF Map, Val, Kinds
  <2>2. list[last].value.kind \in Kinds BY <1>5 DEF n
  <2>3. over # {} BY <1>3
  <2> QED BY <1>6, <1>8, <2>1, <2>2, <2>3
<1>10. Node(doc, path).kind \in Kinds BY <1>2, <1>9
<1>11. Val("nothing", "").kind \notin Kinds BY DEF Val, Kinds
<1>12. path \in DOMAIN doc BY <1>10, <1>11 DEF Node
<1> QED BY <1>12 DEF path

\* With a path, all of its beginnings are there.
LEMMA BeginningsAreThere ==
  ASSUME NEW doc, IsTree(doc), NEW path \in DOMAIN doc, NEW m \in 0 .. Len(path)
  PROVE  SubSeq(path, 1, m) \in DOMAIN doc
<1> DEFINE n == Len(path)
           S == {k \in Nat : k <= n => SubSeq(path, 1, n - k) \in DOMAIN doc}
<1>1. path \in Paths BY DEF IsTree
<1>2. n \in Nat BY <1>1 DEF Paths
<1>3. 0 \in S
  <2>1. SubSeq(path, 1, n) = path BY <1>1, SubSeqFull DEF Paths
  <2>2. n - 0 = n BY <1>2
  <2> HIDE DEF n
  <2> QED BY <2>1, <2>2
<1>4. ASSUME NEW k \in S, k < n
      PROVE  k + 1 \in S
  <2> DEFINE q == SubSeq(path, 1, n - k)
             l == n - k
  <2>1. k \in Nat /\ l \in 1 .. n /\ l - 1 = n - (k + 1) /\ k + 1 \in Nat
    <3>1. k \in Nat OBVIOUS
    <3> HIDE DEF n, S
    <3> QED BY <1>2, <1>4, <3>1
  <2>2. q \in DOMAIN doc BY <1>2, <1>4
  <2>3. /\ q \in Paths /\ Len(q) = l /\ \A j \in 1 .. l : q[j] = path[j]
    <3> HIDE DEF l, S
    <3>1. l \in 0 .. n BY <2>1
    <3>2. /\ SubSeq(path, 1, l) \in Paths /\ Len(SubSeq(path, 1, l)) = l
          /\ \A j \in 1 .. l : SubSeq(path, 1, l)[j] = path[j]
      BY <1>1, <3>1, Beginnings
    <3> QED BY <3>2 DEF l
  <2>4. q # <<>>
    <3>1. Len(<<>>) = 0 OBVIOUS
    <3> HIDE DEF q, l
    <3> QED BY <2>1, <2>3, <3>1
  <2>5. Front(q) \in DOMAIN doc BY <2>2, <2>4 DEF IsTree, IsDocument
  <2>6. Front(q) = SubSeq(path, 1, l - 1)
    <3>1. Front(q) = SubSeq(q, 1, l - 1) BY <2>3 DEF Front
    <3>2. /\ SubSeq(q, 1, l - 1) \in Paths /\ Len(SubSeq(q, 1, l - 1)) = l - 1
          /\ \A j \in 1 .. l - 1 : SubSeq(q, 1, l - 1)[j] = q[j]
      <4>1. l - 1 \in 0 .. Len(q) BY <2>1, <2>3
      <4> HIDE DEF q, l
      <4> QED BY <2>3, <4>1, Beginnings
    <3>3. /\ SubSeq(path, 1, l - 1) \in Paths /\ Len(SubSeq(path, 1, l - 1)) = l - 1
          /\ \A j \in 1 .. l - 1 : SubSeq(path, 1, l - 1)[j] = path[j]
      <4>1. l - 1 \in 0 .. n BY <2>1
      <4> HIDE DEF l
      <4> QED BY <1>1, <4>1, Beginnings
    <3>4. \A j \in 1 .. l - 1 : j \in 1 .. l BY <2>1
    <3> DEFINE a == SubSeq(q, 1, l - 1)
               b == SubSeq(path, 1, l - 1)
    <3>5. a = b
      <4>1. a \in Seq(STRING) /\ b \in Seq(STRING) /\ Len(a) = Len(b) BY <3>2, <3>3 DEF Paths
      <4>2. \A j \in 1 .. Len(a) : a[j] = b[j] BY <2>3, <3>2, <3>3, <3>4
      <4> HIDE DEF a, b
      <4> QED BY <4>1, <4>2, SeqEqual
    <3> QED BY <3>1, <3>5
  <2>7. SubSeq(path, 1, n - (k + 1)) \in DOMAIN doc
    <3> HIDE DEF q, l, n
    <3> QED BY <2>1, <2>5, <2>6
  <2> HIDE DEF n
  <2> QED BY <2>1, <2>7
<1>5. n - m \in S
  <2>1. S \in SUBSET Nat OBVIOUS
  <2>2. n - m \in 0 .. n BY <1>2
  <2> HIDE DEF S, n
  <2>3. 0 .. n \subseteq S BY <1>2, <1>3, <1>4, <2>1, Induction
  <2> QED BY <2>2, <2>3
<1>6. n - m <= n /\ n - (n - m) = m BY <1>2
<1> HIDE DEF n
<1> QED BY <1>5, <1>6

\* No key on the way of an override into a good document is unknown to its model.
LEMMA NothingStrangeOnTheWay ==
  ASSUME NEW doc, IsTree(doc), Unexpected(doc) = {}, NEW path \in DOMAIN doc,
         NEW n \in 1 .. Len(path), IsModel(FieldAt(SubSeq(path, 1, n - 1)))
  PROVE  \/ SubSeq(path, 1, n) \in Known
         \/ IsExtensible(FieldAt(SubSeq(path, 1, n - 1))) /\ path[n] \in XKeys
<1> DEFINE q == SubSeq(path, 1, n)
<1>1. path \in Paths /\ Len(path) \in Nat BY DEF IsTree, Paths
<1>2. n \in 0 .. Len(path) BY <1>1
<1>3. q \in DOMAIN doc BY <1>2, BeginningsAreThere
<1>4. q \in Paths /\ Len(q) = n /\ (\A j \in 1 .. n : q[j] = path[j])
  BY <1>1, <1>2, Beginnings
<1>5. Last(q) = path[n]
  <2>1. n \in 1 .. n BY <1>1
  <2> QED BY <1>4, <2>1 DEF Last
<1>6. Front(q) = SubSeq(path, 1, n - 1)
  <2> DEFINE a == SubSeq(q, 1, n - 1)
             b == SubSeq(path, 1, n - 1)
  <2>1. Front(q) = a BY <1>4 DEF Front
  <2>2. n - 1 \in 0 .. Len(q) /\ n - 1 \in 0 .. Len(path) BY <1>1, <1>4
  <2>3. a \in Paths /\ Len(a) = n - 1 /\ \A j \in 1 .. n - 1 : a[j] = q[j]
    <3> HIDE DEF q
    <3> QED BY <1>4, <2>2, Beginnings
  <2>4. b \in Paths /\ Len(b) = n - 1 /\ \A j \in 1 .. n - 1 : b[j] = path[j]
    BY <1>1, <2>2, Beginnings
  <2>5. \A j \in 1 .. n - 1 : j \in 1 .. n BY <1>1
  <2>6. \A j \in 1 .. n - 1 : a[j] = b[j]
    <3> HIDE DEF a, b, q
    <3> QED BY <1>4, <2>3, <2>4, <2>5
  <2> HIDE DEF a, b
  <2>7. a = b BY <2>3, <2>4, <2>6, SeqEqual DEF Paths
  <2> QED BY <2>1, <2>7 DEF b
<1> HIDE DEF q
<1>7. q \in Known \/ ~ (IsModel(FieldAt(Front(q))) /\ ~ (IsExtensible(FieldAt(Front(q))) /\ Last(q) \in XKeys))
  BY <1>3 DEF Unexpected
<1> QED BY <1>5, <1>6, <1>7 DEF q

\* When none of the overrides is left, all of them have been applied.
LEMMA NoneIsLeft ==
  ASSUME LoadingInv, pc = "override", ahead = <<>>
  PROVE  Len(applied) = Len(All(call))
<1> DEFINE n == Len(All(call))
           k == Len(applied)
           left == SubSeq(All(call), k + 1, n)
<1>1. k <= n /\ ahead = left BY DEF LoadingInv, Underway
<1>2. k \in Nat BY DEF LoadingInv, Spoken
<1>3. All(call) \in Seq(Override) /\ n \in Nat BY CallsAreCalls DEF LoadingInv, Typed
<1>4. Len(left) = 0
  <2> HIDE DEF left
  <2>1. left = <<>> BY <1>1
  <2> QED BY <2>1
<1>5. \A i \in 1 .. n : All(call)[i] \in Override BY <1>3, ElementOfSeq
<1> HIDE DEF k, n
<1>6. \A i \in k + 1 .. n : All(call)[i] \in Override BY <1>2, <1>5
<1>7. k + 1 \in Int /\ n \in Int BY <1>2, <1>3
<1>8. Len(left) = IF k + 1 <= n THEN n - (k + 1) + 1 ELSE 0 BY <1>6, <1>7, SubSeqProperties
<1>9. k = n BY <1>1, <1>2, <1>3, <1>4, <1>8
<1> QED BY <1>9 DEF k, n

\* What passes has had every override, where the schema knows of it.
LEMMA PassedWithAllOfThem ==
  ASSUME LoadingInv, pc = "override", ahead = <<>>, ParseErrors(document) = {}
  PROVE  /\ Len(applied) = Len(All(call))
         /\ \A i \in 1 .. Len(applied) :
              \/ \A n \in 1 .. Len(applied[i].path) :
                   IsModel(FieldAt(SubSeq(applied[i].path, 1, n - 1))) =>
                     \/ SubSeq(applied[i].path, 1, n) \in Known
                     \/ /\ IsExtensible(FieldAt(SubSeq(applied[i].path, 1, n - 1)))
                        /\ applied[i].path[n] \in XKeys
              \/ \E j \in i + 1 .. Len(applied) : IsPrefix(applied[j].path, applied[i].path)
<1> DEFINE n == Len(All(call))
           k == Len(applied)
<1>2. PICK S : applied \in Seq(S) BY DEF LoadingInv, Spoken
<1>4. k = n BY NoneIsLeft
<1>5. IsTree(document) /\ DOMAIN document \subseteq Paths BY DEF LoadingInv, Typed, IsTree
<1>6. SchemaErrors(document) = {}
  <2>1. \A p \in IF Envelope(document) # {} THEN Envelope(document) ELSE SchemaErrors(document) :
          Finding("schema", p) \in ParseErrors(document)
    BY DEF ParseErrors
  <2> QED BY <2>1
<1>7. Unexpected(document) = {} BY <1>5, <1>6, GoodDocumentsHoldNothingUnexpected
<1>8. ASSUME NEW i \in 1 .. k, \A j \in i + 1 .. k : ~ IsPrefix(applied[j].path, applied[i].path)
      PROVE  applied[i].path \in DOMAIN document
  <2>1. \A j \in 1 .. k : IsSpoken(applied[j].path) /\ applied[j].value.kind \in Kinds
    BY DEF LoadingInv, Spoken
  <2>2. \A p \in Paths : Node(document, p) = Said(Parsed[Last(seen).text], applied, p)
    BY DEF LoadingInv, Winners
  <2> QED BY <1>2, <1>5, <1>8, <2>1, <2>2, AnOverrideIsThere
<1>9. ASSUME NEW i \in 1 .. k, \A j \in i + 1 .. k : ~ IsPrefix(applied[j].path, applied[i].path),
             NEW m \in 1 .. Len(applied[i].path), IsModel(FieldAt(SubSeq(applied[i].path, 1, m - 1)))
      PROVE  \/ SubSeq(applied[i].path, 1, m) \in Known
             \/ /\ IsExtensible(FieldAt(SubSeq(applied[i].path, 1, m - 1)))
                /\ applied[i].path[m] \in XKeys
  BY <1>5, <1>7, <1>8, <1>9, NothingStrangeOnTheWay
<1> QED BY <1>4, <1>9

LEMMA ValidatingKeepsIt ==
  ASSUME LoadingInv, Validate
  PROVE  LoadingInv'
<1> DEFINE text == Last(seen).text
           n == Len(All(call))
           final == Trail(call, text)[n]
           errors == IF ParseErrors(document) # {} \/ call.command = "version"
                     THEN ParseErrors(document) ELSE SemanticErrors(document)
           warnings == IF ParseErrors(document) # {} \/ call.command = "version"
                       THEN {} ELSE SemanticWarnings(document)
<1>1. /\ pc = "override" /\ ahead = <<>> /\ ~ EnvelopeTrips(document)
      /\ UNCHANGED <<disk, changes, call, found, seen, document, ahead, applied>>
  BY DEF Validate
<1>2. Deliver(errors, warnings) BY DEF Validate
<1>3. call \in Calls /\ call.command \in Commands BY CallsAreCalls DEF LoadingInv, Typed
<1>4. final = [doc |-> document, end |-> "fine"]
  <2>1. Len(applied) = n BY <1>1, NoneIsLeft
  <2> QED BY <1>1, <2>1 DEF LoadingInv, Underway
<1>5. text \notin Unparsed \union {"absent"} /\ seen # <<>> BY <1>1 DEF LoadingInv, Underway
<1>6. OutcomeFor(call, text) = IF ParseErrors(document) # {} \/ SemanticErrors(document) # {}
                               THEN "invalid"
                               ELSE IF SemanticWarnings(document) # {} THEN "warned" ELSE "valid"
  <2>1. OutcomeFor(call, text) = Judged(final) BY <1>5 DEF OutcomeFor, Unparsed
  <2>2. final.doc = document /\ final.end = "fine" BY <1>4
  <2> HIDE DEF final
  <2> QED BY <1>1, <2>1, <2>2 DEF Judged
<1>7. OutcomeFor(call, text) \notin {"usage", "crash"} BY <1>6
<1>8. call.command = "validate" => IsVerdict(call, text, Report(errors, warnings))
  <2>1. SUFFICES ASSUME call.command = "validate"
                 PROVE  IsVerdict(call, text, Report(errors, warnings))
    OBVIOUS
  <2>2. final.doc = document BY <1>4
  <2>3. ErrorsFor(call, text) = errors /\ WarningsFor(call, text) = warnings
    BY <1>5, <2>1, <2>2 DEF ErrorsFor, WarningsFor
  <2>4. OutcomeFor(call, text) = IF errors # {} THEN "invalid"
                                 ELSE IF warnings # {} THEN "warned" ELSE "valid"
    BY <1>6, <2>1
  <2>5. Report(errors, warnings).errors = errors /\ Report(errors, warnings).warnings = warnings
    BY DEF Report
  <2> HIDE DEF errors, warnings
  <2> QED BY <2>3, <2>4, <2>5 DEF IsVerdict
<1>9. errors = {} => ParseErrors(document) = {} OBVIOUS
<1> HIDE DEF errors, warnings
<1>10. PICK S : reports \in Seq(S) BY DEF LoadingInv, Typed
<1>11. pc' \in {"read", "done"} BY <1>2, <1>3 DEF Deliver, Exit, GoTo
<1>12. /\ seen \in Seq([file : Files, text : Texts \union {"absent"}])
       /\ Len(seen) = Len(reports) + 1 /\ Len(reports) \in Nat
       /\ call.files = <<>> => MayBeTaken(seen[1].file)
  BY <1>1, <1>5, <1>10 DEF LoadingInv, Typed, Verdicts, Sought
<1>13. Sought' BY <1>1, <1>5, <1>11, <1>12, FoundStaysFound
<1>14. Typed' /\ Verdicts'
  <2>1. /\ seen' \in Seq([file : Files, text : Texts \union {"absent"}]) /\ seen' # <<>>
        /\ Len(seen') = Len(reports) + 1 /\ seen'[Len(reports) + 1].text = text
        /\ \A i \in 1 .. Len(reports) : seen'[i] = seen[i]
    BY <1>1, <1>5, <1>12 DEF Last
  <2>2. IsTree(document') BY <1>1 DEF LoadingInv, Typed
  <2> HIDE DEF text
  <2> QED BY <1>1, <1>2, <1>7, <1>8, <2>1, <2>2, DeliveryKeepsIt
<1>15. Underway' /\ Winners' /\ Spoken' BY <1>1, <1>11 DEF LoadingInv, Underway, Winners, Spoken
<1>16. NoOverrideIsLost'
  <2>1. CASE errors # {} BY <1>1, <1>2, <2>1, AfterDelivery
  <2>2. CASE errors = {}
    <3>1. ParseErrors(document) = {} BY <1>9, <2>2
    <3>2. PICK T : applied \in Seq(T) BY DEF LoadingInv, Spoken
    <3>3. Len(All(call)) = Len(call.env) + Len(call.sets) BY <1>3, CallsAreCalls
    <3>4. \A i \in 1 .. Len(applied) : applied[i].path \in Paths BY DEF LoadingInv, Spoken, IsSpoken
    <3>5. /\ Len(applied) = Len(All(call))
          /\ \A i \in 1 .. Len(applied) :
               \/ \A m \in 1 .. Len(applied[i].path) :
                    IsModel(FieldAt(SubSeq(applied[i].path, 1, m - 1))) =>
                      \/ SubSeq(applied[i].path, 1, m) \in Known
                      \/ /\ IsExtensible(FieldAt(SubSeq(applied[i].path, 1, m - 1)))
                         /\ applied[i].path[m] \in XKeys
               \/ \E j \in i + 1 .. Len(applied) : IsPrefix(applied[j].path, applied[i].path)
      BY <1>1, <3>1, PassedWithAllOfThem
    <3>6. DOMAIN applied = 1 .. Len(applied) BY <3>2
    <3>7. \A i \in 1 .. Len(applied) : DOMAIN applied[i].path = 1 .. Len(applied[i].path)
      BY <3>4 DEF Paths
    <3>8. applied' = applied /\ call' = call BY <1>1
    <3> QED BY <3>3, <3>5, <3>6, <3>7, <3>8 DEF NoOverrideIsLost
  <2> QED BY <2>1, <2>2
<1> QED BY <1>13, <1>14, <1>15, <1>16 DEF LoadingInv

\* A map or a list where the envelope has a name ends the command.
LEMMA TrippingEnvelopeKeepsIt ==
  ASSUME LoadingInv, TripOverEnvelope
  PROVE  LoadingInv'
<1> DEFINE text == Last(seen).text
           final == Trail(call, text)[Len(All(call))]
<1>1. /\ pc = "override" /\ ahead = <<>> /\ EnvelopeTrips(document) /\ pc' = "done" /\ status' = 1
      /\ UNCHANGED <<disk, changes, call, found, targets, seen, unread>>
  BY DEF TripOverEnvelope, Exit
<1>2. Len(applied) = Len(All(call)) BY <1>1, NoneIsLeft
<1>3. final = [doc |-> document, end |-> "fine"] BY <1>1, <1>2 DEF LoadingInv, Underway
<1>4. text \notin Unparsed \union {"absent"} BY <1>1 DEF LoadingInv, Underway
<1>5. OutcomeFor(call, text) = "crash"
  <2>1. OutcomeFor(call, text) = Judged(final) BY <1>4 DEF OutcomeFor, Unparsed
  <2>2. final.doc = document /\ final.end = "fine" BY <1>3
  <2> HIDE DEF final
  <2> QED BY <1>1, <2>1, <2>2 DEF Judged
<1>6. /\ seen # <<>> /\ seen \in Seq([file : Files, text : Texts \union {"absent"}])
      /\ Len(seen) = Len(reports) + 1
      /\ call.files = <<>> => MayBeTaken(seen[1].file)
  BY <1>1 DEF LoadingInv, Typed, Underway, Verdicts, Sought
<1>7. /\ seen' = seen /\ seen' # <<>> /\ Len(seen') = Len(reports) + 1
      /\ seen' \in Seq([file : Files, text : Texts \union {"absent"}])
      /\ call.files = <<>> => MayBeTaken(seen'[1].file)
      /\ \A i \in 1 .. Len(reports) : seen'[i] = seen[i]
  BY <1>1, <1>6
<1> QED BY <1>1, <1>5, <1>7, GivingUpKeepsIt

-----------------------------------------------------------------------------
(* The invariant holds from the first state on *)

LEMMA LoadingStartsWell ==
  ASSUME Init
  PROVE  LoadingInv
<1>1. PICK s \in Scenes : disk = s.disk /\ call = s.call BY DEF Init
<1>2. /\ changes = 0 /\ pc = "start" /\ found = {} /\ targets = <<>> /\ seen = <<>>
      /\ document = Blank /\ applied = <<>> /\ reports = <<>> /\ loaded = "none" /\ status = -1
  BY DEF Init
<1>3. call \in Calls /\ call.edits \in Nat BY <1>1, CallsAreCalls DEF Calls
<1>4. disk \in [Files -> Texts \union {"absent"}] BY <1>1, DisksAreTyped
<1>5. IsTree(document)
  <2>1. <<>> \in Paths BY DEF Paths
  <2>2. Map.kind \in Kinds BY DEF Map, Val, Kinds
  <2> QED BY <1>2, <2>1, <2>2 DEF IsTree, IsDocument, Blank
<1>6. /\ targets \in Seq(Files) /\ seen \in Seq([file : Files, text : Texts \union {"absent"}])
      /\ reports \in Seq({}) /\ applied \in Seq({})
  BY <1>2
<1>7. Typed BY <1>2, <1>3, <1>4, <1>5, <1>6 DEF Typed, Seeking
<1>8. Sought BY <1>2 DEF Sought, Seeking
<1>9. Underway /\ Winners BY <1>2 DEF Underway, Winners
<1>10. Len(applied) = 0 /\ Len(reports) = 0 /\ Len(seen) = 0 BY <1>2
<1>11. Spoken BY <1>6, <1>10 DEF Spoken
<1>12. Verdicts BY <1>2, <1>10 DEF Verdicts
<1>13. NoOverrideIsLost BY <1>2 DEF NoOverrideIsLost
<1> QED BY <1>7, <1>8, <1>9, <1>11, <1>12, <1>13 DEF LoadingInv

LEMMA StutteringKeepsIt ==
  ASSUME LoadingInv, UNCHANGED vars
  PROVE  LoadingInv'
<1>1. UNCHANGED <<disk, changes, call, pc, found, targets, seen, document, ahead, applied, reports,
                  loaded, status>>
  BY DEF vars
<1>2. Typed' BY <1>1 DEF LoadingInv, Typed
<1>3. Sought'
  <2>1. Given' = Given BY <1>1, SameDisk
  <2>2. \A f : Exists(f)' <=> Exists(f) BY <1>1 DEF Exists
  <2>3. \A f : MayBeTaken(f)' <=> MayBeTaken(f) BY <1>1, <2>2 DEF MayBeTaken
  <2> QED BY <1>1, <2>1, <2>2, <2>3 DEF LoadingInv, Sought
<1>4. Underway' /\ Spoken' /\ Winners' BY <1>1 DEF LoadingInv, Underway, Spoken, Winners
<1>5. Verdicts'
  <2>1. Concluded' <=> Concluded BY <1>1 DEF Concluded, IsOk, MayCrash
  <2> QED BY <1>1, <2>1 DEF LoadingInv, Verdicts
<1>6. NoOverrideIsLost' BY <1>1 DEF LoadingInv, NoOverrideIsLost
<1> QED BY <1>2, <1>3, <1>4, <1>5, <1>6 DEF LoadingInv

LEMMA StepsKeepIt ==
  ASSUME LoadingInv, [Next]_vars
  PROVE  LoadingInv'
<1>1. CASE Start BY <1>1, StartKeepsIt
<1>2. CASE ResolveGiven \/ ResolveVariable \/ ProbeFirst \/ ProbeSecond \/ Choose
  BY <1>2, ResolvingKeepsIt
<1>3. CASE ReadFails BY <1>3, FailingReadKeepsIt
<1>4. CASE ReadTrips BY <1>4, TrippingReadKeepsIt
<1>5. CASE Read BY <1>5, ReadingKeepsIt
<1>6. CASE ApplyOverride BY <1>6, ApplyingKeepsIt
<1>7. CASE RefuseOverride \/ TripOverOverride BY <1>7, RefusingKeepsIt
<1>8. CASE Validate BY <1>8, ValidatingKeepsIt
<1>9. CASE TripOverEnvelope BY <1>9, TrippingEnvelopeKeepsIt
<1>10. CASE ChangeFile BY <1>10, ChangesKeepIt
<1>11. CASE Gone \/ UNCHANGED vars BY <1>11, StutteringKeepsIt DEF Gone
<1> QED
  BY <1>1, <1>2, <1>3, <1>4, <1>5, <1>6, <1>7, <1>8, <1>9, <1>10, <1>11 DEF Next, Work

LEMMA LoadingInvHolds == Spec => []LoadingInv
<1>1. Init => LoadingInv BY LoadingStartsWell
<1>2. LoadingInv /\ [Next]_vars => LoadingInv' BY StepsKeepIt
<1> QED BY <1>1, <1>2, PTL DEF Spec

-----------------------------------------------------------------------------
(* What the loader promises *)

\* The state of a command is what it should be: in particular a document stays
\* one under every override, with a map above whatever it holds.
THEOREM LoadingTypesHold == Spec => []TypeOK
<1>1. LoadingInv => TypeOK
  <2> SUFFICES ASSUME LoadingInv PROVE TypeOK OBVIOUS
  <2> QED BY DEF LoadingInv, Typed, TypeOK, IsTree, Seeking
<1> QED BY <1>1, LoadingInvHolds, PTL

\* resolve_path never guesses: the file that is read first is the one that was
\* named, or the only default one, whoever changes the files in between.
THEOREM TheLoaderNeverGuesses == Spec => []NeverGuess
<1>1. LoadingInv => NeverGuess
  <2> SUFFICES ASSUME LoadingInv PROVE NeverGuess OBVIOUS
  <2>1. seen # <<>> /\ call.files = <<>> => MayBeTaken(seen[1].file) BY DEF LoadingInv, Sought
  <2> QED BY <2>1 DEF NeverGuess, MayBeTaken
<1> QED BY <1>1, LoadingInvHolds, PTL

\* However many overrides there are and however they overlap, what is found on a
\* path is what the last of them says.
THEOREM TheLastOverrideWins == Spec => []LastWins
<1>1. LoadingInv => LastWins
  <2> SUFFICES ASSUME LoadingInv, pc = "override" PROVE LastWins BY DEF LastWins
  <2> DEFINE base == Parsed[Last(seen).text]
  <2>1. DOMAIN document \union DOMAIN base \subseteq Paths
    <3>1. Last(seen).text \in Texts \ Unparsed BY DEF LoadingInv, Underway
    <3>2. DOMAIN base \subseteq Paths BY <3>1, TextsAreTyped DEF Paths
    <3> QED BY <3>2 DEF LoadingInv, Typed, IsTree
  <2>2. \A p \in DOMAIN document \union DOMAIN base : Node(document, p) = Said(base, applied, p)
    BY <2>1 DEF LoadingInv, Winners
  <2> QED BY <2>2 DEF LastWins, Said, Touching, Node
<1> QED BY <1>1, LoadingInvHolds, PTL

\* A file that passes has had every override of the call, each where the schema
\* knows of it, unless a later one threw it out.
THEOREM OverridesAreNotLost == Spec => []NoOverrideIsLost
<1>1. LoadingInv => NoOverrideIsLost BY DEF LoadingInv
<1> QED BY <1>1, LoadingInvHolds, PTL

\* Whatever was checked before it, a text gets the same report.
THEOREM VerdictsAreFunctionsOfTheText == Spec => []SameTextSameVerdict
<1>1. LoadingInv => SameTextSameVerdict
  <2> SUFFICES ASSUME LoadingInv PROVE SameTextSameVerdict OBVIOUS
  <2>1. \A i \in 1 .. Len(reports) : IsVerdict(call, seen[i].text, reports[i])
    BY DEF LoadingInv, Verdicts
  <2>2. DOMAIN reports = 1 .. Len(reports) BY DEF LoadingInv, Typed
  <2> QED BY <2>1, <2>2 DEF SameTextSameVerdict, IsVerdict
<1> QED BY <1>1, LoadingInvHolds, PTL

\* The status of the command follows from the texts that it read and the call.
THEOREM TheStatusFollowsFromTheTexts == Spec => []StatusIsTheVerdict
<1>1. LoadingInv => StatusIsTheVerdict
  <2> SUFFICES ASSUME LoadingInv, pc = "done" PROVE StatusIsTheVerdict BY DEF StatusIsTheVerdict
  <2>1. Concluded BY DEF LoadingInv, Verdicts
  <2>2. CASE seen = <<>> BY <2>1, <2>2 DEF Concluded, StatusIsTheVerdict
  <2>3. CASE seen # <<>>
    <3> DEFINE outcome == [i \in DOMAIN seen |-> Outcome(seen[i].text)]
               n == Len(seen)
    <3>1. \A text : Outcome(text) = OutcomeFor(call, text)
      BY DEF Outcome, OutcomeFor, Overridden, Trail, All
    <3>2. n \in Nat \ {0} /\ DOMAIN seen = 1 .. n
      BY <2>3, EmptySeq DEF LoadingInv, Typed
    <3>3. \A i \in 1 .. n : outcome[i] = OutcomeFor(call, seen[i].text) BY <3>1, <3>2
    <3>4. Last(outcome) = OutcomeFor(call, Last(seen).text)
      <4>1. Len(outcome) = n BY <3>2
      <4> HIDE DEF outcome
      <4> QED BY <3>2, <3>3, <4>1 DEF Last
    <3>5. \A i \in 1 .. Len(reports) : IsVerdict(call, seen[i].text, reports[i])
      BY DEF LoadingInv, Verdicts
    <3> DEFINE last == Last(outcome)
               Answer ==
                 IF status = 1 THEN last = "crash" \/ MayCrash(Last(seen).text)
                 ELSE IF last = "crash" THEN FALSE
                 ELSE IF last = "usage" THEN status = 2
                 ELSE IF call.command = "version" THEN status = 0
                 ELSE /\ Len(seen) = Len(call.files) \/ call.files = <<>>
                      /\ status = IF \E i \in DOMAIN seen :
                                       outcome[i] = "invalid" \/ (call.strict /\ outcome[i] = "warned")
                                  THEN 3 ELSE 0
    <3>6. Answer
      <4> HIDE DEF outcome
      <4>1. CASE status = 1 /\ (OutcomeFor(call, Last(seen).text) = "crash" \/ MayCrash(Last(seen).text))
        BY <3>4, <4>1
      <4>2. CASE status = 2 /\ OutcomeFor(call, Last(seen).text) = "usage" BY <3>4, <4>2
      <4>3. CASE /\ call.command = "version" /\ status = 0
                 /\ OutcomeFor(call, Last(seen).text) \notin {"usage", "crash"}
        BY <3>4, <4>3
      <4>4. CASE /\ call.command = "validate" /\ Len(seen) = Len(reports)
                 /\ Len(seen) = Len(call.files) \/ call.files = <<>>
                 /\ status = IF \A i \in 1 .. Len(reports) : IsOk(reports[i]) THEN 0 ELSE 3
        <5>1. \A i \in 1 .. n :
                /\ IsOk(reports[i]) <=> ~ (outcome[i] = "invalid" \/ (call.strict /\ outcome[i] = "warned"))
                /\ outcome[i] \notin {"usage", "crash"}
          BY <3>3, <3>5, <4>4 DEF IsVerdict, IsOk
        <5>2. last = outcome[n]
          <6>1. Last(seen) = seen[n] BY DEF Last
          <6> QED BY <3>2, <3>3, <3>4, <6>1
        <5>3. last \notin {"usage", "crash"} BY <3>2, <5>1, <5>2
        <5> QED BY <3>2, <4>4, <5>1, <5>3
      <4> QED BY <2>1, <2>3, <4>1, <4>2, <4>3, <4>4 DEF Concluded
    <3> HIDE DEF outcome
    <3>7. outcome \in {[i \in DOMAIN seen |-> Outcome(seen[i].text)]} BY DEF outcome
    <3> QED BY <2>3, <3>6, <3>7 DEF StatusIsTheVerdict
  <2> QED BY <2>2, <2>3
<1> QED BY <1>1, LoadingInvHolds, PTL
=============================================================================
