----------------------------- MODULE TopicProofs -----------------------------
(***************************************************************************)
(* What Topic's invariants say, for a text of any length and any           *)
(* characters. The functions of topic.rs are loops, and what a loop        *)
(* computes is found one turn at a time: a fold has one value (SameFold,   *)
(* by the least turn at which two of them differ), and so split and        *)
(* to_string of a text that grows by a character follow from those of the  *)
(* text before (SplitAppend, JoinGrows), and match_topic's loop, which     *)
(* runs towards the last level, is a statement about every level           *)
(* (MatchTopicIs). The text of a topic travels behind the length of its    *)
(* packet; the end of the module proves what Wire's variable length        *)
(* integers promise for every length.                                      *)
(***************************************************************************)
EXTENDS Topic, TLAPS, WellFoundedInduction

\* A sequence with one element replaced.
LEMMA ReplaceAt ==
    ASSUME NEW S, NEW seq \in Seq(S), NEW i \in 1 .. Len(seq), NEW e \in S
    PROVE  /\ [seq EXCEPT ![i] = e] \in Seq(S)
           /\ Len([seq EXCEPT ![i] = e]) = Len(seq)
           /\ \A j \in 1 .. Len(seq) : [seq EXCEPT ![i] = e][j] = IF j = i THEN e ELSE seq[j]
OBVIOUS

\* A non-empty set of naturals has a least one.
LEMMA LeastNat ==
    ASSUME NEW T \in SUBSET Nat, T # {}
    PROVE  \E x \in T : \A y \in T : x <= y
<1>1. PICK x \in T : \A y \in T : ~(<<y, x>> \in OpToRel(<, Nat))
  BY NatLessThanWellFounded, WFMin, Zenon
<1>2. \A y \in T : ~(y < x)
  BY <1>1, Zenon DEF OpToRel
<1>. QED BY <1>2

\* From a to n, where g and h are equal they are equal one further on.
Alike(a, n, g, h) == \A k \in a + 1 .. n : g[k - 1] = h[k - 1] => g[k] = h[k]

\* Two functions that start alike and go on alike are alike.
LEMMA SameFold ==
    \A a, n \in Nat : \A g, h : g[a] = h[a] /\ Alike(a, n, g, h) => \A k \in a .. n : g[k] = h[k]
<1>. SUFFICES ASSUME NEW a \in Nat, NEW n \in Nat, NEW g, NEW h, g[a] = h[a], Alike(a, n, g, h)
              PROVE  \A k \in a .. n : g[k] = h[k]
  OBVIOUS
<1>. DEFINE D == {k \in a .. n : g[k] # h[k]}
<1>1. SUFFICES ASSUME D # {} PROVE FALSE
  OBVIOUS
<1>2. D \in SUBSET Nat
  OBVIOUS
<1>3. PICK k \in D : \A j \in D : k <= j
  BY <1>1, <1>2, LeastNat, Zenon
<1>4. k # a /\ k \in a + 1 .. n
  BY <1>3
<1>5. k - 1 \in a .. n /\ k - 1 \notin D
  BY <1>3, <1>4
<1>. QED BY <1>3, <1>4, <1>5 DEF Alike

\* g starts with b and goes on with F.
IsFold(T, b, n, F, g) ==
    g \in [0 .. n -> T] /\ g[0] = b /\ \A k \in 1 .. n : g[k] = F[<<g[k - 1], k>>]

\* A sequence of values that each follow from the one before exists.
LEMMA FoldExists ==
    \A T : \A b \in T : \A n \in Nat : \A F \in [T \X Nat -> T] :
        \E g : IsFold(T, b, n, F, g)
<1>. SUFFICES ASSUME NEW T, NEW b \in T, NEW n \in Nat, NEW F \in [T \X Nat -> T]
              PROVE  \E g : IsFold(T, b, n, F, g)
  BY Zenon
<1>. USE DEF IsFold
<1>. DEFINE Is(g, m) == IsFold(T, b, m, F, g)
            D == {m \in Nat : ~\E g : Is(g, m)}
<1>1. SUFFICES ASSUME D # {} PROVE FALSE
  BY Zenon
<1>0. D \in SUBSET Nat
  OBVIOUS
<1>2. PICK m \in D : \A j \in D : m <= j
  BY <1>0, <1>1, LeastNat, Zenon
<1>3. CASE m = 0
  <2>1. Is([k \in 0 .. 0 |-> b], 0)
    OBVIOUS
  <2>. QED BY <1>2, <1>3, <2>1, Zenon
<1>4. CASE m # 0
  <2>. HIDE DEF D
  <2>0. m \in Nat /\ m - 1 \in Nat
    BY <1>0, <1>2, <1>4
  <2>1. m \in Nat /\ m - 1 \in Nat /\ m - 1 \notin D
    BY <1>2, <2>0
  <2>. USE DEF D
  <2>2. PICK g : Is(g, m - 1)
    BY <2>1
  <2>. DEFINE v == F[<<g[m - 1], m>>]
              h == [k \in 0 .. m |-> IF k = m THEN v ELSE g[k]]
  <2>3. g[m - 1] \in T
    BY <2>1, <2>2
  <2>4. v \in T
    BY <2>1, <2>3
  <2>5. h \in [0 .. m -> T] /\ h[0] = b
    BY <2>1, <2>2, <2>4, <1>4
  <2>6. ASSUME NEW k \in 1 .. m PROVE h[k] = F[<<h[k - 1], k>>]
    <3>1. CASE k = m
      <4>1. h[k - 1] = g[m - 1] /\ h[k] = v
        BY <2>1, <3>1
      <4>. QED BY <3>1, <4>1, Zenon
    <3>2. CASE k # m
      <4>1. k \in 1 .. m - 1 /\ k - 1 \in 0 .. m /\ k - 1 # m
        BY <2>1, <3>2
      <4>2. h[k] = g[k] /\ h[k - 1] = g[k - 1]
        BY <3>2, <4>1
      <4>. QED BY <2>2, <4>1, <4>2
    <3>. QED BY <3>1, <3>2
  <2>7. Is(h, m)
    BY <2>5, <2>6, Zenon
  <2>. QED BY <1>2, <2>7, Zenon
<1>. QED BY <1>3, <1>4

-----------------------------------------------------------------------------
Names == {x \in Seq(Seq(Chars)) : Len(x) >= 1}

\* put adds a level or a character to the last one.
LEMMA PutType ==
    ASSUME NEW x \in Names, NEW c \in Chars
    PROVE  /\ put(x, c) \in Names
           /\ c = "/" => put(x, c) = Append(x, <<>>)
           /\ c # "/" => put(x, c) = [x EXCEPT ![Len(x)] = Append(x[Len(x)], c)]
<1>1. << >> \in Seq(Chars) /\ Len(x) \in 1 .. Len(x) /\ x[Len(x)] \in Seq(Chars)
  BY DEF Names
<1>2. Append(x, <<>>) \in Names
  BY <1>1 DEF Names
<1>3. Append(x[Len(x)], c) \in Seq(Chars)
  BY <1>1
<1>4. [x EXCEPT ![Len(x)] = Append(x[Len(x)], c)] \in Names
  BY <1>1, <1>3, ReplaceAt DEF Names
<1>. QED BY <1>2, <1>4 DEF put

\* split reads its text a character at a time.
LEMMA SplitFold ==
    ASSUME NEW s \in Seq(Chars)
    PROVE  \E g \in [0 .. Len(s) -> Names] :
              /\ g[0] = << <<>> >>
              /\ \A k \in 1 .. Len(s) : g[k] = put(g[k - 1], s[k])
              /\ split(s) = g[Len(s)]
<1>. DEFINE n == Len(s)
            b == << <<>> >>
            Def(f) == [k \in 0 .. n |-> IF k = 0 THEN b ELSE put(f[k - 1], s[k])]
            F == [p \in Names \X Nat |-> IF p[2] \in 1 .. n THEN put(p[1], s[p[2]]) ELSE p[1]]
<1>1. n \in Nat /\ \A k \in 1 .. n : s[k] \in Chars
  OBVIOUS
<1>2. F \in [Names \X Nat -> Names]
  BY <1>1, PutType
<1>3. b \in Names
  BY DEF Names
<1>0. split(s) = (CHOOSE f : f = Def(f))[n]
  BY DEF split
<1>. HIDE DEF F, n, b
<1>40. PICK g : IsFold(Names, b, n, F, g)
  BY <1>1, <1>2, <1>3, FoldExists, Zenon
<1>4. g \in [0 .. n -> Names] /\ g[0] = b /\ \A k \in 1 .. n : g[k] = F[<<g[k - 1], k>>]
  BY <1>40, Zenon DEF IsFold
<1>5. ASSUME NEW k \in 1 .. n PROVE g[k] = put(g[k - 1], s[k])
  <2>1. k \in Nat /\ k - 1 \in 0 .. n
    BY <1>1
  <2>2. g[k - 1] \in Names
    BY <1>4, <2>1
  <2>3. F[<<g[k - 1], k>>] = put(g[k - 1], s[k])
    BY <2>1, <2>2 DEF F
  <2>. QED BY <1>4, <2>3
<1>6. g = Def(g)
  <2>1. ASSUME NEW k \in 0 .. n PROVE g[k] = IF k = 0 THEN b ELSE put(g[k - 1], s[k])
    <3>1. CASE k = 0
      BY <1>4, <3>1
    <3>2. CASE k # 0
      <4>1. k \in 1 .. n
        BY <1>1, <3>2
      <4>. QED BY <1>5, <3>2, <4>1
    <3>. QED BY <3>1, <3>2
  <2>. QED BY <1>4, <2>1
<1>7. PICK f : f = Def(f) /\ split(s) = f[n]
  <2>. HIDE DEF Def
  <2>. QED BY <1>6, <1>0, Zenon
<1>8. f[0] = b
  <2>1. 0 \in 0 .. n
    BY <1>1
  <2>. QED BY <1>7, <2>1
<1>9. ASSUME NEW k \in 1 .. n PROVE f[k] = put(f[k - 1], s[k])
  <2>1. k \in 0 .. n /\ k # 0
    BY <1>1
  <2>2. Def(f)[k] = put(f[k - 1], s[k])
    BY <2>1
  <2>. QED BY <1>7, <2>2
<1>10. \A k \in 0 .. n : f[k] = g[k]
  <2>1. f[0] = g[0]
    BY <1>4, <1>8
  <2>2. Alike(0, n, f, g)
    BY <1>5, <1>9 DEF Alike
  <2>3. 0 \in Nat
    OBVIOUS
  <2>. HIDE DEF Def
  <2>. QED BY <1>1, <2>1, <2>2, <2>3, SameFold
<1>11. split(s) = g[n]
  BY <1>1, <1>7, <1>10
<1>. QED BY <1>4, <1>5, <1>11 DEF n, b

\* A text of one more character has the levels that put gives.
LEMMA SplitAppend ==
    ASSUME NEW s \in Seq(Chars), NEW c \in Chars
    PROVE  /\ split(s) \in Names
           /\ split(Append(s, c)) = put(split(s), c)
<1>. DEFINE n == Len(s)
            t == Append(s, c)
<1>1. n \in Nat /\ t \in Seq(Chars) /\ Len(t) = n + 1 /\ t[n + 1] = c
  OBVIOUS
<1>2. \A k \in 1 .. n : t[k] = s[k]
  OBVIOUS
<1>. HIDE DEF t
<1>3. PICK g \in [0 .. n -> Names] :
         /\ g[0] = << <<>> >>
         /\ \A k \in 1 .. n : g[k] = put(g[k - 1], s[k])
         /\ split(s) = g[n]
  BY SplitFold, Zenon
<1>4. PICK h \in [0 .. Len(t) -> Names] :
         /\ h[0] = << <<>> >>
         /\ \A k \in 1 .. Len(t) : h[k] = put(h[k - 1], t[k])
         /\ split(t) = h[Len(t)]
  BY <1>1, SplitFold, Zenon
<1>. HIDE DEF n
<1>5. ASSUME NEW k \in 1 .. n, h[k - 1] = g[k - 1] PROVE h[k] = g[k]
  <2>1. k \in 1 .. Len(t)
    BY <1>1
  <2>. QED BY <1>2, <1>3, <1>4, <1>5, <2>1
<1>6. Alike(0, n, h, g)
  BY <1>5 DEF Alike
<1>7. \A k \in 0 .. n : h[k] = g[k]
  <2>1. h[0] = g[0]
    BY <1>3, <1>4
  <2>2. 0 \in Nat
    OBVIOUS
  <2>. QED BY <1>1, <1>6, <2>1, <2>2, SameFold, SMTT(30)
<1>8. h[n] = g[n] /\ g[n] \in Names
  BY <1>1, <1>3, <1>7
<1>9. h[n + 1] = put(h[n], c)
  <2>1. n + 1 \in 1 .. Len(t) /\ (n + 1) - 1 = n
    BY <1>1
  <2>. QED BY <1>1, <1>4, <2>1
<1>. QED BY <1>1, <1>3, <1>4, <1>8, <1>9 DEF t

\* The empty text has one level.
LEMMA SplitEmpty == split(<<>>) = << <<>> >>
<1>1. <<>> \in Seq(Chars) /\ Len(<<>>) = 0
  OBVIOUS
<1>. QED BY <1>1, SplitFold, Zenon

-----------------------------------------------------------------------------
(* Wildcards. *)

\* A character more.
LEMMA AppendName ==
    ASSUME NEW L \in Seq(Chars), NEW c \in Chars
    PROVE  /\ Wildcards(Append(L, c)) <=> Wildcards(L) \/ c \in {"+", "#"}
           /\ Append(L, c) # <<>>
           /\ \A x : Append(L, c) = <<x>> <=> L = <<>> /\ c = x
<1>. DEFINE M == Append(L, c)
<1>1. M \in Seq(Chars) /\ Len(M) = Len(L) + 1 /\ M[Len(L) + 1] = c /\ \A i \in 1 .. Len(L) : M[i] = L[i]
  OBVIOUS
<1>2. Wildcards(M) <=> \E i \in 1 .. Len(M) : M[i] \in {"+", "#"}
  BY DEF Wildcards
<1>3. Wildcards(L) <=> \E i \in 1 .. Len(L) : L[i] \in {"+", "#"}
  BY DEF Wildcards
<1>. HIDE DEF M
<1>4. Wildcards(M) <=> Wildcards(L) \/ c \in {"+", "#"}
  BY <1>1, <1>2, <1>3
<1>5. M # <<>>
  BY <1>1
<1>6. ASSUME NEW x PROVE M = <<x>> <=> L = <<>> /\ c = x
  <2>1. ASSUME M = <<x>> PROVE L = <<>> /\ c = x
    <3>1. Len(L) = 0
      BY <1>1, <2>1
    <3>. QED BY <1>1, <2>1, <3>1
  <2>2. ASSUME L = <<>>, c = x PROVE M = <<x>>
    BY <2>2 DEF M
  <2>. QED BY <2>1, <2>2
<1>. QED BY <1>4, <1>5, <1>6 DEF M

\* No character, no wildcard.
LEMMA EmptyName == ~Wildcards(<<>>)
BY DEF Wildcards

Ok(name) == name = <<"+">> \/ ~Wildcards(name)

\* What a filter must be, level by level.
Good(N) == \A i \in 1 .. Len(N) : Ok(N[i]) \/ (i = Len(N) /\ N[i] = <<"#">>)

\* A text is parsed if its levels are good.
LEMMA ParsedIffGood ==
    ASSUME NEW s \in Seq(Chars), s # <<>>
    PROVE  /\ try_from(s) # <<>> <=> Good(split(s))
           /\ Good(split(s)) => try_from(s) = [i \in 1 .. Len(split(s)) |-> level(i, split(s)[i])]
<1>. DEFINE N == split(s)
            f == [i \in 1 .. Len(N) |-> level(i, N[i])]
<1>1. N \in Names
  BY SplitFold
<1>2. Len(N) \in Nat /\ Len(N) >= 1 /\ Len(f) = Len(N) /\ f # <<>>
  <2>1. Len(N) \in Nat /\ Len(N) >= 1
    BY <1>1 DEF Names
  <2>2. Len(f) = Len(N)
    BY <2>1
  <2>. QED BY <2>1, <2>2
<1>3. try_from(s) = IF (\A i \in 1 .. Len(f) : f[i].kind # "InvalidLevel") /\ levels_valid(f)
                    THEN f ELSE <<>>
  BY Zenon DEF try_from
<1>. HIDE DEF N
<1>4. ASSUME NEW i \in 1 .. Len(N)
      PROVE  /\ f[i].kind = "InvalidLevel" <=> N[i] # <<"#">> /\ ~Ok(N[i])
             /\ f[i].kind = "MultiWildcard" <=> N[i] = <<"#">>
             /\ f[i].kind \in {"Normal", "System"} => ~Wildcards(f[i].name)
             /\ f[i].kind = "System" => i = 1
  <2>1. f[i] = level(i, N[i])
    OBVIOUS
  <2>. HIDE DEF f
  <2>2. <<"+">> # <<"#">> /\ <<"+">> # <<>> /\ <<"#">> # <<>>
    OBVIOUS
  <2>. QED BY <2>1, <2>2, EmptyName DEF level, Level, SingleWildcard, MultiWildcard, Blank, Ok
<1>. HIDE DEF f
<1>40. Wildcards(<<"#">>) /\ <<"+">> # <<"#">>
  BY DEF Wildcards
<1>5. ((\A i \in 1 .. Len(f) : f[i].kind # "InvalidLevel") /\ levels_valid(f)) <=> Good(N)
  BY <1>2, <1>4, <1>40, SMTT(30) DEF levels_valid, Good, Ok
<1>. QED BY <1>2, <1>3, <1>5 DEF f, N

-----------------------------------------------------------------------------
(* is_valid agrees with TryFrom. *)

\* What previous says of the last level.
LastLevel(p, L) ==
    /\ p \in {"None", "LevelSep"} => L = <<>>
    /\ p = "SingleWildcard" => L = <<"+">>
    /\ p = "MultiWildcard" => L = <<"#">>
    /\ p = "Other" => L # <<>> /\ ~Wildcards(L)

\* The loop has seen an invalid filter exactly if its levels are not good.
ValidInv ==
    /\ text \in Seq(Chars)
    /\ previous \in {"None", "LevelSep", "SingleWildcard", "MultiWildcard", "Other", "invalid"}
    /\ LET N == split(text)
       IN  /\ previous = "invalid" <=> ~Good(N)
           /\ LastLevel(previous, N[Len(N)])

\* Nothing read: nothing wrong, and the last level is empty.
LEMMA InitValid == Init => ValidInv
<1>. SUFFICES ASSUME Init PROVE ValidInv
  OBVIOUS
<1>1. text = <<>> /\ previous = "None"
  BY DEF Init
<1>2. split(text) = << <<>> >>
  BY <1>1, SplitEmpty
<1>3. Good(<< <<>> >>)
  BY EmptyName DEF Good, Ok
<1>. QED BY <1>1, <1>2, <1>3 DEF ValidInv, LastLevel

\* A level that is not good does not become so.
LEMMA LevelEnds ==
    ASSUME NEW N \in Names
    PROVE  Good(Append(N, <<>>)) <=> Good(N) /\ N[Len(N)] # <<"#">>
<1>. DEFINE n == Len(N)
            M == Append(N, <<>>)
<1>1. n \in Nat /\ n >= 1 /\ Len(M) = n + 1 /\ M[n + 1] = <<>> /\ \A i \in 1 .. n : M[i] = N[i]
  BY DEF Names
<1>2. Ok(<<>>) /\ ~Ok(<<"#">>)
  <2>1. Wildcards(<<"#">>) /\ <<"+">> # <<"#">>
    BY DEF Wildcards
  <2>. QED BY <2>1, EmptyName DEF Ok
<1>. HIDE DEF M
<1>3. Good(M) <=> \A i \in 1 .. n : Ok(N[i])
  BY <1>1, <1>2 DEF Good
<1>4. (\A i \in 1 .. n : Ok(N[i])) <=> Good(N) /\ N[n] # <<"#">>
  BY <1>1, <1>2 DEF Good
<1>. QED BY <1>3, <1>4 DEF M

\* Only the last level changes.
LEMMA LevelGrows ==
    ASSUME NEW N \in Names, NEW L \in Seq(Chars)
    PROVE  LET M == [N EXCEPT ![Len(N)] = L]
           IN  /\ Len(M) = Len(N) /\ M[Len(M)] = L
               /\ Good(M) <=> (\A i \in 1 .. Len(N) - 1 : Ok(N[i])) /\ (Ok(L) \/ L = <<"#">>)
<1>. DEFINE n == Len(N)
            M == [N EXCEPT ![n] = L]
<1>1. n \in Nat /\ n >= 1 /\ M \in Seq(Seq(Chars)) /\ Len(M) = n /\ M[n] = L
  BY ReplaceAt DEF Names
<1>2. ASSUME NEW i \in 1 .. n - 1 PROVE M[i] = N[i]
  <2>0. DOMAIN N = 1 .. n
    BY DEF Names
  <2>1. i # n /\ i \in DOMAIN N
    <3>. HIDE DEF n, M
    <3>. QED BY <1>1, <2>0
  <2>. QED BY <2>1
<1>. HIDE DEF M
<1>3. Good(M) <=> (\A i \in 1 .. n - 1 : Ok(N[i])) /\ (Ok(L) \/ L = <<"#">>)
  <2>1. 1 .. n = 1 .. n - 1 \cup {n} /\ n \notin 1 .. n - 1
    BY <1>1
  <2>. QED BY <1>1, <1>2, <2>1, Zenon DEF Good
<1>. QED BY <1>1, <1>3 DEF M

\* The names before the last and the last.
LEMMA GoodIs ==
    ASSUME NEW N \in Names
    PROVE  Good(N) <=> (\A i \in 1 .. Len(N) - 1 : Ok(N[i])) /\ (Ok(N[Len(N)]) \/ N[Len(N)] = <<"#">>)
<1>1. Len(N) \in Nat /\ Len(N) >= 1
  BY DEF Names
<1>2. 1 .. Len(N) = 1 .. Len(N) - 1 \cup {Len(N)} /\ Len(N) \notin 1 .. Len(N) - 1
  BY <1>1
<1>. QED BY <1>2 DEF Good

\* A character is read.
LEMMA ReadValid ==
    ASSUME ValidInv, NEW c \in Chars, Read(c)
    PROVE  ValidInv'
<1>. DEFINE N == split(text)
            L == N[Len(N)]
<1>1. /\ text \in Seq(Chars) /\ text' = Append(text, c) /\ previous' = after(c)
      /\ previous \in {"None", "LevelSep", "SingleWildcard", "MultiWildcard", "Other", "invalid"}
      /\ previous = "invalid" <=> ~Good(N)
      /\ LastLevel(previous, L)
  BY DEF ValidInv, Read
<1>2. text' \in Seq(Chars)
  BY <1>1
<1>3. N \in Names /\ split(text') = put(N, c)
  BY <1>1, SplitAppend
<1>4. L \in Seq(Chars)
  BY <1>3 DEF Names
<1>. HIDE DEF N
<1>5. CASE c = "/"
  <2>1. split(text') = Append(N, <<>>)
    BY <1>3, <1>5, PutType
  <2>2. split(text')[Len(split(text'))] = <<>>
    BY <1>3, <2>1 DEF Names
  <2>3. previous' = IF previous \in {"invalid", "MultiWildcard"} THEN "invalid" ELSE "LevelSep"
    BY <1>1, <1>5 DEF after
  <2>4. previous' = "invalid" <=> ~(Good(N) /\ L # <<"#">>)
    <3>1. Wildcards(<<"#">>) /\ <<"+">> # <<"#">> /\ <<"#">> # <<>>
      BY DEF Wildcards
    <3>. QED BY <1>1, <2>3, <3>1, Zenon DEF LastLevel
  <2>5. previous' = "invalid" <=> ~Good(split(text'))
    BY <1>3, <2>1, <2>4, LevelEnds
  <2>. QED BY <1>2, <2>2, <2>3, <2>5 DEF ValidInv, LastLevel
<1>6. CASE c # "/"
  <2>. DEFINE K == Append(L, c)
              M == split(text')
  <2>0. K \in Seq(Chars)
    BY <1>4
  <2>1. M = [N EXCEPT ![Len(N)] = K]
    BY <1>3, <1>6, PutType
  <2>2. /\ M[Len(M)] = K
        /\ Good(M) <=> (\A i \in 1 .. Len(N) - 1 : Ok(N[i])) /\ (Ok(K) \/ K = <<"#">>)
    BY <1>3, <2>0, <2>1, LevelGrows, ZenonT(30)
  <2>3. Good(N) <=> (\A i \in 1 .. Len(N) - 1 : Ok(N[i])) /\ (Ok(L) \/ L = <<"#">>)
    BY <1>3, GoodIs
  <2>4. /\ Wildcards(K) <=> Wildcards(L) \/ c \in {"+", "#"}
        /\ K # <<>>
        /\ K = <<"+">> <=> L = <<>> /\ c = "+"
        /\ K = <<"#">> <=> L = <<>> /\ c = "#"
    <3>. HIDE DEF L
    <3>. QED BY <1>4, AppendName, ZenonT(30)
  <2>. HIDE DEF K, M, L
  <2>5. Wildcards(<<"#">>) /\ Wildcards(<<"+">>) /\ ~Wildcards(<<>>)
    BY EmptyName DEF Wildcards
  <2>50. <<"+">> # <<"#">> /\ <<"+">> # <<>> /\ <<"#">> # <<>>
    OBVIOUS
  <2>6. (previous' = "invalid" <=> ~Good(M)) /\ LastLevel(previous', K)
    <3>1. CASE previous \in {"invalid", "MultiWildcard"}
      BY <1>1, <2>2, <2>3, <2>4, <2>5, <2>50, <3>1 DEF LastLevel, after, Ok
    <3>2. CASE previous \notin {"invalid", "MultiWildcard"} /\ c \in {"+", "#"}
      BY <1>1, <2>2, <2>3, <2>4, <2>5, <2>50, <3>2 DEF LastLevel, after, Ok, Starts
    <3>3. CASE previous \notin {"invalid", "MultiWildcard"} /\ c \notin {"+", "#"}
      BY <1>1, <1>6, <2>2, <2>3, <2>4, <2>5, <2>50, <3>3 DEF LastLevel, after, Ok
    <3>. QED BY <3>1, <3>2, <3>3
  <2>7. previous' \in {"None", "LevelSep", "SingleWildcard", "MultiWildcard", "Other", "invalid"}
    BY <1>1 DEF after
  <2>. QED BY <1>2, <2>2, <2>6, <2>7 DEF ValidInv, LastLevel, M
<1>. QED BY <1>5, <1>6

\* For a text of any length: the dispatchers let a filter pass exactly when the
\* application can parse it.
THEOREM TopicValidIffParsed == Spec => []ValidIffParsed
<1>1. ValidInv /\ [Next]_vars => ValidInv'
  <2>1. ASSUME ValidInv, UNCHANGED vars PROVE ValidInv'
    BY <2>1 DEF ValidInv, LastLevel, vars
  <2>. QED BY <2>1, ReadValid DEF Next
<1>2. ValidInv => ValidIffParsed
  <2>1. ASSUME ValidInv, text = <<>> PROVE ValidIffParsed
    BY <2>1 DEF ValidIffParsed, is_valid, try_from
  <2>2. ASSUME ValidInv, text # <<>> PROVE ValidIffParsed
    BY <2>2, ParsedIffGood DEF ValidInv, ValidIffParsed, is_valid
  <2>. QED BY <2>1, <2>2
<1>. QED BY <1>1, <1>2, InitValid, PTL DEF Spec

-----------------------------------------------------------------------------
(* Printing. *)

\* g joins the names of N with separators, one after the other.
Joins(N, g) ==
    /\ g \in [1 .. Len(N) -> Seq(Chars)]
    /\ g[1] = N[1]
    /\ \A k \in 2 .. Len(N) : g[k] = g[k - 1] \o <<"/">> \o N[k]

JoinInv ==
    /\ text \in Seq(Chars)
    /\ \E g : Joins(split(text), g) /\ g[Len(split(text))] = text

\* The empty text.
LEMMA InitJoin == Init => JoinInv
<1>. SUFFICES ASSUME Init PROVE JoinInv
  OBVIOUS
<1>1. text = <<>> /\ split(text) = << <<>> >>
  BY SplitEmpty DEF Init
<1>2. <<>> \in Seq(Chars) /\ Len(<< <<>> >>) = 1 /\ << <<>> >>[1] = <<>>
  OBVIOUS
<1>. DEFINE g == [k \in 1 .. 1 |-> <<>>]
<1>3. g \in [1 .. 1 -> Seq(Chars)] /\ g[1] = <<>> /\ 2 .. 1 = {}
  BY <1>2
<1>. HIDE DEF g
<1>4. Joins(<< <<>> >>, g)
  BY <1>2, <1>3 DEF Joins
<1>. QED BY <1>1, <1>2, <1>3, <1>4 DEF JoinInv

\* A separator starts an empty level.
LEMMA JoinEnds ==
    ASSUME NEW N \in Names, NEW g, Joins(N, g)
    PROVE  \E h : Joins(Append(N, <<>>), h) /\ h[Len(N) + 1] = Append(g[Len(N)], "/")
<1>. DEFINE n == Len(N)
            M == Append(N, <<>>)
            v == Append(g[n], "/")
            h == [k \in 1 .. n + 1 |-> IF k = n + 1 THEN v ELSE g[k]]
<1>1. n \in Nat /\ n >= 1 /\ Len(M) = n + 1 /\ M[n + 1] = <<>> /\ \A i \in 1 .. n : M[i] = N[i]
  BY DEF Names
<1>2. g[n] \in Seq(Chars)
  BY <1>1 DEF Joins
<1>3. v \in Seq(Chars) /\ v = g[n] \o <<"/">> \o <<>>
  BY <1>2, TopicAssumption
<1>. HIDE DEF n, M, v
<1>4. /\ g \in [1 .. n -> Seq(Chars)] /\ g[1] = N[1]
      /\ \A k \in 2 .. n : g[k] = g[k - 1] \o <<"/">> \o N[k]
  BY Zenon DEF Joins, n
<1>5. h \in [1 .. n + 1 -> Seq(Chars)] /\ h[n + 1] = v /\ \A k \in 1 .. n : h[k] = g[k]
  BY <1>1, <1>3, <1>4
<1>. HIDE DEF h
<1>6. h[1] = M[1]
  BY <1>1, <1>4, <1>5
<1>7. ASSUME NEW k \in 2 .. n + 1 PROVE h[k] = h[k - 1] \o <<"/">> \o M[k]
  <2>1. CASE k = n + 1
    <3>1. k - 1 = n /\ n \in 1 .. n
      BY <1>1, <2>1
    <3>. QED BY <1>1, <1>3, <1>5, <2>1, <3>1, Zenon
  <2>2. CASE k # n + 1
    <3>1. k \in 2 .. n /\ k \in 1 .. n /\ k - 1 \in 1 .. n
      BY <1>1, <2>2
    <3>. QED BY <1>1, <1>4, <1>5, <3>1, Zenon
  <2>. QED BY <2>1, <2>2, Zenon
<1>8. Joins(M, h)
  BY <1>1, <1>5, <1>6, <1>7, Zenon DEF Joins
<1>. QED BY <1>5, <1>8 DEF M, v, n

\* Appending to a concatenation appends to its second part.
LEMMA AppendConcat ==
    ASSUME NEW a \in Seq(Chars), NEW b \in Seq(Chars), NEW c \in Chars
    PROVE  Append(a \o b, c) = a \o Append(b, c)
OBVIOUS

\* A character is added to the last level.
LEMMA JoinGrows ==
    ASSUME NEW N \in Names, NEW g, Joins(N, g), NEW c \in Chars
    PROVE  \E h : /\ Joins([N EXCEPT ![Len(N)] = Append(N[Len(N)], c)], h)
                  /\ h[Len(N)] = Append(g[Len(N)], c)
<1>. DEFINE n == Len(N)
            L == Append(N[n], c)
            M == [N EXCEPT ![n] = L]
            v == Append(g[n], c)
            h == [g EXCEPT ![n] = v]
<1>1. n \in Nat /\ n >= 1 /\ n \in 1 .. n /\ DOMAIN N = 1 .. n /\ N[n] \in Seq(Chars) /\ \A i \in 1 .. n : N[i] \in Seq(Chars)
  BY DEF Names
<1>2. /\ g \in [1 .. n -> Seq(Chars)] /\ g[1] = N[1]
      /\ \A k \in 2 .. n : g[k] = g[k - 1] \o <<"/">> \o N[k]
  BY Zenon DEF Joins
<1>3. L \in Seq(Chars) /\ v \in Seq(Chars)
  BY <1>1, <1>2, SMTT(30)
<1>4. M \in Seq(Seq(Chars)) /\ Len(M) = n /\ M[n] = L
  BY <1>1, <1>3, ReplaceAt, SMTT(30) DEF Names
<1>5. \A i \in 1 .. n : i # n => M[i] = N[i]
  BY <1>1, Zenon
<1>. HIDE DEF n
<1>6. h \in [1 .. n -> Seq(Chars)] /\ h[n] = v /\ \A i \in 1 .. n : i # n => h[i] = g[i]
  BY <1>1, <1>2, <1>3
<1>. HIDE DEF M, h
<1>7. h[1] = M[1]
  <2>1. CASE n = 1
    BY <1>2, <1>4, <1>6, <2>1, Zenon
  <2>2. CASE n # 1
    <3>1. 1 \in 1 .. n
      BY <1>1
    <3>. QED BY <1>2, <1>5, <1>6, <2>2, <3>1
  <2>. QED BY <2>1, <2>2
<1>8. ASSUME NEW k \in 2 .. n PROVE h[k] = h[k - 1] \o <<"/">> \o M[k]
  <2>1. k \in 1 .. n /\ k - 1 \in 1 .. n /\ k - 1 # n
    BY <1>1
  <2>2. h[k - 1] = g[k - 1] /\ g[k - 1] \in Seq(Chars) /\ N[k] \in Seq(Chars)
    BY <1>1, <1>2, <1>6, <2>1
  <2>3. CASE k = n
    <3>1. g[n] = g[k - 1] \o <<"/">> \o N[n]
      BY <1>2, <2>3, Zenon
    <3>2. g[k - 1] \o <<"/">> \in Seq(Chars)
      BY <2>2, TopicAssumption
    <3>3. Append((g[k - 1] \o <<"/">>) \o N[n], c) = (g[k - 1] \o <<"/">>) \o Append(N[n], c)
      BY <1>1, <3>2, AppendConcat, Zenon
    <3>6. Append(g[n], c) = g[k - 1] \o <<"/">> \o Append(N[n], c)
      BY <3>1, <3>3, Zenon
    <3>. QED BY <1>4, <1>6, <2>2, <2>3, <3>6, Zenon
  <2>4. CASE k # n
    BY <1>2, <1>5, <1>6, <2>1, <2>2, <2>4, Zenon
  <2>. QED BY <2>3, <2>4, Zenon
<1>9. Joins(M, h)
  BY <1>4, <1>6, <1>7, <1>8, Zenon DEF Joins
<1>. QED BY <1>6, <1>9 DEF M, v, n, L

\* A character is read.
LEMMA ReadJoin ==
    ASSUME JoinInv, NEW c \in Chars, Read(c)
    PROVE  JoinInv'
<1>1. text \in Seq(Chars) /\ text' = Append(text, c) /\ text' \in Seq(Chars)
  BY DEF JoinInv, Read
<1>. DEFINE N == split(text)
<1>2. N \in Names /\ split(text') = put(N, c) /\ Len(N) \in Nat
  BY <1>1, SplitAppend DEF Names
<1>3. PICK g : Joins(N, g) /\ g[Len(N)] = text
  BY DEF JoinInv
<1>. HIDE DEF N
<1>4. CASE c = "/"
  <2>1. split(text') = Append(N, <<>>)
    BY <1>2, <1>4, PutType
  <2>2. Len(Append(N, <<>>)) = Len(N) + 1
    BY <1>2 DEF Names
  <2>3. PICK h : Joins(Append(N, <<>>), h) /\ h[Len(N) + 1] = Append(g[Len(N)], "/")
    BY <1>2, <1>3, JoinEnds
  <2>. QED BY <1>1, <1>3, <1>4, <2>1, <2>2, <2>3, Zenon DEF JoinInv
<1>5. CASE c # "/"
  <2>1. split(text') = [N EXCEPT ![Len(N)] = Append(N[Len(N)], c)]
    BY <1>2, <1>5, PutType
  <2>2. Len(split(text')) = Len(N)
    BY <1>2, <2>1 DEF Names
  <2>3. PICK h : /\ Joins([N EXCEPT ![Len(N)] = Append(N[Len(N)], c)], h)
                 /\ h[Len(N)] = Append(g[Len(N)], c)
    BY <1>2, <1>3, JoinGrows, Zenon
  <2>4. Joins(split(text'), h) /\ h[Len(split(text'))] = text'
    BY <1>1, <1>3, <2>1, <2>2, <2>3
  <2>. QED BY <1>1, <2>4 DEF JoinInv
<1>. QED BY <1>4, <1>5

\* to_string joins what it shows of the levels.
LEMMA ToStringJoins ==
    ASSUME NEW N \in Names, NEW g, Joins(N, g), NEW f,
           Len(f) = Len(N), \A i \in 1 .. Len(N) : shown(f[i]) = N[i]
    PROVE  to_string(f) = g[Len(N)]
<1>. DEFINE n == Len(N)
            Def(u) == [k \in 1 .. n |-> IF k = 1 THEN shown(f[1]) ELSE u[k - 1] \o <<"/">> \o shown(f[k])]
<1>1. n \in Nat /\ n >= 1
  BY DEF Names
<1>2. to_string(f) = (CHOOSE u : u = Def(u))[n]
  BY DEF to_string
<1>3. /\ g \in [1 .. n -> Seq(Chars)] /\ g[1] = N[1]
      /\ \A k \in 2 .. n : g[k] = g[k - 1] \o <<"/">> \o N[k]
  BY Zenon DEF Joins
<1>. HIDE DEF n
<1>4. g = Def(g)
  <2>1. ASSUME NEW k \in 1 .. n
        PROVE  g[k] = IF k = 1 THEN shown(f[1]) ELSE g[k - 1] \o <<"/">> \o shown(f[k])
    <3>0. shown(f[k]) = N[k]
      BY DEF n
    <3>1. CASE k = 1
      BY <1>3, <3>0, <3>1
    <3>2. CASE k # 1
      <4>1. k \in 2 .. n
        BY <1>1, <3>2
      <4>. QED BY <1>3, <3>0, <3>2, <4>1, Zenon
    <3>. QED BY <3>1, <3>2
  <2>. QED BY <1>3, <2>1, Zenon
<1>5. PICK u : u = Def(u) /\ to_string(f) = u[n]
  <2>. HIDE DEF Def
  <2>. QED BY <1>2, <1>4, Zenon
<1>6. u[1] = g[1]
  <2>1. 1 \in 1 .. n
    BY <1>1
  <2>2. Def(u)[1] = Def(g)[1]
    BY <2>1
  <2>. QED BY <1>4, <1>5, <2>2, Zenon
<1>7. ASSUME NEW k \in 1 + 1 .. n, u[k - 1] = g[k - 1] PROVE u[k] = g[k]
  <2>1. k \in 1 .. n
    BY <1>1
  <2>2. Def(u)[k] = Def(g)[k]
    BY <1>7, <2>1
  <2>. HIDE DEF Def
  <2>. QED BY <1>4, <1>5, <2>2, Zenon
<1>8. Alike(1, n, u, g)
  BY <1>7 DEF Alike
<1>9. \A k \in 1 .. n : u[k] = g[k]
  <2>1. 1 \in Nat
    OBVIOUS
  <2>. HIDE DEF Def
  <2>. QED BY <1>1, <1>6, <1>8, <2>1, SameFold
<1>. QED BY <1>1, <1>5, <1>9 DEF n

\* A good level is shown as it was written.
LEMMA ShownLevel ==
    ASSUME NEW i, NEW name, Ok(name) \/ name = <<"#">>
    PROVE  shown(level(i, name)) = name
BY EmptyName DEF shown, level, Level, SingleWildcard, MultiWildcard, Blank, Ok

\* For a text of any length: a filter that is parsed is printed as it was written.
THEOREM TopicRoundTrip == Spec => []RoundTrip
<1>1. JoinInv /\ [Next]_vars => JoinInv'
  <2>1. ASSUME JoinInv, UNCHANGED vars PROVE JoinInv'
    BY <2>1 DEF JoinInv, vars
  <2>. QED BY <2>1, ReadJoin DEF Next
<1>2. JoinInv => RoundTrip
  <2>. SUFFICES ASSUME JoinInv, try_from(text) # <<>> PROVE to_string(try_from(text)) = text
    BY DEF RoundTrip
  <2>. DEFINE N == split(text)
              f == [i \in 1 .. Len(N) |-> level(i, N[i])]
  <2>1. text \in Seq(Chars) /\ text # <<>>
    BY DEF JoinInv, try_from
  <2>2. Good(N) /\ try_from(text) = f
    BY <2>1, ParsedIffGood
  <2>3. N \in Names /\ Len(N) \in Nat
    <3>1. N \in Names
      BY <2>1, SplitAppend, TopicAssumption
    <3>. QED BY <3>1 DEF Names
  <2>4. PICK g : Joins(N, g) /\ g[Len(N)] = text
    BY DEF JoinInv
  <2>. HIDE DEF N
  <2>5. Len(f) = Len(N)
    BY <2>3
  <2>6. \A i \in 1 .. Len(N) : shown(f[i]) = N[i]
    BY <2>2, ShownLevel, Zenon DEF Good
  <2>. HIDE DEF f
  <2>. QED BY <2>2, <2>3, <2>4, <2>5, <2>6, ToStringJoins
<1>. QED BY <1>1, <1>2, InitJoin, PTL DEF Spec

-----------------------------------------------------------------------------
(* Matching. *)

IsLevel(l) ==
    /\ l.kind \in {"SingleWildcard", "MultiWildcard", "Blank", "Normal", "System"}
    /\ l = Level(l.kind, l.name)
    /\ l.kind \in {"SingleWildcard", "MultiWildcard", "Blank"} => l.name = <<>>

\* What TryFrom returns: "#" is last, a level of the server is first, and the first
\* level is one of the server if its name says so.
IsFilter(f) ==
    /\ Len(f) \in Nat /\ Len(f) >= 1 /\ DOMAIN f = 1 .. Len(f)
    /\ \A i \in 1 .. Len(f) :
          /\ IsLevel(f[i])
          /\ f[i].kind = "MultiWildcard" => i = Len(f)
          /\ f[i].kind = "System" <=> i = 1 /\ is_system(f[i].name)

Ends(f) == f[Len(f)] = MultiWildcard

\* Up to n, where g and h are equal they are equal one before.
AlikeBack(n, g, h) == \A k \in 1 .. n : g[k + 1] = h[k + 1] => g[k] = h[k]

\* Two functions that end alike and go back alike are alike.
LEMMA SameBack ==
    ASSUME NEW n \in Nat, NEW g, NEW h, g[n + 1] = h[n + 1], AlikeBack(n, g, h)
    PROVE  \A k \in 1 .. n + 1 : g[k] = h[k]
<1>. USE DEF AlikeBack
<1>. DEFINE D == {d \in 0 .. n : g[n + 1 - d] # h[n + 1 - d]}
<1>1. D = {}
  <2>1. SUFFICES ASSUME D # {} PROVE FALSE
    OBVIOUS
  <2>2. D \in SUBSET Nat
    OBVIOUS
  <2>3. PICK d \in D : \A j \in D : d <= j
    BY <2>1, <2>2, LeastNat, Zenon
  <2>4. d \in 1 .. n
    BY <2>3
  <2>5. d - 1 \in 0 .. n /\ d - 1 \notin D
    BY <2>3, <2>4
  <2>6. g[n + 1 - (d - 1)] = h[n + 1 - (d - 1)]
    BY <2>5
  <2>7. n + 1 - (d - 1) = (n + 1 - d) + 1 /\ n + 1 - d \in 1 .. n
    BY <2>4
  <2>. QED BY <2>3, <2>6, <2>7
<1>2. ASSUME NEW k \in 1 .. n + 1 PROVE g[k] = h[k]
  <2>1. n + 1 - k \in 0 .. n /\ n + 1 - (n + 1 - k) = k
    OBVIOUS
  <2>. QED BY <1>1, <2>1, Zenon
<1>. QED BY <1>2

\* The loop of match_topic, unrolled, for a superset whose only "#" may be its last level.
LEMMA MatchTopicIs ==
    ASSUME NEW f, IsFilter(f), NEW len \in Nat, NEW m,
           \A j \in 1 .. Len(f) : j <= len => m[j] \in BOOLEAN
    PROVE  match_topic(f, len, m) <=>
              /\ IF Ends(f) THEN len >= Len(f) - 1 ELSE len = Len(f)
              /\ \A j \in 1 .. Len(f) : j <= len => m[j]
<1>. DEFINE M == Len(f)
            Rec(i, next) == IF i > len THEN i > M \/ f[i] = MultiWildcard
                            ELSE i <= M /\ m[i] /\ (f[i] = MultiWildcard \/ next)
            Def(u) == [i \in 1 .. len + 1 |-> Rec(i, u[i + 1])]
            Fits == IF Ends(f) THEN len >= M - 1 ELSE len = M
            From(i) == IF i > M THEN i = len + 1
                       ELSE Fits /\ \A j \in i .. M : j <= len => m[j]
            g == [i \in 1 .. len + 1 |-> From(i)]
<1>1. match_topic(f, len, m) = (CHOOSE u : u = Def(u))[1]
  <2>. DEFINE Loop(u) == [i \in 1 .. len + 1 |->
                             IF i > len THEN i > Len(f) \/ f[i] = MultiWildcard
                             ELSE /\ i <= Len(f)
                                  /\ m[i]
                                  /\ f[i] = MultiWildcard \/ u[i + 1]]
  <2>1. match_topic(f, len, m) = (CHOOSE u : u = Loop(u))[1]
    BY DEF match_topic
  <2>2. \A u : Loop(u) = Def(u)
    BY ZenonT(30)
  <2>. HIDE DEF Loop, Def
  <2>. QED BY <2>1, <2>2, Zenon
<1>2. M \in Nat /\ M >= 1
  BY Zenon DEF IsFilter
<1>3. \A i \in 1 .. M : f[i] = MultiWildcard <=> i = M /\ Ends(f)
  <2>1. MultiWildcard.kind = "MultiWildcard"
    BY DEF MultiWildcard, Level
  <2>. QED BY <2>1, Zenon DEF IsFilter, Ends
<1>. HIDE DEF M
<1>4. g = Def(g)
  <2>1. ASSUME NEW i \in 1 .. len + 1 PROVE From(i) <=> Rec(i, From(i + 1))
    <3>1. CASE i > len /\ i > M
      BY <1>2, <3>1
    <3>2. CASE i > len /\ i <= M
      <4>1. i = len + 1 /\ i \in 1 .. M /\ \A j \in i .. M : ~(j <= len)
        BY <1>2, <3>2
      <4>2. From(i) <=> Fits
        BY <3>2, <4>1, <1>2
      <4>3. Fits <=> i = M /\ Ends(f)
        BY <1>2, <4>1
      <4>4. f[i] = MultiWildcard <=> i = M /\ Ends(f)
        BY <1>3, <4>1
      <4>. HIDE DEF From, Fits
      <4>. QED BY <1>2, <3>2, <4>2, <4>3, <4>4
    <3>3. CASE i <= len /\ i > M
      BY <1>2, <3>3
    <3>4. CASE i <= len /\ i = M
      <4>1. From(i + 1) <=> len = M
        BY <1>2, <3>4
      <4>2. From(i) <=> Fits /\ m[i]
        BY <1>2, <3>4
      <4>3. f[i] = MultiWildcard <=> Ends(f)
        BY <1>2, <1>3, <3>4
      <4>4. Fits <=> Ends(f) \/ len = M
        BY <1>2, <3>4
      <4>. HIDE DEF From, Fits
      <4>. QED BY <1>2, <3>4, <4>1, <4>2, <4>3, <4>4
    <3>5. CASE i <= len /\ i < M
      <4>1. From(i + 1) <=> Fits /\ \A j \in i + 1 .. M : j <= len => m[j]
        BY <1>2, <3>5
      <4>2. From(i) <=> Fits /\ \A j \in i .. M : j <= len => m[j]
        BY <1>2, <3>5
      <4>3. (\A j \in i .. M : j <= len => m[j]) <=> m[i] /\ \A j \in i + 1 .. M : j <= len => m[j]
        <5>. HIDE DEF Fits
        <5>1. i \in i .. M /\ \A j \in i .. M : j = i \/ j \in i + 1 .. M
          BY <1>2, <3>5
        <5>2. \A j \in i + 1 .. M : j \in i .. M
          BY <1>2, <3>5
        <5>. QED BY <3>5, <5>1, <5>2
      <4>4. f[i] # MultiWildcard
        BY <1>2, <1>3, <3>5
      <4>. HIDE DEF From, Fits
      <4>. QED BY <1>2, <3>5, <4>1, <4>2, <4>3, <4>4
    <3>. QED BY <1>2, <3>1, <3>2, <3>3, <3>4, <3>5
  <2>2. ASSUME NEW i \in 1 .. len + 1 PROVE Rec(i, From(i + 1)) = Rec(i, g[i + 1])
    <3>1. CASE i > len
      BY <3>1
    <3>2. CASE ~(i > len)
      <4>1. i + 1 \in 1 .. len + 1
        BY <3>2
      <4>2. g[i + 1] = From(i + 1)
        BY <4>1
      <4>. QED BY <4>2, Zenon
    <3>. QED BY <3>1, <3>2
  <2>3. ASSUME NEW i \in 1 .. len + 1 PROVE From(i) \in BOOLEAN /\ Rec(i, From(i + 1)) \in BOOLEAN
    BY Zenon
  <2>4. ASSUME NEW i \in 1 .. len + 1 PROVE From(i) = Rec(i, g[i + 1])
    <3>. HIDE DEF From, Rec, g
    <3>. QED BY <2>1, <2>2, <2>3, Zenon
  <2>. HIDE DEF From, Rec
  <2>. QED BY <2>4, Zenon
<1>5. PICK u : u = Def(u) /\ match_topic(f, len, m) = u[1]
  <2>. HIDE DEF Def, g
  <2>. QED BY <1>1, <1>4, Zenon
<1>. HIDE DEF Fits, From
<1>6. u[len + 1] = g[len + 1]
  <2>1. len + 1 \in 1 .. len + 1 /\ len + 1 > len
    OBVIOUS
  <2>2. Rec(len + 1, u[len + 1 + 1]) = Rec(len + 1, g[len + 1 + 1])
    BY <2>1
  <2>3. Def(u)[len + 1] = Def(g)[len + 1]
    <3>. HIDE DEF Rec, g
    <3>. QED BY <2>1, <2>2
  <2>. HIDE DEF Def, g
  <2>. QED BY <1>4, <1>5, <2>3, Zenon
<1>7. ASSUME NEW k \in 1 .. len, u[k + 1] = g[k + 1] PROVE u[k] = g[k]
  <2>1. k \in 1 .. len + 1
    OBVIOUS
  <2>2. Def(u)[k] = Def(g)[k]
    <3>. HIDE DEF Rec, g
    <3>. QED BY <1>7, <2>1
  <2>. HIDE DEF Def, g
  <2>. QED BY <1>4, <1>5, <2>2, Zenon
<1>8. u[1] = g[1]
  <2>. HIDE DEF Def, g, Rec
  <2>1. AlikeBack(len, u, g)
    BY <1>7, Zenon DEF AlikeBack
  <2>2. \A k \in 1 .. len + 1 : u[k] = g[k]
    BY <1>6, <2>1, SameBack
  <2>. QED BY <2>2
<1>9. g[1] = From(1)
  <2>1. 1 \in 1 .. len + 1
    OBVIOUS
  <2>. QED BY <2>1
<1>10. From(1) <=> Fits /\ \A j \in 1 .. M : j <= len => m[j]
  BY <1>2 DEF From
<1>. HIDE DEF Def, g
<1>. QED BY <1>5, <1>8, <1>9, <1>10 DEF M, Fits

\* Level i of a filter, by its name.
LevelIs(l, i, name) ==
    /\ IsLevel(l)
    /\ l.kind = "MultiWildcard" <=> name = <<"#">>
    /\ l.kind = "SingleWildcard" <=> name = <<"+">>
    /\ l.kind = "Blank" <=> name = <<>>
    /\ l.kind \in {"Normal", "System"} => l.name = name
    /\ l.kind = "System" <=> i = 1 /\ is_system(l.name)

\* A level that is parsed is the one its name says.
LEMMA LevelOf ==
    ASSUME NEW i, NEW name, Ok(name) \/ name = <<"#">>
    PROVE  LevelIs(level(i, name), i, name)
<1>. DEFINE l == level(i, name)
<1>0. <<"+">> # <<"#">> /\ <<"+">> # <<>> /\ <<"#">> # <<>> /\ ~is_system(<<>>)
  BY DEF is_system
<1>1. CASE name = <<"+">>
  <2>1. l = [kind |-> "SingleWildcard", name |-> <<>>]
    BY <1>1 DEF level, SingleWildcard, Level
  <2>. HIDE DEF l
  <2>. QED BY <1>0, <1>1, <2>1 DEF LevelIs, IsLevel, Level, l
<1>2. CASE name = <<"#">>
  <2>1. l = [kind |-> "MultiWildcard", name |-> <<>>]
    BY <1>0, <1>2 DEF level, MultiWildcard, Level
  <2>. HIDE DEF l
  <2>. QED BY <1>0, <1>2, <2>1 DEF LevelIs, IsLevel, Level, l
<1>3. CASE name = <<>>
  <2>1. l = [kind |-> "Blank", name |-> <<>>]
    BY <1>0, <1>3 DEF level, Blank, Level
  <2>. HIDE DEF l
  <2>. QED BY <1>0, <1>3, <2>1 DEF LevelIs, IsLevel, Level, l
<1>4. CASE name # <<"+">> /\ name # <<"#">> /\ name # <<>>
  <2>1. l = [kind |-> IF i = 1 /\ is_system(name) THEN "System" ELSE "Normal", name |-> name]
    BY <1>4 DEF level, Level, Ok
  <2>. HIDE DEF l
  <2>. QED BY <1>0, <1>4, <2>1 DEF LevelIs, IsLevel, Level, l
<1>. QED BY <1>1, <1>2, <1>3, <1>4

\* What is known of a filter that was parsed.
Parsed(f, N) ==
    /\ N \in Names /\ Good(N)
    /\ IsFilter(f) /\ Len(f) = Len(N)
    /\ \A i \in 1 .. Len(N) : f[i] = level(i, N[i])

\* TryFrom gives a filter of the levels of its text.
LEMMA ParsedFilter ==
    ASSUME NEW s \in Seq(Chars), try_from(s) # <<>>
    PROVE  Parsed(try_from(s), split(s))
<1>. DEFINE N == split(s)
            f == [i \in 1 .. Len(N) |-> level(i, N[i])]
<1>1. s # <<>>
  BY DEF try_from
<1>2. Good(N) /\ try_from(s) = f
  BY <1>1, ParsedIffGood
<1>3. N \in Names
  BY SplitAppend, TopicAssumption
<1>. HIDE DEF N
<1>4. Len(N) \in Nat /\ Len(N) >= 1
  BY <1>3 DEF Names
<1>5. Len(f) = Len(N) /\ DOMAIN f = 1 .. Len(N) /\ \A i \in 1 .. Len(N) : f[i] = level(i, N[i])
  BY <1>4
<1>. HIDE DEF f
<1>6. ASSUME NEW i \in 1 .. Len(N)
      PROVE  /\ IsLevel(f[i])
             /\ f[i].kind = "MultiWildcard" => i = Len(N)
             /\ f[i].kind = "System" <=> i = 1 /\ is_system(f[i].name)
  <2>1. Ok(N[i]) \/ (i = Len(N) /\ N[i] = <<"#">>)
    BY <1>2 DEF Good
  <2>2. ~Ok(<<"#">>)
    BY SMTT(30) DEF Ok, Wildcards
  <2>3. LevelIs(f[i], i, N[i])
    BY <1>5, <2>1, LevelOf, ZenonT(30)
  <2>. QED BY <2>1, <2>2, <2>3 DEF LevelIs
<1>7. IsFilter(f)
  BY <1>4, <1>5, <1>6, Zenon DEF IsFilter
<1>. QED BY <1>2, <1>3, <1>5, <1>7 DEF Parsed, N

\* A level matches or does not.
LEMMA MatchLevelIs ==
    ASSUME NEW l, IsLevel(l), NEW name, NEW i
    PROVE  /\ match_level(name, l, i) \in BOOLEAN
           /\ l.kind = "Normal" => (match_level(name, l, i) <=> l.name = name)
           /\ l.kind = "System" => (match_level(name, l, i) <=> is_system(name) /\ l.name = name)
           /\ l.kind = "Blank" => (match_level(name, l, i) <=> name = <<>>)
           /\ l.kind \in {"SingleWildcard", "MultiWildcard"} =>
                 (match_level(name, l, i) <=> ~(i = 1 /\ is_system(name)))
<1>1. CASE l.kind = "Normal"
  BY <1>1 DEF match_level
<1>2. CASE l.kind = "System"
  BY <1>2 DEF match_level
<1>3. CASE l.kind = "Blank"
  BY <1>3 DEF match_level
<1>4. CASE l.kind \in {"SingleWildcard", "MultiWildcard"}
  BY <1>4, Zenon DEF match_level
<1>. QED BY <1>1, <1>2, <1>3, <1>4 DEF IsLevel

\* A filter matches a topic name of the right number of levels, level by level.
LEMMA MatchesTopicIs ==
    ASSUME NEW f, IsFilter(f), NEW t \in Seq(Chars)
    PROVE  matches_topic(f, t) <=>
              /\ IF Ends(f) THEN Len(split(t)) >= Len(f) - 1 ELSE Len(split(t)) = Len(f)
              /\ \A j \in 1 .. Len(f) : j <= Len(split(t)) => match_level(split(t)[j], f[j], j)
<1>. DEFINE T == split(t)
            m == [i \in DOMAIN f \cap DOMAIN T |-> match_level(T[i], f[i], i)]
<1>1. matches_topic(f, t) = match_topic(f, Len(T), m)
  BY DEF matches_topic
<1>2. T \in Names /\ Len(T) \in Nat /\ DOMAIN T = 1 .. Len(T)
  <2>1. T \in Names
    BY SplitAppend, TopicAssumption
  <2>. QED BY <2>1 DEF Names
<1>. HIDE DEF T
<1>3. ASSUME NEW j \in 1 .. Len(f), j <= Len(T)
      PROVE  m[j] = match_level(T[j], f[j], j) /\ m[j] \in BOOLEAN
  <2>0. Len(f) \in Nat /\ DOMAIN f = 1 .. Len(f) /\ IsLevel(f[j])
    BY Zenon DEF IsFilter
  <2>1. j \in DOMAIN f \cap DOMAIN T /\ IsLevel(f[j])
    <3>1. j \in 1 .. Len(T)
      BY <1>2, <1>3, <2>0
    <3>. QED BY <1>2, <2>0, <3>1, Zenon
  <2>2. m[j] = match_level(T[j], f[j], j)
    BY <2>1
  <2>. HIDE DEF m
  <2>. QED BY <2>1, <2>2, MatchLevelIs
<1>. HIDE DEF m
<1>4. match_topic(f, Len(T), m) <=>
         /\ IF Ends(f) THEN Len(T) >= Len(f) - 1 ELSE Len(T) = Len(f)
         /\ \A j \in 1 .. Len(f) : j <= Len(T) => m[j]
  BY <1>2, <1>3, MatchTopicIs
<1>. QED BY <1>1, <1>3, <1>4 DEF T

Wild == {<<"+">>, <<"#">>}

\* A level of a parsed filter matches a name: by the text of the level.
LEMMA MatchByName ==
    ASSUME NEW f, NEW N, Parsed(f, N), NEW j \in 1 .. Len(N), NEW name
    PROVE  match_level(name, f[j], j) <=>
              IF N[j] \in Wild THEN ~(j = 1 /\ is_system(name)) ELSE N[j] = name
<1>1. IsLevel(f[j]) /\ f[j] = level(j, N[j])
  BY Zenon DEF Parsed, IsFilter
<1>2. Ok(N[j]) \/ N[j] = <<"#">>
  BY Zenon DEF Parsed, Good
<1>0. LevelIs(f[j], j, N[j])
  BY <1>1, <1>2, LevelOf, Zenon
<1>3. /\ f[j].kind = "MultiWildcard" <=> N[j] = <<"#">>
      /\ f[j].kind = "SingleWildcard" <=> N[j] = <<"+">>
      /\ f[j].kind = "Blank" <=> N[j] = <<>>
      /\ f[j].kind \in {"Normal", "System"} => f[j].name = N[j]
      /\ f[j].kind = "System" <=> j = 1 /\ is_system(f[j].name)
  BY <1>0 DEF LevelIs
<1>4. f[j].kind \in {"Normal", "System", "Blank", "SingleWildcard", "MultiWildcard"}
  BY <1>1 DEF IsLevel
<1>5. /\ f[j].kind = "Normal" => (match_level(name, f[j], j) <=> f[j].name = name)
      /\ f[j].kind = "System" => (match_level(name, f[j], j) <=> is_system(name) /\ f[j].name = name)
      /\ f[j].kind = "Blank" => (match_level(name, f[j], j) <=> name = <<>>)
      /\ f[j].kind \in {"SingleWildcard", "MultiWildcard"} =>
            (match_level(name, f[j], j) <=> ~(j = 1 /\ is_system(name)))
  BY <1>1, MatchLevelIs, Zenon
<1>6. N[j] \in Wild <=> N[j] = <<"+">> \/ N[j] = <<"#">>
  BY Zenon DEF Wild
<1>. QED BY <1>3, <1>4, <1>5, <1>6

\* A parsed filter ends with "#" if its text does.
LEMMA EndsByName ==
    ASSUME NEW f, NEW N, Parsed(f, N)
    PROVE  /\ Len(N) \in Nat /\ Len(N) >= 1 /\ Len(f) = Len(N)
           /\ Ends(f) <=> N[Len(N)] = <<"#">>
           /\ \A i \in 1 .. Len(N) : i # Len(N) => N[i] # <<"#">>
<1>1. Len(N) \in Nat /\ Len(N) >= 1 /\ Len(f) = Len(N)
  BY DEF Parsed, Names
<1>2. \A i \in 1 .. Len(N) : i # Len(N) => N[i] # <<"#">>
  <2>1. ~Ok(<<"#">>)
    BY DEF Ok, Wildcards
  <2>. QED BY <2>1, Zenon DEF Parsed, Good
<1>3. Ends(f) <=> N[Len(N)] = <<"#">>
  <2>. DEFINE j == Len(N)
  <2>0. j \in 1 .. Len(N)
    BY <1>1
  <2>. HIDE DEF j
  <2>1. IsLevel(f[j]) /\ f[j] = level(j, N[j])
    BY <2>0, Zenon DEF Parsed, IsFilter
  <2>2. Ok(N[j]) \/ N[j] = <<"#">>
    BY <2>0, Zenon DEF Parsed, Good
  <2>3. f[j].kind = "MultiWildcard" <=> N[j] = <<"#">>
    <3>1. LevelIs(f[j], j, N[j])
      BY <2>1, <2>2, LevelOf
    <3>. QED BY <3>1 DEF LevelIs
  <2>4. f[j].kind = "MultiWildcard" <=> f[j] = MultiWildcard
    BY <2>1 DEF IsLevel, MultiWildcard, Level
  <2>. QED BY <1>1, <2>3, <2>4 DEF Ends, j
<1>. QED BY <1>1, <1>2, <1>3

\* matches_topic decides as the rules of MQTT say, for every filter that TryFrom
\* accepts and every topic name, of any number of levels.
LEMMA MatchTopicAsSpecified ==
    ASSUME NEW s \in Seq(Chars), NEW t \in Seq(Chars), try_from(s) # <<>>
    PROVE  matches_topic(try_from(s), t) <=> Specified(s, t)
<1>. DEFINE f == try_from(s)
            F == split(s)
            T == split(t)
            n == IF F[Len(F)] = <<"#">> THEN Len(F) - 1 ELSE Len(F)
<1>1. Parsed(f, F)
  BY ParsedFilter
<1>2. Specified(s, t) <=>
         /\ IF n < Len(F) THEN Len(T) >= n ELSE Len(T) = n
         /\ \A i \in 1 .. n : F[i] \in {<<"+">>, T[i]}
         /\ is_system(T[1]) => F[1] \notin {<<"+">>, <<"#">>}
  BY DEF Specified
<1>3. /\ Len(F) \in Nat /\ Len(F) >= 1 /\ Len(f) = Len(F)
      /\ Ends(f) <=> F[Len(F)] = <<"#">>
      /\ \A i \in 1 .. Len(F) : i # Len(F) => F[i] # <<"#">>
  BY <1>1, EndsByName, Zenon
<1>4. n = IF Ends(f) THEN Len(F) - 1 ELSE Len(F)
  BY <1>3
<1>5. Len(T) \in Nat /\ Len(T) >= 1
  <2>1. T \in Names
    BY SplitAppend, TopicAssumption
  <2>. QED BY <2>1 DEF Names
<1>6. matches_topic(f, t) <=>
         /\ IF Ends(f) THEN Len(T) >= Len(f) - 1 ELSE Len(T) = Len(f)
         /\ \A j \in 1 .. Len(f) : j <= Len(T) => match_level(T[j], f[j], j)
  BY <1>1, MatchesTopicIs DEF Parsed
<1>7. \A j \in 1 .. Len(F) : match_level(T[j], f[j], j) <=>
         IF F[j] \in Wild THEN ~(j = 1 /\ is_system(T[j])) ELSE F[j] = T[j]
  BY <1>1, MatchByName, Zenon
<1>. HIDE DEF f, F, T, n
<1>8. CASE IF Ends(f) THEN Len(T) >= Len(F) - 1 ELSE Len(T) = Len(F)
  <2>1. (IF n < Len(F) THEN Len(T) >= n ELSE Len(T) = n) /\ n \in Nat /\ n <= Len(T) /\ n <= Len(F)
    BY <1>3, <1>4, <1>5, <1>8
  <2>2. ASSUME matches_topic(f, t)
        PROVE  Specified(s, t)
    <3>1. \A j \in 1 .. Len(F) : j <= Len(T) =>
             IF F[j] \in Wild THEN ~(j = 1 /\ is_system(T[j])) ELSE F[j] = T[j]
      BY <1>3, <1>6, <1>7, <2>2, Zenon
    <3>2. ASSUME NEW i \in 1 .. n
          PROVE  F[i] \in {<<"+">>, T[i]}
      <4>1. i \in 1 .. Len(F) /\ i <= Len(T)
        BY <2>1
      <4>2. F[i] # <<"#">>
        BY <1>3, <1>4, <4>1
      <4>. QED BY <3>1, <4>1, <4>2, Zenon DEF Wild
    <3>3. 1 \in 1 .. Len(F) /\ 1 <= Len(T)
      BY <1>3, <1>5
    <3>4. is_system(T[1]) => F[1] \notin {<<"+">>, <<"#">>}
      BY <3>1, <3>3, Zenon DEF Wild
    <3>. QED BY <1>2, <2>1, <3>2, <3>4, Zenon
  <2>3. ASSUME Specified(s, t)
        PROVE  matches_topic(f, t)
    <3>0. /\ \A i \in 1 .. n : F[i] \in {<<"+">>, T[i]}
          /\ is_system(T[1]) => F[1] \notin {<<"+">>, <<"#">>}
      BY <1>2, <2>3, Zenon
    <3>1. ASSUME NEW j \in 1 .. Len(F)
          PROVE  match_level(T[j], f[j], j)
      <4>1. F[j] \in Wild => ~(j = 1 /\ is_system(T[j]))
        BY <3>0 DEF Wild
      <4>2. CASE j \in 1 .. n
        BY <1>7, <3>0, <4>1, <4>2, Zenon DEF Wild
      <4>3. CASE j \notin 1 .. n
        <5>1. j = Len(F) /\ Ends(f)
          BY <1>3, <1>4, <4>3
        <5>. QED BY <1>3, <1>7, <4>1, <5>1, Zenon DEF Wild
      <4>. QED BY <4>2, <4>3
    <3>. QED BY <1>3, <1>6, <1>8, <3>1, Zenon
  <2>. QED BY <2>2, <2>3 DEF f
<1>9. CASE ~(IF Ends(f) THEN Len(T) >= Len(F) - 1 ELSE Len(T) = Len(F))
  <2>1. ~matches_topic(f, t)
    BY <1>3, <1>6, <1>9
  <2>2. ~(IF n < Len(F) THEN Len(T) >= n ELSE Len(T) = n)
    BY <1>3, <1>4, <1>5, <1>9
  <2>. QED BY <1>2, <2>1, <2>2, Zenon DEF f
<1>. QED BY <1>8, <1>9

\* A level of a filter matches the one of another filter or does not; only "#" matches "#".
LEMMA MatchImplIs ==
    ASSUME NEW l, IsLevel(l), NEW k
    PROVE  /\ match_level_impl(k, l) \in BOOLEAN
           /\ l.kind \in {"Normal", "System", "Blank"} => (match_level_impl(k, l) <=> k = l)
           /\ l # MultiWildcard => ~match_level_impl(MultiWildcard, l)
<1>0. l.kind = "MultiWildcard" => l = MultiWildcard
  BY DEF IsLevel, MultiWildcard, Level
<1>1. CASE l.kind \in {"Normal", "System", "Blank"}
  <2>1. match_level_impl(k, l) = (k = l) /\ match_level_impl(MultiWildcard, l) = (MultiWildcard = l)
    BY <1>1, Zenon DEF match_level_impl
  <2>. QED BY <2>1, Zenon
<1>2. CASE l.kind = "SingleWildcard"
  <2>1. /\ match_level_impl(k, l) = (k # MultiWildcard)
        /\ match_level_impl(MultiWildcard, l) = (MultiWildcard # MultiWildcard)
    BY <1>2 DEF match_level_impl
  <2>. QED BY <1>2, <2>1, Zenon
<1>3. CASE l.kind = "MultiWildcard"
  <2>1. match_level_impl(k, l) = TRUE
    BY <1>3 DEF match_level_impl
  <2>. QED BY <1>0, <1>3, <2>1
<1>. QED BY <1>1, <1>2, <1>3 DEF IsLevel

\* A filter matches another one of the right number of levels, level by level.
LEMMA MatchesFilterIs ==
    ASSUME NEW f, IsFilter(f), NEW g, IsFilter(g)
    PROVE  matches_filter(f, g) <=>
              /\ IF Ends(f) THEN Len(g) >= Len(f) - 1 ELSE Len(g) = Len(f)
              /\ \A j \in 1 .. Len(f) : j <= Len(g) => match_level_impl(g[j], f[j])
<1>. DEFINE m == [i \in DOMAIN f \cap DOMAIN g |-> match_level_impl(g[i], f[i])]
<1>1. matches_filter(f, g) = match_topic(f, Len(g), m)
  BY DEF matches_filter
<1>2. Len(g) \in Nat /\ DOMAIN g = 1 .. Len(g)
  BY Zenon DEF IsFilter
<1>3. ASSUME NEW j \in 1 .. Len(f), j <= Len(g)
      PROVE  m[j] = match_level_impl(g[j], f[j]) /\ m[j] \in BOOLEAN
  <2>0. Len(f) \in Nat /\ DOMAIN f = 1 .. Len(f) /\ IsLevel(f[j])
    BY Zenon DEF IsFilter
  <2>1. j \in DOMAIN f \cap DOMAIN g
    <3>1. j \in 1 .. Len(g)
      BY <1>2, <1>3, <2>0
    <3>. QED BY <1>2, <2>0, <3>1, Zenon
  <2>2. m[j] = match_level_impl(g[j], f[j])
    BY <2>1
  <2>. HIDE DEF m
  <2>. QED BY <2>0, <2>2, MatchImplIs
<1>. HIDE DEF m
<1>4. match_topic(f, Len(g), m) <=>
         /\ IF Ends(f) THEN Len(g) >= Len(f) - 1 ELSE Len(g) = Len(f)
         /\ \A j \in 1 .. Len(f) : j <= Len(g) => m[j]
  BY <1>2, <1>3, MatchTopicIs
<1>. QED BY <1>1, <1>3, <1>4

\* What a topic name has at a first level that is not one of the server.
LEMMA FirstLevel ==
    ASSUME NEW g, IsFilter(g), g[1].kind # "System", NEW name, match_level(name, g[1], 1)
    PROVE  ~is_system(name)
<1>1. IsLevel(g[1]) /\ (g[1].kind = "System" <=> is_system(g[1].name))
  <2>1. Len(g) \in Nat /\ Len(g) >= 1
    BY Zenon DEF IsFilter
  <2>2. 1 \in 1 .. Len(g)
    BY <2>1
  <2>. QED BY <2>2, Zenon DEF IsFilter
<1>2. ~is_system(<<>>)
  BY DEF is_system
<1>3. g[1].kind \in {"Normal", "Blank", "SingleWildcard", "MultiWildcard"}
  BY <1>1 DEF IsLevel
<1>4. /\ g[1].kind = "Normal" => g[1].name = name
      /\ g[1].kind = "Blank" => name = <<>>
      /\ g[1].kind \in {"SingleWildcard", "MultiWildcard"} => ~(1 = 1 /\ is_system(name))
  BY <1>1, MatchLevelIs, Zenon
<1>. QED BY <1>1, <1>2, <1>3, <1>4

\* A filter that matches another one matches every topic name the other matches: for any
\* two filters that TryFrom accepts, the second of which does not start with a level of
\* the server ("$...").
LEMMA MatchFilterCovers ==
    ASSUME NEW s \in Seq(Chars), NEW r \in Seq(Chars), NEW t \in Seq(Chars),
           try_from(s) # <<>>, try_from(r) # <<>>, try_from(r)[1].kind # "System",
           matches_filter(try_from(s), try_from(r)), matches_topic(try_from(r), t)
    PROVE  matches_topic(try_from(s), t)
<1>. DEFINE f == try_from(s)
            g == try_from(r)
            T == split(t)
<1>1. IsFilter(f) /\ IsFilter(g)
  BY ParsedFilter DEF Parsed
<1>2. Len(T) \in Nat /\ Len(T) >= 1
  <2>1. T \in Names
    BY SplitAppend, TopicAssumption
  <2>. QED BY <2>1 DEF Names
<1>3. /\ IF Ends(f) THEN Len(g) >= Len(f) - 1 ELSE Len(g) = Len(f)
      /\ \A j \in 1 .. Len(f) : j <= Len(g) => match_level_impl(g[j], f[j])
  BY <1>1, MatchesFilterIs, Zenon
<1>4. /\ IF Ends(g) THEN Len(T) >= Len(g) - 1 ELSE Len(T) = Len(g)
      /\ \A j \in 1 .. Len(g) : j <= Len(T) => match_level(T[j], g[j], j)
  BY <1>1, MatchesTopicIs, Zenon
<1>5. matches_topic(f, t) <=>
         /\ IF Ends(f) THEN Len(T) >= Len(f) - 1 ELSE Len(T) = Len(f)
         /\ \A j \in 1 .. Len(f) : j <= Len(T) => match_level(T[j], f[j], j)
  BY <1>1, MatchesTopicIs, Zenon
<1>6. g[1].kind # "System"
  OBVIOUS
<1>. HIDE DEF f, g, T
<1>7. /\ Len(f) \in Nat /\ Len(f) >= 1 /\ Len(g) \in Nat /\ Len(g) >= 1
      /\ \A j \in 1 .. Len(f) : IsLevel(f[j]) /\ (f[j] = MultiWildcard => j = Len(f))
  <2>1. MultiWildcard.kind = "MultiWildcard"
    BY DEF MultiWildcard, Level
  <2>. QED BY <1>1, <2>1, Zenon DEF IsFilter
<1>8. ASSUME Ends(g)
      PROVE  Ends(f) /\ Len(g) >= Len(f)
  <2>1. SUFFICES ASSUME ~(Ends(f) /\ Len(g) >= Len(f))
                 PROVE  FALSE
    OBVIOUS
  <2>2. Len(g) \in 1 .. Len(f) /\ Len(g) <= Len(g) /\ (Len(g) = Len(f) => ~Ends(f))
    BY <1>3, <1>7, <2>1
  <2>3. f[Len(g)] # MultiWildcard /\ IsLevel(f[Len(g)])
    BY <1>7, <2>2, Zenon DEF Ends
  <2>4. match_level_impl(g[Len(g)], f[Len(g)]) /\ g[Len(g)] = MultiWildcard
    BY <1>3, <1>8, <2>2, Zenon DEF Ends
  <2>. QED BY <2>3, <2>4, MatchImplIs
<1>9. IF Ends(f) THEN Len(T) >= Len(f) - 1 ELSE Len(T) = Len(f)
  BY <1>2, <1>3, <1>4, <1>7, <1>8
<1>10. ~is_system(T[1])
  <2>1. 1 \in 1 .. Len(g) /\ 1 <= Len(T)
    BY <1>2, <1>7
  <2>2. match_level(T[1], g[1], 1)
    BY <1>4, <2>1, Zenon
  <2>. QED BY <1>1, <1>6, <2>2, FirstLevel
<1>11. ASSUME NEW j \in 1 .. Len(f), j <= Len(T)
       PROVE  match_level(T[j], f[j], j)
  <2>0. IsLevel(f[j])
    BY <1>7
  <2>1. CASE f[j].kind \in {"SingleWildcard", "MultiWildcard"}
    <3>1. ~(j = 1 /\ is_system(T[j]))
      BY <1>10
    <3>. QED BY <2>0, <2>1, <3>1, MatchLevelIs, Zenon
  <2>2. CASE f[j].kind \in {"Normal", "System", "Blank"}
    <3>1. f[j] # MultiWildcard
      BY <2>2 DEF MultiWildcard, Level
    <3>2. j \in 1 .. Len(g) /\ j <= Len(g)
      BY <1>3, <1>7, <3>1 DEF Ends
    <3>3. match_level_impl(g[j], f[j]) /\ match_level(T[j], g[j], j)
      BY <1>3, <1>4, <1>11, <3>2, Zenon
    <3>4. g[j] = f[j]
      BY <2>0, <2>2, <3>3, MatchImplIs
    <3>. QED BY <3>3, <3>4
  <2>. QED BY <2>0, <2>1, <2>2 DEF IsLevel
<1>. QED BY <1>5, <1>9, <1>11, Zenon DEF f

-----------------------------------------------------------------------------
\* What is read is a text.
LEMMA TextType == Spec => [](text \in Seq(Chars))
<1>1. Init => text \in Seq(Chars)
  BY DEF Init
<1>2. text \in Seq(Chars) /\ [Next]_vars => (text \in Seq(Chars))'
  BY DEF Next, Read, vars
<1>. QED BY <1>1, <1>2, PTL DEF Spec

\* matches_topic decides as the rules of MQTT say: for a filter of any text and any set
\* of topic names.
THEOREM TopicMatchesAsSpecified == Spec => []MatchesAsSpecified
<1>1. text \in Seq(Chars) => MatchesAsSpecified
  BY TopicAssumption, MatchTopicAsSpecified DEF MatchesAsSpecified
<1>. QED BY <1>1, TextType, PTL

\* A filter that matches_filter says covers another one matches every topic name the
\* other does, if the other does not start with a level of the server: for any two
\* filters and any topic names.
THEOREM TopicFilterCovers == Spec => []FilterCovers
<1>1. ASSUME text \in Seq(Chars), try_from(text) # <<>>, NEW r \in Filters, try_from(r) # <<>>,
             try_from(r)[1].kind # "System", matches_filter(try_from(text), try_from(r))
      PROVE  Covers(try_from(text), try_from(r))
  <2>1. r \in Seq(Chars) /\ Topics \subseteq Seq(Chars)
    BY TopicAssumption
  <2>2. ASSUME NEW t \in Topics, matches_topic(try_from(r), t)
        PROVE  matches_topic(try_from(text), t)
    BY <1>1, <2>1, <2>2, MatchFilterCovers
  <2>. QED BY <2>2 DEF Covers
<1>2. text \in Seq(Chars) => FilterCovers
  BY <1>1 DEF FilterCovers, ParsedFilters
<1>. QED BY <1>2, TextType, PTL

-----------------------------------------------------------------------------
Lengths == INSTANCE Wire

\* The number of bytes of a length, by the ranges of the table.
LEMMA VarIntLen ==
    ASSUME NEW n \in Int
    PROVE  /\ n < 128 => Lengths!var_int_len(n) = 1
           /\ n >= 128 /\ n < 16384 => Lengths!var_int_len(n) = 2
           /\ n >= 16384 /\ n < 2097152 => Lengths!var_int_len(n) = 3
           /\ n >= 2097152 /\ n <= 268435455 => Lengths!var_int_len(n) = 4
           /\ n > 268435455 => Lengths!var_int_len(n) = 5
BY SMTT(30) DEF Lengths!var_int_len, Lengths!MAX_PACKET_SIZE

\* The codecs compute the length of a packet's content from the size of the content with
\* its length in front, without knowing how many bytes the length takes
\* (utils.rs: var_int_len_from_size). They find it for every length that can be written.
THEOREM VarIntLenUndone ==
    \A n \in Nat : n <= Lengths!MAX_PACKET_SIZE =>
        Lengths!var_int_len_from_size(Lengths!var_int_len(n) + n) = n
<1> DEFINE len(i) == Lengths!var_int_len(i)
<1>1. Lengths!MAX_PACKET_SIZE = 268435455
  BY SMTT(30) DEF Lengths!MAX_PACKET_SIZE
<1> SUFFICES ASSUME NEW n \in Nat, n <= 268435455
             PROVE  Lengths!var_int_len_from_size(len(n) + n) = n
  BY <1>1, SMTT(30)
<1>2. \A v : Lengths!var_int_len_from_size(v) = v - len(v - len(v) + 1)
  BY DEF Lengths!var_int_len_from_size
<1>3. \A i \in Int :
      /\ i < 128 => len(i) = 1
      /\ i >= 128 /\ i < 16384 => len(i) = 2
      /\ i >= 16384 /\ i < 2097152 => len(i) = 3
      /\ i >= 2097152 /\ i <= 268435455 => len(i) = 4
      /\ i > 268435455 => len(i) = 5
  BY VarIntLen, SMTT(30)
<1> HIDE DEF len
<1>4. PICK k \in 1 .. 4 : len(n) = k
  BY <1>3, SMTT(30)
<1>5. PICK m \in {k, k + 1} : len(k + n) = m
  BY <1>3, <1>4, SMTT(30)
<1>6. len(k + n - m + 1) = k
  BY <1>3, <1>4, <1>5, SMTT(30)
<1>7. Lengths!var_int_len_from_size(k + n) = k + n - k
  BY <1>2, <1>5, <1>6, SMTT(30)
<1> QED BY <1>4, <1>7, SMTT(30)

\* A sum of up to four numbers, written out.
LEMMA TotalIs ==
    ASSUME NEW k \in 1 .. 4, NEW s \in Seq(Int), Len(s) = k
    PROVE  Lengths!Total(s) = s[1] + (IF k > 1 THEN s[2] ELSE 0)
                                   + (IF k > 2 THEN s[3] ELSE 0)
                                   + (IF k > 3 THEN s[4] ELSE 0)
<1> DEFINE F(f) == [j \in 0 .. Len(s) |-> IF j = 0 THEN 0 ELSE f[j - 1] + s[j]]
           sum(j) == IF j = 0 THEN 0
                     ELSE s[1] + (IF j > 1 THEN s[2] ELSE 0)
                               + (IF j > 2 THEN s[3] ELSE 0)
                               + (IF j > 3 THEN s[4] ELSE 0)
           g == [j \in 0 .. Len(s) |-> sum(j)]
           h == CHOOSE f : f = F(f)
<1>1. Lengths!Total(s) = h[Len(s)]
  BY DEF Lengths!Total
<1>2. \A j \in 1 .. k : s[j] \in Int
  OBVIOUS
<1>3. \A j \in 1 .. k : sum(j) = sum(j - 1) + s[j]
  BY <1>2, SMTT(30)
<1>4. g = F(g)
  BY <1>3, SMTT(30)
<1>5. h = F(h)
  BY <1>4, Zenon
<1>6. \A j \in 0 .. k : h[j] = IF j = 0 THEN 0 ELSE h[j - 1] + s[j]
  <2> HIDE DEF h
  <2> QED BY <1>5, SMTT(30)
<1> HIDE DEF h
<1>7. /\ h[0] = 0
      /\ h[1] = s[1]
      /\ k > 1 => h[2] = h[1] + s[2]
      /\ k > 2 => h[3] = h[2] + s[3]
      /\ k > 3 => h[4] = h[3] + s[4]
  BY <1>2, <1>6, SMTT(30)
<1> QED BY <1>1, <1>2, <1>7, SMTT(30)

\* What a buffer holds: fields with a size and a value.
Field == [n : Nat, v : Int]

\* The read of a number ends with the first byte whose high bit is clear.
LEMMA ReadEnds ==
    ASSUME NEW src \in Seq(Field), NEW k \in 1 .. 4, k <= Len(src),
           \A i \in 1 .. k : src[i].n = 1,
           \A i \in 1 .. k - 1 : src[i].v >= 128,
           src[k].v < 128
    PROVE  Lengths!decode_variable_length(src)
             = Lengths!Read(Lengths!Total([i \in 1 .. k |-> (src[i].v % 128) * 128^(i - 1)]), k)
<1> DEFINE four == Lengths!Min({4, Len(src)})
           seen == SubSeq(src, 1, four)
           ends == {i \in DOMAIN seen : seen[i].v < 128}
<1>1. four \in k .. 4 /\ four <= Len(src)
  BY DEF Lengths!Min
<1>2. DOMAIN seen = 1 .. four /\ \A i \in 1 .. four : seen[i] = src[i]
  <2> HIDE DEF four
  <2> QED BY <1>1, SMTT(30)
<1> HIDE DEF four, seen
<1>3. k \in ends /\ \A i \in ends : k <= i
  <2>1. \A i \in 1 .. Len(src) : src[i].v \in Int
    <3>1. \A i \in 1 .. Len(src) : src[i] \in Field
      OBVIOUS
    <3> QED BY <3>1, SMTT(30) DEF Field
  <2>2. k \in ends
    BY <1>1, <1>2, SMTT(30)
  <2>3. ASSUME NEW i \in ends, i < k
        PROVE  FALSE
    BY <1>1, <1>2, <2>1, <2>3, SMTT(30)
  <2> QED BY <1>1, <1>2, <2>2, <2>3, SMTT(30)
<1>4. Lengths!Min(ends) = k
  BY <1>3, <1>1, <1>2, SMTT(30) DEF Lengths!Min
<1>5. ~\E i \in DOMAIN seen : seen[i].n # 1 /\ \A j \in ends : i <= j
  BY <1>1, <1>2, <1>3, SMTT(30)
<1>6. [i \in 1 .. k |-> (seen[i].v % 128) * 128^(i - 1)]
        = [i \in 1 .. k |-> (src[i].v % 128) * 128^(i - 1)]
  BY <1>1, <1>2, SMTT(30)
<1>7. Lengths!decode_variable_length_cursor(src)
        = Lengths!Read(Lengths!Total([i \in 1 .. k |-> (seen[i].v % 128) * 128^(i - 1)]), k)
  BY <1>3, <1>4, <1>5, Zenon DEF Lengths!decode_variable_length_cursor, four, seen
<1> QED BY <1>6, <1>7, SMTT(30) DEF Lengths!decode_variable_length, Lengths!Read

\* A buffer that ends before such a byte holds no number yet, and that is no error.
LEMMA ReadWaits ==
    ASSUME NEW src \in Seq(Field), Len(src) < 4,
           \A i \in 1 .. Len(src) : src[i].n = 1 /\ src[i].v >= 128
    PROVE  Lengths!decode_variable_length(src) = Lengths!Err("incomplete")
<1> DEFINE four == Lengths!Min({4, Len(src)})
           seen == SubSeq(src, 1, four)
           ends == {i \in DOMAIN seen : seen[i].v < 128}
<1>1. four = Len(src)
  BY DEF Lengths!Min
<1>2. seen = src
  BY <1>1, SMTT(30)
<1>3. ends = {} /\ Len(seen) < 4 /\ \A i \in DOMAIN seen : seen[i].n = 1
  <2>1. \A i \in 1 .. Len(src) : src[i].v \in Int
    <3>1. \A i \in 1 .. Len(src) : src[i] \in Field
      OBVIOUS
    <3> QED BY <3>1, SMTT(30) DEF Field
  <2> HIDE DEF seen
  <2>2. DOMAIN seen = 1 .. Len(src) /\ \A i \in DOMAIN seen : seen[i] = src[i]
    BY <1>2, SMTT(30)
  <2>3. Len(seen) < 4
    BY <1>2, SMTT(30)
  <2>4. ASSUME NEW i \in ends
        PROVE  FALSE
    BY <2>1, <2>2, SMTT(30)
  <2> QED BY <2>2, <2>3, <2>4, SMTT(30)
<1> HIDE DEF ends
<1>4. Lengths!decode_variable_length_cursor(src) = Lengths!Err("MalformedPacket")
  BY <1>3, ZenonT(30) DEF Lengths!decode_variable_length_cursor, ends
<1> QED BY <1>4, SMTT(30) DEF Lengths!decode_variable_length, Lengths!Err

\* The groups of seven bits of a number make up the number.
LEMMA GroupsOfSeven ==
    ASSUME NEW n \in Nat, NEW k \in 1 .. 4, k = Lengths!var_int_len(n),
           n <= Lengths!MAX_PACKET_SIZE
    PROVE  n = (n % 128) + (IF k > 1 THEN ((n \div 128) % 128) * 128 ELSE 0)
                       + (IF k > 2 THEN ((n \div 16384) % 128) * 16384 ELSE 0)
                       + (IF k > 3 THEN ((n \div 2097152) % 128) * 2097152 ELSE 0)
<1>1. n <= 268435455
  BY SMTT(30) DEF Lengths!MAX_PACKET_SIZE
<1>2. /\ k = 1 => n < 128
      /\ k = 2 => n < 16384
      /\ k = 3 => n < 2097152
  BY <1>1, VarIntLen, SMTT(30)
<1>3. CASE k = 1
  BY <1>2, <1>3, SMTT(30)
<1>4. CASE k = 2
  BY <1>2, <1>4, SMTT(30)
<1>5. CASE k = 3
  BY <1>2, <1>5, SMTT(30)
<1>6. CASE k = 4
  BY <1>1, <1>6, SMTT(30)
<1> QED BY <1>3, <1>4, <1>5, <1>6, SMTT(30)

\* The bytes a number is written as, and which of them has its high bit clear.
LEMMA WrittenBytes ==
    ASSUME NEW n \in Nat, n <= Lengths!MAX_PACKET_SIZE
    PROVE  LET w == Lengths!write_variable_length(n)
               k == Lengths!var_int_len(n)
           IN  /\ k \in 1 .. 4
               /\ w \in Seq(Field)
               /\ Len(w) = k
               /\ \A i \in 1 .. k : /\ w[i].n = 1
                                    /\ w[i].v % 128 = (n \div 128^(i - 1)) % 128
                                    /\ (w[i].v < 128) <=> (i = k)
<1> DEFINE w == Lengths!write_variable_length(n)
           k == Lengths!var_int_len(n)
           digit(i) == (n \div 128^(i - 1)) % 128
           byte(i) == digit(i) + (IF i < k THEN 128 ELSE 0)
<1>1. n <= 268435455
  BY SMTT(30) DEF Lengths!MAX_PACKET_SIZE
<1>2. k \in 1 .. 4
  BY <1>1, VarIntLen, SMTT(30)
<1> HIDE DEF k
<1>3. w = [i \in 1 .. k |-> [n |-> 1, v |-> byte(i)]]
  <2>1. ~(n > Lengths!MAX_PACKET_SIZE)
    BY SMTT(30) DEF Lengths!MAX_PACKET_SIZE
  <2> QED BY <2>1, SMTT(30) DEF Lengths!write_variable_length, Lengths!u8, Lengths!Tok, k
<1>4. ASSUME NEW i \in 1 .. k
      PROVE  128^(i - 1) \in Nat /\ 128^(i - 1) > 0
  <2>1. CASE i = 1
    BY <2>1, SMTT(30)
  <2>2. CASE i = 2
    BY <2>2, SMTT(30)
  <2>3. CASE i = 3
    BY <2>3, SMTT(30)
  <2>4. CASE i = 4
    BY <2>4, SMTT(30)
  <2> QED BY <1>2, <2>1, <2>2, <2>3, <2>4, SMTT(30)
<1>5. \A i \in 1 .. k : digit(i) \in Int /\ 0 <= digit(i) /\ digit(i) < 128
  <2>1. ASSUME NEW p \in Nat, p > 0
        PROVE  /\ (n \div p) % 128 \in Int
               /\ 0 <= (n \div p) % 128
               /\ (n \div p) % 128 < 128
    BY SMTT(30)
  <2> QED BY <1>4, <2>1, SMTT(30)
<1> HIDE DEF digit
<1>6. \A i \in 1 .. k : /\ byte(i) \in Int
                        /\ byte(i) % 128 = digit(i)
                        /\ (byte(i) < 128) <=> (i = k)
  BY <1>2, <1>5, SMTT(30)
<1> HIDE DEF w, byte
<1>7. \A i \in 1 .. k : [n |-> 1, v |-> byte(i)] \in Field
  <2>1. \A i \in 1 .. k : byte(i) \in Int
    BY <1>6, SMTT(30)
  <2>2. \A b \in Int : [n |-> 1, v |-> b] \in Field
    BY DEF Field
  <2> QED BY <2>1, <2>2, SMTT(30)
<1>8. w \in Seq(Field) /\ Len(w) = k
  BY <1>2, <1>3, <1>7, SMTT(30)
<1>9. \A i \in 1 .. k : w[i].n = 1 /\ w[i].v = byte(i)
  BY <1>3, SMTT(30)
<1>10. \A i \in 1 .. k : /\ w[i].n = 1
                         /\ w[i].v % 128 = digit(i)
                         /\ (w[i].v < 128) <=> (i = k)
  BY <1>6, <1>9, SMTT(30)
<1> QED BY <1>2, <1>8, <1>10, Zenon DEF w, k, digit

\* A length that the codecs write is read back by the other side, whatever follows it, and
\* takes the bytes the size of the packet counted for it (utils.rs: write_variable_length,
\* var_int_len, decode_variable_length); when only some of its bytes have arrived, the
\* decoder waits for the others and neither fails nor takes another length for it.
THEOREM VarIntRoundTrip ==
    \A n \in Nat : n <= Lengths!MAX_PACKET_SIZE =>
        LET w == Lengths!write_variable_length(n)
        IN  /\ Len(w) = Lengths!var_int_len(n)
            /\ \A rest \in Seq(Field) :
                  Lengths!decode_variable_length(w \o rest) = Lengths!Read(n, Len(w))
            /\ \A k \in 0 .. Len(w) - 1 :
                  Lengths!decode_variable_length(SubSeq(w, 1, k)) = Lengths!Err("incomplete")
<1> SUFFICES ASSUME NEW n \in Nat, n <= Lengths!MAX_PACKET_SIZE,
                    NEW w, w = Lengths!write_variable_length(n)
             PROVE  /\ Len(w) = Lengths!var_int_len(n)
                    /\ \A rest \in Seq(Field) :
                         Lengths!decode_variable_length(w \o rest) = Lengths!Read(n, Len(w))
                    /\ \A k \in 0 .. Len(w) - 1 :
                         Lengths!decode_variable_length(SubSeq(w, 1, k))
                           = Lengths!Err("incomplete")
  OBVIOUS
<1> DEFINE m == Lengths!var_int_len(n)
<1>1. /\ m \in 1 .. 4
      /\ w \in Seq(Field)
      /\ Len(w) = m
      /\ \A i \in 1 .. m :
            /\ w[i].n = 1
            /\ w[i].v % 128 = (n \div 128^(i - 1)) % 128
            /\ (w[i].v < 128) <=> (i = m)
  BY WrittenBytes, SMTT(30)
<1>2. \A i \in 1 .. m : w[i].v \in Int
  <2>1. \A i \in 1 .. m : w[i] \in Field
    BY <1>1, SMTT(30)
  <2> QED BY <2>1, SMTT(30) DEF Field
<1>3. n = (n % 128) + (IF m > 1 THEN ((n \div 128) % 128) * 128 ELSE 0)
                    + (IF m > 2 THEN ((n \div 16384) % 128) * 16384 ELSE 0)
                    + (IF m > 3 THEN ((n \div 2097152) % 128) * 2097152 ELSE 0)
  BY <1>1, GroupsOfSeven, SMTT(30)
<1> HIDE DEF m
<1> DEFINE weight(i) == 128^(i - 1)
           group(i) == (n \div weight(i)) % 128
           part(i) == (w[i].v % 128) * weight(i)
<1>4. weight(1) = 1 /\ weight(2) = 128 /\ weight(3) = 16384 /\ weight(4) = 2097152
  BY SMTT(30)
<1>5. \A i \in 1 .. m : w[i].v % 128 = group(i)
  BY <1>1, SMTT(30)
<1> HIDE DEF weight
<1>6. n = group(1) * weight(1) + (IF m > 1 THEN group(2) * weight(2) ELSE 0)
                               + (IF m > 2 THEN group(3) * weight(3) ELSE 0)
                               + (IF m > 3 THEN group(4) * weight(4) ELSE 0)
  <2>1. n \div 1 = n /\ (n % 128) * 1 = n % 128
    BY SMT, SMTT(30)
  <2> QED BY <1>3, <1>4, <2>1, SMTT(30)
<1>7. ASSUME NEW i \in 1 .. m
      PROVE  part(i) = group(i) * weight(i) /\ part(i) \in Int
  <2>1. weight(i) \in Nat /\ weight(i) > 0
    <3>1. i = 1 \/ i = 2 \/ i = 3 \/ i = 4
      BY <1>1, SMTT(30)
    <3> QED BY <1>4, <3>1, SMTT(30)
  <2>2. group(i) \in Int
    BY <2>1, SMTT(30)
  <2> HIDE DEF group
  <2>3. part(i) = group(i) * weight(i)
    BY <1>5, SMTT(30)
  <2> HIDE DEF part
  <2> QED BY <2>1, <2>2, <2>3, SMTT(30)
<1> HIDE DEF group, part
<1>8. n = part(1) + (IF m > 1 THEN part(2) ELSE 0) + (IF m > 2 THEN part(3) ELSE 0)
                  + (IF m > 3 THEN part(4) ELSE 0)
  BY <1>1, <1>6, <1>7, SMTT(30)
<1>9. ASSUME NEW rest \in Seq(Field)
      PROVE  Lengths!decode_variable_length(w \o rest) = Lengths!Read(n, m)
  <2> DEFINE src == w \o rest
             s == [i \in 1 .. m |-> part(i)]
  <2>1. src \in Seq(Field) /\ m <= Len(src) /\ \A i \in 1 .. m : src[i] = w[i]
    BY <1>1, SMTT(30)
  <2> HIDE DEF src
  <2>2. /\ \A i \in 1 .. m : src[i].n = 1
        /\ \A i \in 1 .. m - 1 : src[i].v >= 128
        /\ src[m].v < 128
    BY <1>1, <1>2, <2>1, SMTT(30)
  <2>3. Lengths!decode_variable_length(src)
          = Lengths!Read(Lengths!Total([i \in 1 .. m |-> (src[i].v % 128) * 128^(i - 1)]), m)
    BY <1>1, <2>1, <2>2, ReadEnds, ZenonT(30)
  <2>4. [i \in 1 .. m |-> (src[i].v % 128) * 128^(i - 1)] = s
    BY <2>1, SMTT(30) DEF part, weight
  <2>5. s \in Seq(Int) /\ Len(s) = m /\ \A i \in 1 .. m : s[i] = part(i)
    BY <1>1, <1>7, SMTT(30)
  <2> HIDE DEF s
  <2>6. Lengths!Total(s) = s[1] + (IF m > 1 THEN s[2] ELSE 0) + (IF m > 2 THEN s[3] ELSE 0)
                                + (IF m > 3 THEN s[4] ELSE 0)
    BY <1>1, <2>5, TotalIs, ZenonT(30)
  <2>7. Lengths!Total(s) = n
    BY <1>1, <1>7, <1>8, <2>5, <2>6, SMTT(30)
  <2> QED BY <2>3, <2>4, <2>7, Zenon DEF src
<1>10. ASSUME NEW k \in 0 .. m - 1
      PROVE  Lengths!decode_variable_length(SubSeq(w, 1, k)) = Lengths!Err("incomplete")
  <2> DEFINE src == SubSeq(w, 1, k)
  <2>1. src \in Seq(Field) /\ Len(src) = k /\ \A i \in 1 .. k : src[i] = w[i]
    BY <1>1, SMTT(30)
  <2> HIDE DEF src
  <2>2. \A i \in 1 .. k : src[i].n = 1 /\ src[i].v >= 128
    BY <1>1, <1>2, <2>1, SMTT(30)
  <2>3. Lengths!decode_variable_length(src) = Lengths!Err("incomplete")
    BY <1>1, <2>1, <2>2, ReadWaits, SMTT(30)
  <2> QED BY <2>3, SMTT(30) DEF src
<1> QED BY <1>1, <1>9, <1>10, SMTT(30) DEF m
=============================================================================
