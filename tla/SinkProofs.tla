----------------------------- MODULE SinkProofs -----------------------------
(* Proofs about Sink, for any number of tasks, any receive maximum, any      *)
(* peer, both versions and any mix of requests and events.                   *)
EXTENDS Sink, TLAPS

\* A sequence with one element more.
LEMMA Longer ==
    ASSUME NEW S, NEW q \in Seq(S), NEW e \in S
    PROVE  /\ Append(q, e) \in Seq(S)
           /\ Append(q, e) # <<>>
           /\ Len(Append(q, e)) = Len(q) + 1
           /\ \A i \in 1 .. Len(q) : Append(q, e)[i] = q[i]
           /\ Append(q, e)[Len(q) + 1] = e
OBVIOUS

\* A sequence without its first element.
LEMMA Shorter ==
    ASSUME NEW S, NEW q \in Seq(S), q # <<>>
    PROVE  /\ Head(q) \in S
           /\ Tail(q) \in Seq(S)
           /\ Len(Tail(q)) = Len(q) - 1
           /\ \A i \in 1 .. Len(Tail(q)) : Tail(q)[i] = q[i + 1]
OBVIOUS

\* A sequence from one place to another.
LEMMA Slice ==
    ASSUME NEW S, NEW q, NEW m \in Int, NEW n \in Int, \A i \in m .. n : q[i] \in S
    PROVE  /\ SubSeq(q, m, n) \in Seq(S)
           /\ Len(SubSeq(q, m, n)) = IF m <= n THEN n - m + 1 ELSE 0
           /\ \A i \in 1 .. n - m + 1 : SubSeq(q, m, n)[i] = q[m + i - 1]
OBVIOUS

\* f pairs the elements of S and T.
Pairs(f, S, T) ==
    /\ f \in [S -> T]
    /\ \A x, y \in S : f[x] = f[y] => x = y
    /\ \A z \in T : \E x \in S : f[x] = z

\* The facts about finite sets that counting the waiters needs. They are theorems of
\* FiniteSetTheorems, which is used at the end of the module (Finite) because a proof
\* takes longer the more it has before it.
FiniteFacts ==
    /\ \A S : IsFiniteSet(S) => Cardinality(S) \in Nat
    /\ \A S : IsFiniteSet(S) => \A T \in SUBSET S : IsFiniteSet(T) /\ Cardinality(T) <= Cardinality(S)
    /\ \A a, b \in Int : IsFiniteSet(a .. b) /\ Cardinality(a .. b) = IF a > b THEN 0 ELSE b - a + 1
    /\ IsFiniteSet({}) /\ Cardinality({}) = 0
    /\ \A S, x : IsFiniteSet(S) =>
          /\ IsFiniteSet(S \ {x})
          /\ Cardinality(S \ {x}) = IF x \in S THEN Cardinality(S) - 1 ELSE Cardinality(S)
    /\ \A S, T : IsFiniteSet(S) /\ IsFiniteSet(T) =>
          /\ IsFiniteSet(S \cup T)
          /\ Cardinality(S \cup T) = Cardinality(S) + Cardinality(T) - Cardinality(S \cap T)
    /\ \A S, T, f : IsFiniteSet(S) /\ Pairs(f, S, T) => IsFiniteSet(T) /\ Cardinality(T) = Cardinality(S)

\* A number of elements.
LEMMA CountType ==
    ASSUME FiniteFacts, NEW S, IsFiniteSet(S)
    PROVE  Cardinality(S) \in Nat
BY Zenon DEF FiniteFacts

\* The elements of a part.
LEMMA CountPart ==
    ASSUME FiniteFacts, NEW S, IsFiniteSet(S), NEW T \in SUBSET S
    PROVE  IsFiniteSet(T) /\ Cardinality(T) <= Cardinality(S)
BY Zenon DEF FiniteFacts

\* The numbers of an interval.
LEMMA CountInterval ==
    ASSUME FiniteFacts, NEW a \in Int, NEW b \in Int
    PROVE  IsFiniteSet(a .. b) /\ Cardinality(a .. b) = IF a > b THEN 0 ELSE b - a + 1
BY Zenon DEF FiniteFacts

\* Naturals below a bound.
LEMMA CountBelow ==
    ASSUME FiniteFacts, NEW S \in SUBSET Nat, NEW n \in Nat, \A s \in S : s <= n
    PROVE  IsFiniteSet(S)
<1>1. S \in SUBSET (0 .. n) /\ 0 \in Int /\ n \in Int
  OBVIOUS
<1> QED BY <1>1, CountInterval, CountPart, Zenon

\* No element.
LEMMA CountNone == ASSUME FiniteFacts PROVE IsFiniteSet({}) /\ Cardinality({}) = 0
BY Zenon DEF FiniteFacts

\* An element less.
LEMMA CountWithout ==
    ASSUME FiniteFacts, NEW S, NEW x, IsFiniteSet(S)
    PROVE  /\ IsFiniteSet(S \ {x})
           /\ Cardinality(S \ {x}) = IF x \in S THEN Cardinality(S) - 1 ELSE Cardinality(S)
BY Zenon DEF FiniteFacts

\* The elements of two sets.
LEMMA CountUnion ==
    ASSUME FiniteFacts, NEW S, NEW T, IsFiniteSet(S), IsFiniteSet(T)
    PROVE  /\ IsFiniteSet(S \cup T)
           /\ Cardinality(S \cup T) = Cardinality(S) + Cardinality(T) - Cardinality(S \cap T)
BY Zenon DEF FiniteFacts

\* Two sets whose elements are paired.
LEMMA CountPaired ==
    ASSUME FiniteFacts, NEW S, NEW T, NEW f, IsFiniteSet(S), Pairs(f, S, T)
    PROVE  IsFiniteSet(T) /\ Cardinality(T) = Cardinality(S)
BY Zenon DEF FiniteFacts

\* The first inductive invariant: the uniqueness of ids needs the type of the queues,
\* and the match of channels and tasks is inductive with it.
SinkInv == TypeOK /\ UniqueIds /\ ChannelsMatch

-----------------------------------------------------------------------------
(* Waking waiters. *)

\* The number of waiters popped by a wake-up is at most their number.
LEMMA PopCountBound ==
    ASSUME FiniteFacts, TypeOK, NEW n \in Nat
    PROVE  PopCount(n) \in 0 .. Len(waiters)
<1> DEFINE P == {i \in DOMAIN waiters :
                    Cardinality({j \in 1 .. i - 1 : waiters[j] # Dead}) < n}
<1>1. Len(waiters) \in Nat /\ DOMAIN waiters = 1 .. Len(waiters)
  BY DEF TypeOK
<1>2. IsFiniteSet(1 .. Len(waiters)) /\ Cardinality(1 .. Len(waiters)) = Len(waiters)
  <2>1. 1 \in Int /\ Len(waiters) \in Int
    BY <1>1
  <2>2. /\ IsFiniteSet(1 .. Len(waiters))
        /\ Cardinality(1 .. Len(waiters)) = IF 1 > Len(waiters) THEN 0 ELSE Len(waiters) - 1 + 1
    BY <2>1, CountInterval
  <2> QED BY <1>1, <2>2
<1>3. P \in SUBSET (1 .. Len(waiters))
  BY <1>1
<1>4. Cardinality(P) <= Len(waiters) /\ IsFiniteSet(P)
  <2> HIDE DEF P
  <2> QED BY <1>2, <1>3, CountPart, Zenon
<1>5. Cardinality(P) \in Nat
  <2> HIDE DEF P
  <2> QED BY <1>4, CountType
<1> QED BY <1>1, <1>4, <1>5 DEF PopCount

\* The first k waiters are popped, and their tasks granted.
Woken(k, s) ==
    /\ waiters' \in Seq(Ops \cup {Dead})
    /\ Len(waiters') = Len(waiters) - k
    /\ \A i \in 1 .. Len(waiters') : waiters'[i] = waiters[i + k]
    /\ st' = [o \in Ops |-> IF o \in {waiters[i] : i \in 1 .. k} THEN "granted" ELSE s[o]]

\* A wake-up pops a prefix of the waiters and grants exactly its tasks.
LEMMA WakeEffect ==
    ASSUME FiniteFacts, TypeOK, NEW n \in Nat, NEW s, Wake(n, s)
    PROVE  \E k \in 0 .. Len(waiters) : Woken(k, s)
<1> DEFINE k == PopCount(n)
<1>1. k \in 0 .. Len(waiters) /\ Len(waiters) \in Nat
  BY PopCountBound DEF TypeOK
<1>2. /\ waiters' = SubSeq(waiters, k + 1, Len(waiters))
      /\ st' = [o \in Ops |-> IF o \in {waiters[i] : i \in 1 .. k} THEN "granted" ELSE s[o]]
  BY DEF Wake
<1> HIDE DEF k
<1>3. \A i \in k + 1 .. Len(waiters) : waiters[i] \in Ops \cup {Dead}
  BY <1>1 DEF TypeOK
<1>4. /\ waiters' \in Seq(Ops \cup {Dead})
      /\ Len(waiters') = Len(waiters) - k
      /\ \A i \in 1 .. Len(waiters) - k : waiters'[i] = waiters[k + 1 + i - 1]
  <2>1. k + 1 \in Int /\ Len(waiters) \in Int
    BY <1>1
  <2>2. /\ SubSeq(waiters, k + 1, Len(waiters)) \in Seq(Ops \cup {Dead})
        /\ Len(SubSeq(waiters, k + 1, Len(waiters)))
             = IF k + 1 <= Len(waiters) THEN Len(waiters) - (k + 1) + 1 ELSE 0
        /\ \A i \in 1 .. Len(waiters) - (k + 1) + 1 :
             SubSeq(waiters, k + 1, Len(waiters))[i] = waiters[k + 1 + i - 1]
    BY <2>1, <1>3, Slice
  <2> QED BY <1>1, <1>2, <2>2
<1>5. \A i \in 1 .. Len(waiters') : waiters'[i] = waiters[i + k]
  <2>1. \A i \in 1 .. Len(waiters) - k : k + 1 + i - 1 = i + k
    BY <1>1
  <2> QED BY <1>4, <2>1, Zenon
<1>6. Woken(k, s)
  BY <1>2, <1>4, <1>5 DEF Woken
<1> QED BY <1>1, <1>6

\* Waking tasks preserves the match of channels and tasks: the popped tasks are
\* granted and no longer queued, the others keep their only waiter. The queue of
\* acks may lose its oldest entry in the same step, with the task it answers.
LEMMA WakePreserves ==
    ASSUME FiniteFacts, SinkInv, NEW n \in Nat, NEW s \in [Ops -> Active \cup Outcomes], Wake(n, s),
           UNCHANGED kind,
           \A o \in Ops : s[o] = st[o] \/ (st[o] = "sent" /\ s[o] = "ok"),
           \A o \in Ops : s[o] = "sent" <=> \E i \in DOMAIN inflight' : inflight'[i].tx = o,
           \A o \in Ops : \A i \in DOMAIN inflight' : inflight'[i].tx = o =>
             /\ inflight'[i].tp = kind[o]
             /\ \A j \in DOMAIN inflight' : inflight'[j].tx = o => i = j
    PROVE  /\ ChannelsMatch'
           /\ waiters' \in Seq(Ops \cup {Dead})
           /\ st' \in [Ops -> Active \cup Outcomes]
<1>1. TypeOK /\ ChannelsMatch BY DEF SinkInv
<1>0. PICK k \in 0 .. Len(waiters) : Woken(k, s)
  BY <1>1, WakeEffect, Zenon
<1>2. /\ waiters' \in Seq(Ops \cup {Dead})
      /\ Len(waiters') = Len(waiters) - k
      /\ \A i \in 1 .. Len(waiters') : waiters'[i] = waiters[i + k]
      /\ st' = [o \in Ops |-> IF o \in {waiters[i] : i \in 1 .. k} THEN "granted" ELSE s[o]]
  BY <1>0, Zenon DEF Woken
<1>3. /\ DOMAIN waiters = 1 .. Len(waiters) /\ Len(waiters) \in Nat
      /\ DOMAIN waiters' = 1 .. Len(waiters')
  BY <1>1, <1>2 DEF TypeOK
<1>4. st' \in [Ops -> Active \cup Outcomes]
  BY <1>2 DEF Active
<1>5. ASSUME NEW o \in Ops
      PROVE  /\ st'[o] = "sent" <=> s[o] = "sent"
             /\ st'[o] = "blocked" <=> \E i \in DOMAIN waiters' : waiters'[i] = o
             /\ \A i, j \in DOMAIN waiters' : waiters'[i] = o /\ waiters'[j] = o => i = j
  <2>1. /\ st[o] = "blocked" <=> \E i \in DOMAIN waiters : waiters[i] = o
        /\ \A i, j \in DOMAIN waiters : waiters[i] = o /\ waiters[j] = o => i = j
    BY <1>1 DEF ChannelsMatch
  <2>2. s[o] = "blocked" <=> st[o] = "blocked"
    OBVIOUS
  <2>3. CASE o \in {waiters[i] : i \in 1 .. k}
    <3>1. PICK m \in 1 .. k : waiters[m] = o BY <2>3
    <3>2. m \in DOMAIN waiters /\ m <= k BY <3>1, <1>3
    <3>3. st[o] = "blocked" BY <3>1, <3>2, <2>1
    <3>4. st'[o] = "granted" BY <2>3, <1>2
    <3>5. \A i \in DOMAIN waiters' : i + k \in DOMAIN waiters /\ waiters'[i] = waiters[i + k]
                                    /\ i + k # m
      BY <1>2, <1>3, <3>2
    <3>6. \A i \in DOMAIN waiters' : waiters'[i] # o
      BY <3>1, <3>2, <3>5, <2>1
    <3> QED BY <3>3, <3>4, <3>6, <2>2
  <2>4. CASE o \notin {waiters[i] : i \in 1 .. k}
    <3>1. st'[o] = s[o] BY <2>4, <1>2
    <3>2. \A i \in DOMAIN waiters : waiters[i] = o => i > k
      BY <2>4, <1>3
    <3>3. \A i \in DOMAIN waiters' : i + k \in DOMAIN waiters /\ waiters'[i] = waiters[i + k]
      BY <1>2, <1>3
    <3>4. \A i \in DOMAIN waiters : i > k =>
            i - k \in DOMAIN waiters' /\ waiters'[i - k] = waiters[i]
      BY <1>2, <1>3
    <3>5. st'[o] = "blocked" <=> \E i \in DOMAIN waiters' : waiters'[i] = o
      BY <3>1, <3>2, <3>3, <3>4, <2>1, <2>2
    <3>6. \A i, j \in DOMAIN waiters' : waiters'[i] = o /\ waiters'[j] = o => i = j
      BY <3>3, <2>1, <1>3
    <3> QED BY <3>1, <3>5, <3>6
  <2> QED BY <2>3, <2>4
<1>6. ChannelsMatch'
  BY <1>5 DEF ChannelsMatch
<1> QED BY <1>2, <1>4, <1>6

-----------------------------------------------------------------------------
(* The steps of a task's request. *)

StatusOK == st \in [Ops -> Active \cup Outcomes] /\ kind \in [Ops -> AllKinds]

\* A task that holds no channel may start, end or fail without touching the queues.
LEMMA EndPreserves ==
    ASSUME SinkInv, NEW o \in Ops, NEW k \in AllKinds, NEW s \in Outcomes,
           st[o] \notin {"sent", "blocked"}, Becomes(o, k, s), UNCHANGED <<inflight, waiters>>
    PROVE  StatusOK' /\ ChannelsMatch'
<1>1. TypeOK /\ ChannelsMatch BY DEF SinkInv
<1>2. StatusOK' BY <1>1 DEF TypeOK, StatusOK, Becomes
<1>3. \A p \in Ops : /\ st'[p] = "sent" <=> st[p] = "sent"
                     /\ st'[p] = "blocked" <=> st[p] = "blocked"
                     /\ st[p] = "sent" => kind'[p] = kind[p]
  BY <1>1 DEF TypeOK, Becomes, Outcomes
<1>4. ChannelsMatch'
  BY <1>1, <1>3 DEF ChannelsMatch
<1> QED BY <1>2, <1>4

\* A task that holds no channel queues for credit with a channel of its own.
LEMMA BlockPreserves ==
    ASSUME SinkInv, NEW o \in Ops, NEW k \in AllKinds, st[o] \notin {"sent", "blocked"},
           Becomes(o, k, "blocked"), waiters' = Append(waiters, o), UNCHANGED inflight
    PROVE  StatusOK' /\ ChannelsMatch' /\ waiters' \in Seq(Ops \cup {Dead})
<1>1. TypeOK /\ ChannelsMatch BY DEF SinkInv
<1>2. StatusOK' BY <1>1 DEF TypeOK, StatusOK, Becomes, Active
<1>3. \A p \in Ops : /\ st'[p] = "sent" <=> st[p] = "sent"
                     /\ p # o => st'[p] = st[p]
                     /\ st[p] = "sent" => kind'[p] = kind[p]
      /\ st'[o] = "blocked"
  BY <1>1 DEF TypeOK, Becomes
<1>4. waiters \in Seq(Ops \cup {Dead}) BY <1>1 DEF TypeOK
<1>5. /\ waiters' \in Seq(Ops \cup {Dead})
      /\ Len(waiters') = Len(waiters) + 1
      /\ \A i \in 1 .. Len(waiters) : waiters'[i] = waiters[i]
      /\ waiters'[Len(waiters) + 1] = o
  BY <1>4, Longer
<1>6. /\ DOMAIN waiters = 1 .. Len(waiters) /\ Len(waiters) \in Nat
      /\ DOMAIN waiters' = 1 .. Len(waiters) + 1
  BY <1>4, <1>5
<1>7. \A i \in DOMAIN waiters : waiters[i] # o
  BY <1>1 DEF ChannelsMatch
<1>8. ASSUME NEW p \in Ops
      PROVE  /\ st'[p] = "blocked" <=> \E i \in DOMAIN waiters' : waiters'[i] = p
             /\ \A i, j \in DOMAIN waiters' : waiters'[i] = p /\ waiters'[j] = p => i = j
  <2>1. /\ st[p] = "blocked" <=> \E i \in DOMAIN waiters : waiters[i] = p
        /\ \A i, j \in DOMAIN waiters : waiters[i] = p /\ waiters[j] = p => i = j
    BY <1>1 DEF ChannelsMatch
  <2>2. CASE p = o
    BY <1>3, <1>5, <1>6, <1>7, <2>2
  <2>3. CASE p # o
    <3>1. \A i \in DOMAIN waiters' : waiters'[i] = p => i \in DOMAIN waiters /\ waiters[i] = p
      BY <1>5, <1>6, <2>3
    <3>2. \A i \in DOMAIN waiters : i \in DOMAIN waiters' /\ waiters'[i] = waiters[i]
      BY <1>5, <1>6
    <3> QED BY <3>1, <3>2, <2>1, <1>3, <2>3
  <2> QED BY <2>2, <2>3
<1>9. ChannelsMatch'
  BY <1>1, <1>3, <1>8 DEF ChannelsMatch
<1> QED BY <1>2, <1>5, <1>9

\* An unused id is registered, for the task itself or for nobody.
LEMMA RegisterPreserves ==
    ASSUME SinkInv, NEW o \in Ops, NEW k \in AllKinds, NEW s \in Active \cup Outcomes,
           NEW id \in Ids, id \notin inflight_ids,
           NEW tx \in Ops \cup {Dead, NoTx}, NEW tp \in AckTypes,
           st[o] \notin {"sent", "blocked"}, Becomes(o, k, s),
           Register(id, tx, tp), UNCHANGED waiters,
           \/ tx = o /\ s = "sent" /\ k = tp
           \/ tx \notin Ops /\ s \in Outcomes
    PROVE  /\ StatusOK' /\ ChannelsMatch' /\ UniqueIds'
           /\ inflight' \in Seq(Entries) /\ inflight_ids' \in SUBSET Ids
<1>1. TypeOK /\ ChannelsMatch /\ UniqueIds BY DEF SinkInv
<1>2. StatusOK' BY <1>1 DEF TypeOK, StatusOK, Becomes, Active
<1> DEFINE e == [id |-> id, tx |-> tx, tp |-> tp]
<1>3. e \in Entries BY DEF Entries
<1>4. inflight \in Seq(Entries) BY <1>1 DEF TypeOK
<1>5. inflight' = Append(inflight, e) /\ inflight_ids' = inflight_ids \cup {id}
  BY DEF Register
<1>6. e.id = id /\ e.tx = tx /\ e.tp = tp OBVIOUS
<1> HIDE DEF e
<1>7. /\ inflight' \in Seq(Entries)
      /\ Len(inflight') = Len(inflight) + 1
      /\ \A i \in 1 .. Len(inflight) : inflight'[i] = inflight[i]
      /\ inflight'[Len(inflight) + 1] = e
  BY <1>3, <1>4, <1>5, Longer
<1>8. /\ DOMAIN inflight = 1 .. Len(inflight) /\ Len(inflight) \in Nat
      /\ DOMAIN inflight' = 1 .. Len(inflight) + 1
  BY <1>4, <1>7
<1>9. inflight_ids' \in SUBSET Ids
  BY <1>1, <1>5 DEF TypeOK
<1>10. \A i \in DOMAIN inflight' :
         \/ i \in DOMAIN inflight /\ inflight'[i] = inflight[i]
         \/ i = Len(inflight) + 1 /\ i \notin DOMAIN inflight /\ inflight'[i] = e
  BY <1>7, <1>8
<1>11. \A i \in DOMAIN inflight : i \in DOMAIN inflight' /\ inflight'[i] = inflight[i]
  BY <1>7, <1>8
<1>12. UniqueIds'
  BY <1>1, <1>5, <1>6, <1>10 DEF UniqueIds
<1>13. Len(inflight) + 1 \in DOMAIN inflight' /\ inflight'[Len(inflight) + 1] = e
  BY <1>7, <1>8
<1>14. \A p \in Ops : /\ p # o => st'[p] = st[p] /\ kind'[p] = kind[p]
                      /\ st'[p] = "blocked" <=> st[p] = "blocked"
       /\ st'[o] = s /\ kind'[o] = k
  BY <1>1 DEF TypeOK, Becomes, Outcomes
<1>15. \A i \in DOMAIN inflight : inflight[i].tx # o
  BY <1>1 DEF ChannelsMatch
<1>16. ASSUME NEW p \in Ops
       PROVE  /\ st'[p] = "sent" <=> \E i \in DOMAIN inflight' : inflight'[i].tx = p
              /\ \A i \in DOMAIN inflight' : inflight'[i].tx = p =>
                   /\ inflight'[i].tp = kind'[p]
                   /\ \A j \in DOMAIN inflight' : inflight'[j].tx = p => i = j
  <2>1. /\ st[p] = "sent" <=> \E i \in DOMAIN inflight : inflight[i].tx = p
        /\ \A i \in DOMAIN inflight : inflight[i].tx = p =>
             /\ inflight[i].tp = kind[p]
             /\ \A j \in DOMAIN inflight : inflight[j].tx = p => i = j
    BY <1>1 DEF ChannelsMatch
  <2>2. CASE p = o /\ tx = o
    BY <1>6, <1>10, <1>13, <1>14, <1>15, <2>2, SinkAssumption
  <2>3. CASE p = o /\ tx \notin Ops
    <3>1. \A i \in DOMAIN inflight' : inflight'[i].tx # o
      BY <1>6, <1>10, <1>15, <2>3
    <3>2. st'[o] # "sent"
      BY <1>14, <2>3 DEF Outcomes
    <3> QED BY <3>1, <3>2, <2>3
  <2>4. CASE p # o
    <3>1. \A i \in DOMAIN inflight' : inflight'[i].tx = p =>
            i \in DOMAIN inflight /\ inflight'[i] = inflight[i]
      BY <1>6, <1>10, <2>4
    <3> QED BY <3>1, <2>1, <1>11, <1>14, <2>4
  <2> QED BY <2>2, <2>3, <2>4
<1>17. ChannelsMatch'
  BY <1>1, <1>14, <1>16 DEF ChannelsMatch
<1> QED BY <1>2, <1>7, <1>9, <1>12, <1>17

\* A dropped future leaves a dead channel where its sender was queued.
LEMMA CancelPreserves ==
    ASSUME SinkInv, NEW o \in Ops, cancel(o)
    PROVE  SinkInv'
<1>1. TypeOK /\ ChannelsMatch /\ UniqueIds BY DEF SinkInv
<1>2. /\ st' = [st EXCEPT ![o] = "failed"] /\ kind' = [kind EXCEPT ![o] = kind[o]]
      /\ waiters' = [i \in DOMAIN waiters |-> IF waiters[i] = o THEN Dead ELSE waiters[i]]
      /\ inflight' = [i \in DOMAIN inflight |->
                        IF inflight[i].tx = o THEN [inflight[i] EXCEPT !.tx = Dead] ELSE inflight[i]]
  BY DEF cancel, Becomes
<1>3. /\ waiters \in Seq(Ops \cup {Dead}) /\ inflight \in Seq(Entries)
      /\ st \in [Ops -> Active \cup Outcomes] /\ kind \in [Ops -> AllKinds]
  BY <1>1 DEF TypeOK
<1>4. waiters' \in Seq(Ops \cup {Dead}) /\ DOMAIN waiters' = DOMAIN waiters
  BY <1>2, <1>3
<1>5. \A i \in DOMAIN inflight : inflight[i] \in Entries
  BY <1>3
<1>6. \A i \in DOMAIN inflight :
        /\ inflight'[i] \in Entries
        /\ inflight'[i].id = inflight[i].id
        /\ inflight'[i].tp = inflight[i].tp
        /\ inflight'[i].tx = IF inflight[i].tx = o THEN Dead ELSE inflight[i].tx
  BY <1>2, <1>5 DEF Entries
<1>7. DOMAIN inflight' = DOMAIN inflight /\ inflight' \in Seq(Entries)
  <2>1. Len(inflight) \in Nat /\ DOMAIN inflight = 1 .. Len(inflight) BY <1>3
  <2>2. DOMAIN inflight' = DOMAIN inflight BY <1>2
  <2>3. inflight' = [i \in 1 .. Len(inflight) |-> inflight'[i]] BY <1>2, <2>1
  <2>4. \A i \in 1 .. Len(inflight) : inflight'[i] \in Entries BY <2>1, <1>6
  <2> QED BY <2>1, <2>2, <2>3, <2>4
<1>8. /\ st' \in [Ops -> Active \cup Outcomes] /\ kind' \in [Ops -> AllKinds]
      /\ st'[o] = "failed" /\ \A p \in Ops : p # o => st'[p] = st[p]
      /\ \A p \in Ops : kind'[p] = kind[p]
  BY <1>2, <1>3 DEF Outcomes
<1>9. TypeOK'
  BY <1>1, <1>4, <1>7, <1>8 DEF TypeOK, cancel, env
<1>10. UniqueIds'
  <2>1. inflight_ids' = inflight_ids BY DEF cancel
  <2> QED BY <1>1, <1>6, <1>7, <2>1 DEF UniqueIds
<1>11. ASSUME NEW p \in Ops
       PROVE  /\ st'[p] = "sent" <=> \E i \in DOMAIN inflight' : inflight'[i].tx = p
              /\ st'[p] = "blocked" <=> \E i \in DOMAIN waiters' : waiters'[i] = p
              /\ \A i \in DOMAIN inflight' : inflight'[i].tx = p =>
                  /\ inflight'[i].tp = kind'[p]
                  /\ \A j \in DOMAIN inflight' : inflight'[j].tx = p => i = j
              /\ \A i, j \in DOMAIN waiters' : waiters'[i] = p /\ waiters'[j] = p => i = j
  <2>1. CASE p = o
    <3>1. \A i \in DOMAIN inflight' : inflight'[i].tx # o BY <1>6, <1>7, SinkAssumption
    <3>2. \A i \in DOMAIN waiters' : waiters'[i] # o BY <1>2, SinkAssumption,
                                                        ZenonT(30)
    <3> QED BY <3>1, <3>2, <1>8, <2>1
  <2>2. CASE p # o
    <3>1. \A i \in DOMAIN inflight : inflight'[i].tx = p <=> inflight[i].tx = p
      BY <1>6, <2>2, SinkAssumption
    <3>2. \A i \in DOMAIN waiters : waiters'[i] = p <=> waiters[i] = p
      BY <1>2, <2>2, SinkAssumption
    <3> QED BY <3>1, <3>2, <1>1, <1>4, <1>6, <1>7, <1>8, <2>2, SMTT(30) DEF
               ChannelsMatch
  <2> QED BY <2>1, <2>2
<1>12. ChannelsMatch'
  BY <1>11 DEF ChannelsMatch
<1> QED BY <1>9, <1>10, <1>12 DEF SinkInv

\* Clearing the queues ends every request that waits in them.
LEMMA ClearPreserves ==
    ASSUME SinkInv, NEW q, clear_queues(q), UNCHANGED kind
    PROVE  /\ StatusOK' /\ ChannelsMatch' /\ UniqueIds'
           /\ inflight' = <<>> /\ waiters' = <<>>
<1>1. TypeOK /\ ChannelsMatch BY DEF SinkInv
<1>2. /\ inflight' = <<>> /\ waiters' = <<>>
      /\ st' = [o \in Ops |-> IF o \in Senders THEN "failed" ELSE st[o]]
  BY DEF clear_queues
<1>3. StatusOK' BY <1>1, <1>2 DEF StatusOK, TypeOK, Outcomes
<1>4. \A o \in Ops : st'[o] \notin {"sent", "blocked"}
  BY <1>1, <1>2 DEF ChannelsMatch, Senders
<1>5. ChannelsMatch' BY <1>2, <1>4 DEF ChannelsMatch
<1>6. UniqueIds' BY <1>2 DEF UniqueIds
<1> QED BY <1>2, <1>3, <1>5, <1>6

\* What remains when the oldest entry is popped and its id forgotten.
LEMMA PopPreserves ==
    ASSUME SinkInv, inflight # <<>>, inflight' = Tail(inflight),
           inflight_ids' = inflight_ids \ {Head(inflight).id}
    PROVE  /\ UniqueIds' /\ inflight' \in Seq(Entries) /\ Head(inflight) \in Entries
           /\ inflight_ids' \in SUBSET Ids
           /\ Head(inflight) = inflight[1] /\ 1 \in DOMAIN inflight
           /\ \A i \in DOMAIN inflight' : i + 1 \in DOMAIN inflight /\ inflight'[i] = inflight[i + 1]
           /\ \A i \in DOMAIN inflight : i # 1 =>
                i - 1 \in DOMAIN inflight' /\ inflight'[i - 1] = inflight[i]
<1>1. TypeOK /\ UniqueIds BY DEF SinkInv
<1>2. inflight \in Seq(Entries) BY <1>1 DEF TypeOK
<1>3. /\ inflight' \in Seq(Entries) /\ Head(inflight) \in Entries
      /\ Len(inflight') = Len(inflight) - 1
      /\ \A i \in 1 .. Len(inflight') : inflight'[i] = inflight[i + 1]
  BY <1>2, Shorter
<1>4. /\ DOMAIN inflight = 1 .. Len(inflight) /\ Len(inflight) \in Nat \ {0}
      /\ DOMAIN inflight' = 1 .. Len(inflight) - 1 /\ Head(inflight) = inflight[1]
  BY <1>2, <1>3
<1>5. \A i \in DOMAIN inflight' : i + 1 \in DOMAIN inflight /\ inflight'[i] = inflight[i + 1]
                                 /\ i + 1 # 1
  BY <1>3, <1>4
<1>6. \A i \in DOMAIN inflight : i # 1 =>
        i - 1 \in DOMAIN inflight' /\ inflight'[i - 1] = inflight[i]
  BY <1>3, <1>4
<1>7. 1 \in DOMAIN inflight BY <1>4
<1>8. UniqueIds'
  <2>1. \A i, j \in DOMAIN inflight' : inflight'[i].id = inflight'[j].id => i = j
    BY <1>1, <1>4, <1>5 DEF UniqueIds
  <2>2. \A i \in DOMAIN inflight' : inflight'[i].id \in inflight_ids /\ inflight'[i].id # inflight[1].id
    BY <1>1, <1>5, <1>7 DEF UniqueIds
  <2> QED BY <2>1, <2>2, <1>4 DEF UniqueIds
<1>9. inflight_ids' \in SUBSET Ids BY <1>1 DEF TypeOK
<1> QED BY <1>3, <1>4, <1>5, <1>6, <1>7, <1>8, <1>9

\* The ack reaches the task that waits for it, and one waiter takes its place.
LEMMA AckPreserves ==
    ASSUME FiniteFacts, SinkInv, inflight # <<>>, pkt_ack_ok(Head(inflight)), UNCHANGED kind
    PROVE  /\ StatusOK' /\ ChannelsMatch' /\ UniqueIds'
           /\ inflight' \in Seq(Entries) /\ inflight_ids' \in SUBSET Ids
           /\ waiters' \in Seq(Ops \cup {Dead})
<1> DEFINE hd == Head(inflight)
           s == [o \in Ops |-> IF o = hd.tx THEN "ok" ELSE st[o]]
<1>1. TypeOK /\ ChannelsMatch BY DEF SinkInv
<1>2. Wake(1, s) /\ inflight' = Tail(inflight) /\ inflight_ids' = inflight_ids \ {hd.id}
  BY DEF pkt_ack_ok
<1>3. /\ UniqueIds' /\ inflight' \in Seq(Entries) /\ hd \in Entries
      /\ inflight_ids' \in SUBSET Ids
      /\ hd = inflight[1] /\ 1 \in DOMAIN inflight
      /\ \A i \in DOMAIN inflight' : i + 1 \in DOMAIN inflight /\ inflight'[i] = inflight[i + 1]
      /\ \A i \in DOMAIN inflight : i # 1 =>
           i - 1 \in DOMAIN inflight' /\ inflight'[i - 1] = inflight[i]
  BY <1>2, PopPreserves
<1>4. inflight \in Seq(Entries) /\ inflight' \in Seq(Entries) BY <1>1, <1>3 DEF TypeOK
<1>5. s \in [Ops -> Active \cup Outcomes] BY <1>1 DEF TypeOK, Outcomes
<1>6. /\ \A o \in Ops : o = hd.tx => s[o] = "ok" /\ st[o] = "sent"
      /\ \A o \in Ops : o # hd.tx => s[o] = st[o]
  BY <1>1, <1>3 DEF ChannelsMatch
<1> HIDE DEF s
<1>7. \A o \in Ops : s[o] = st[o] \/ (st[o] = "sent" /\ s[o] = "ok") BY <1>6
<1>8. \A i \in DOMAIN inflight' : i \in Nat /\ i # 0 BY <1>4
<1>9. ASSUME NEW o \in Ops
      PROVE  /\ s[o] = "sent" <=> \E i \in DOMAIN inflight' : inflight'[i].tx = o
             /\ \A i \in DOMAIN inflight' : inflight'[i].tx = o =>
                 /\ inflight'[i].tp = kind[o]
                 /\ \A j \in DOMAIN inflight' : inflight'[j].tx = o => i = j
  <2>1. /\ st[o] = "sent" <=> \E i \in DOMAIN inflight : inflight[i].tx = o
        /\ \A i \in DOMAIN inflight : inflight[i].tx = o =>
             /\ inflight[i].tp = kind[o]
             /\ \A j \in DOMAIN inflight : inflight[j].tx = o => i = j
    BY <1>1 DEF ChannelsMatch
  <2>2. \A i \in DOMAIN inflight' : inflight'[i].tx = o =>
          /\ inflight'[i].tp = kind[o]
          /\ \A j \in DOMAIN inflight' : inflight'[j].tx = o => i = j
    <3>1. \A i \in DOMAIN inflight' : inflight'[i].tx = o => inflight'[i].tp = kind[o]
      BY <2>1, <1>3
    <3>2. \A i, j \in DOMAIN inflight' : inflight'[i].tx = o /\ inflight'[j].tx = o => i + 1 = j + 1
      BY <2>1, <1>3
    <3> QED BY <3>1, <3>2, <1>8
  <2>3. CASE o = hd.tx
    <3>1. \A i \in DOMAIN inflight' : inflight'[i].tx # o BY <2>1, <2>3, <1>3, <1>8
    <3> QED BY <3>1, <2>3, <1>6, <2>2
  <2>4. CASE o # hd.tx
    <3>1. (\E i \in DOMAIN inflight : inflight[i].tx = o) <=> \E i \in DOMAIN inflight' : inflight'[i].tx = o
      BY <2>4, <1>3
    <3> QED BY <3>1, <2>4, <1>6, <2>1, <2>2
  <2> QED BY <2>3, <2>4
<1>10. ChannelsMatch' /\ waiters' \in Seq(Ops \cup {Dead}) /\ st' \in [Ops -> Active \cup Outcomes]
  BY <1>2, <1>5, <1>7, <1>9, WakePreserves
<1>11. kind' \in [Ops -> AllKinds] BY <1>1 DEF TypeOK
<1> QED BY <1>3, <1>10, <1>11 DEF StatusOK

-----------------------------------------------------------------------------
(* The actions. *)

\* Ids stay in range when the counter wraps.
LEMMA NextIdType ==
    ASSUME SinkInv, NEW id \in Ids, next_id(id)
    PROVE  inflight_idx' \in 0 .. MaxId - 1
BY SinkAssumption DEF SinkInv, TypeOK, next_id, Ids

\* The peer receives packets only.
LEMMA EncodeType ==
    ASSUME SinkInv, NEW id \in Ids, NEW tp \in AckTypes, encode(id, tp)
    PROVE  unacked' \in Seq(Packets)
<1>1. unacked \in Seq(Packets) BY DEF SinkInv, TypeOK
<1>2. [id |-> id, tp |-> tp] \in Packets BY DEF Packets
<1> QED BY <1>1, <1>2, Longer DEF encode

\* The rest of the state is untouched by the steps of a request.
LEMMA RequestType ==
    ASSUME SinkInv, UNCHANGED env, StatusOK',
           inflight' \in Seq(Entries), inflight_ids' \in SUBSET Ids,
           inflight_idx' \in 0 .. MaxId - 1, waiters' \in Seq(Ops \cup {Dead}),
           unacked' \in Seq(Packets), owed' \in SUBSET Ids
    PROVE  TypeOK'
BY DEF SinkInv, TypeOK, env, StatusOK

\* The synchronous part of a QoS 1 publish.
LEMMA InnerPreserves ==
    ASSUME SinkInv, NEW o \in Ops, st[o] \notin {"sent", "blocked"},
           send_at_least_once_inner(o), UNCHANGED <<waiters, env>>
    PROVE  SinkInv'
<1>1. PICK id \in Ids : next_id(id) /\ wait_packet_response(o, id)
  BY DEF send_at_least_once_inner
<1>2. /\ inflight_idx' \in 0 .. MaxId - 1 /\ owed' \in SUBSET Ids
      /\ waiters' \in Seq(Ops \cup {Dead})
  BY <1>1, NextIdType DEF SinkInv, TypeOK, send_at_least_once_inner
<1>3. ASSUME Becomes(o, "publish", "failed"), UNCHANGED <<inflight, inflight_ids, unacked>>
      PROVE  SinkInv'
  <2>1. StatusOK' /\ ChannelsMatch' BY <1>3, EndPreserves DEF Outcomes, AllKinds, AckTypes
  <2>2. TypeOK' BY <1>2, <1>3, <2>1, RequestType DEF SinkInv, TypeOK
  <2>3. UniqueIds' BY <1>3 DEF SinkInv, UniqueIds
  <2> QED BY <2>1, <2>2, <2>3 DEF SinkInv
<1>4. ASSUME id \notin inflight_ids, encode(id, "publish"), Register(id, o, "publish"),
             Becomes(o, "publish", "sent")
      PROVE  SinkInv'
  <2>1. unacked' \in Seq(Packets) BY <1>4, EncodeType DEF AckTypes
  <2>2. /\ StatusOK' /\ ChannelsMatch' /\ UniqueIds'
        /\ inflight' \in Seq(Entries) /\ inflight_ids' \in SUBSET Ids
    BY <1>4, RegisterPreserves DEF AckTypes, AllKinds, Active
  <2>3. TypeOK' BY <1>2, <2>1, <2>2, RequestType
  <2> QED BY <2>2, <2>3 DEF SinkInv
<1> QED BY <1>1, <1>3, <1>4 DEF wait_packet_response

\* The synchronous part of a subscribe or unsubscribe request, refused packets
\* included: the entry they leave behind belongs to no task.
LEMMA SubscriptionPreserves ==
    ASSUME SinkInv, NEW o \in Ops, NEW tp \in AckTypes, st[o] \notin {"sent", "blocked"},
           send_subscription(o, tp), UNCHANGED <<waiters, env>>
    PROVE  SinkInv'
<1>1. PICK id \in Ids : next_id(id) /\ wait_response(o, id, tp)
  BY DEF send_subscription
<1>2. /\ inflight_idx' \in 0 .. MaxId - 1 /\ owed' \in SUBSET Ids
      /\ waiters' \in Seq(Ops \cup {Dead}) /\ unacked \in Seq(Packets) /\ tp \in AllKinds
  BY <1>1, NextIdType DEF SinkInv, TypeOK, send_subscription, AllKinds
<1>3. CASE /\ Becomes(o, tp, "failed") /\ UNCHANGED <<inflight, inflight_ids, unacked>>
  <2>1. StatusOK' /\ ChannelsMatch' BY <1>2, <1>3, EndPreserves DEF Outcomes
  <2>2. TypeOK' BY <1>2, <1>3, <2>1, RequestType DEF SinkInv, TypeOK
  <2>3. UniqueIds' BY <1>3 DEF SinkInv, UniqueIds
  <2> QED BY <2>1, <2>2, <2>3 DEF SinkInv
<1>4. CASE id \notin inflight_ids /\ Register(id, o, tp) /\ encode(id, tp) /\ Becomes(o, tp, "sent")
  <2>1. unacked' \in Seq(Packets) BY <1>4, EncodeType
  <2>2. /\ StatusOK' /\ ChannelsMatch' /\ UniqueIds'
        /\ inflight' \in Seq(Entries) /\ inflight_ids' \in SUBSET Ids
    BY <1>2, <1>4, RegisterPreserves DEF Active
  <2>3. TypeOK' BY <1>2, <2>1, <2>2, RequestType
  <2> QED BY <2>2, <2>3 DEF SinkInv
<1>5. CASE id \notin inflight_ids /\ Register(id, Dead, tp) /\ Becomes(o, tp, "failed") /\ UNCHANGED unacked
  <2>1. /\ StatusOK' /\ ChannelsMatch' /\ UniqueIds'
        /\ inflight' \in Seq(Entries) /\ inflight_ids' \in SUBSET Ids
    BY <1>2, <1>5, RegisterPreserves, SinkAssumption DEF Outcomes
  <2>2. TypeOK' BY <1>2, <1>5, <2>1, RequestType
  <2> QED BY <2>1, <2>2 DEF SinkInv
<1> QED BY <1>1, <1>3, <1>4, <1>5 DEF wait_response

\* A non-blocking publish registers an entry that belongs to no task.
LEMMA NoBlockPreserves ==
    ASSUME SinkInv, NEW o \in Ops, st[o] \notin {"sent", "blocked"}, NEW id \in Ids,
           next_id(id), wait_packet_response_no_block(o, id), UNCHANGED <<waiters, env>>
    PROVE  SinkInv'
<1>1. /\ inflight_idx' \in 0 .. MaxId - 1 /\ waiters' \in Seq(Ops \cup {Dead})
      /\ unacked \in Seq(Packets) /\ owed \in SUBSET Ids
  BY NextIdType DEF SinkInv, TypeOK
<1>2. CASE Becomes(o, "noblock", "failed") /\ UNCHANGED <<inflight, inflight_ids, unacked, owed>>
  <2>1. StatusOK' /\ ChannelsMatch' BY <1>2, EndPreserves DEF Outcomes, AllKinds
  <2>2. TypeOK' BY <1>1, <1>2, <2>1, RequestType DEF SinkInv, TypeOK
  <2>3. UniqueIds' BY <1>2 DEF SinkInv, UniqueIds
  <2> QED BY <2>1, <2>2, <2>3 DEF SinkInv
<1>3. ASSUME id \notin inflight_ids, encode(id, "publish"), Register(id, NoTx, "publish"),
             owed' = IF cb = "unset" THEN owed ELSE owed \cup {id},
             NEW s \in Outcomes, Becomes(o, "noblock", s)
      PROVE  SinkInv'
  <2>1. unacked' \in Seq(Packets) BY <1>3, EncodeType DEF AckTypes
  <2>2. /\ StatusOK' /\ ChannelsMatch' /\ UniqueIds'
        /\ inflight' \in Seq(Entries) /\ inflight_ids' \in SUBSET Ids
    BY <1>3, RegisterPreserves, SinkAssumption DEF AckTypes, AllKinds
  <2>3. owed' \in SUBSET Ids BY <1>1, <1>3
  <2>4. TypeOK' BY <1>1, <2>1, <2>2, <2>3, RequestType
  <2> QED BY <2>2, <2>4 DEF SinkInv
<1> QED BY <1>2, <1>3 DEF wait_packet_response_no_block, NoBlockOutcome, Outcomes

\* A call that finds the connection closed, or queues for credit.
LEMMA CallPreserves ==
    ASSUME SinkInv, NEW o \in Ops, NEW k \in AllKinds, Calls(o, k),
           Disconnected(o, k) \/ wait_readiness(o, k)
    PROVE  SinkInv'
<1>1. /\ st[o] \notin {"sent", "blocked"} /\ UNCHANGED env
      /\ UNCHANGED <<inflight, inflight_ids, inflight_idx, unacked, owed>>
  BY DEF Calls, Active, Disconnected, wait_readiness
<1>2. StatusOK' /\ ChannelsMatch' /\ waiters' \in Seq(Ops \cup {Dead})
  <2>1. CASE Disconnected(o, k)
    BY <1>1, <2>1, EndPreserves DEF Disconnected, Outcomes, SinkInv, TypeOK
  <2>2. CASE wait_readiness(o, k)
    BY <1>1, <2>2, BlockPreserves DEF wait_readiness
  <2> QED BY <2>1, <2>2
<1>3. TypeOK' BY <1>1, <1>2, RequestType DEF SinkInv, TypeOK
<1>4. UniqueIds' BY <1>1 DEF SinkInv, UniqueIds
<1> QED BY <1>2, <1>3, <1>4 DEF SinkInv

\* A ready() that resolves without touching the queues.
LEMMA ReadyPreserves ==
    ASSUME SinkInv, NEW o \in Ops, NEW k \in AllKinds, NEW s \in Outcomes,
           st[o] \notin {"sent", "blocked"}, Becomes(o, k, s),
           UNCHANGED <<inflight, inflight_ids, inflight_idx, waiters, unacked, owed, env>>
    PROVE  SinkInv'
<1>1. StatusOK' /\ ChannelsMatch' BY EndPreserves
<1>2. TypeOK' BY <1>1, RequestType DEF SinkInv, TypeOK
<1>3. UniqueIds' BY ZenonT(30) DEF SinkInv, UniqueIds
<1> QED BY <1>1, <1>2, <1>3 DEF SinkInv

\* An ack, whatever it answers, preserves the invariant.
LEMMA PktAckPreserves ==
    ASSUME FiniteFacts, SinkInv, NEW a \in Packets, pkt_ack(a), unacked' \in Seq(Packets)
    PROVE  SinkInv'
<1>1. UNCHANGED <<cap, wrb, inflight_idx, kind>> BY DEF pkt_ack
<1>2. ASSUME NEW q, NEW ids \in SUBSET Ids, pkt_ack_err(q, ids)
      PROVE  SinkInv'
  <2>1. clear_queues(q) BY <1>2 DEF pkt_ack_err
  <2>2. /\ StatusOK' /\ ChannelsMatch' /\ UniqueIds' /\ inflight' = <<>> /\ waiters' = <<>>
    BY <1>1, <2>1, ClearPreserves, ZenonT(30)
  <2>3. /\ inflight_ids' \in SUBSET Ids /\ closed' = TRUE /\ terminated' = terminated
        /\ cb' \in {"unset", "set", "taken"} /\ owed' \in SUBSET Ids
    BY <1>2, <2>1 DEF pkt_ack_err, clear_queues, SinkInv, TypeOK
  <2>4. TypeOK' BY <1>1, <2>2, <2>3 DEF SinkInv, TypeOK, StatusOK
  <2> QED BY <2>2, <2>4 DEF SinkInv
<1>3. ASSUME inflight # <<>>, pkt_ack_ok(Head(inflight))
      PROVE  SinkInv'
  <2>1. /\ StatusOK' /\ ChannelsMatch' /\ UniqueIds'
        /\ inflight' \in Seq(Entries) /\ inflight_ids' \in SUBSET Ids
        /\ waiters' \in Seq(Ops \cup {Dead})
    BY <1>1, <1>3, AckPreserves, ZenonT(30)
  <2>2. UNCHANGED <<cb, closed, terminated>> /\ owed' \in SUBSET Ids
    BY <1>3 DEF pkt_ack_ok, SinkInv, TypeOK
  <2>3. TypeOK' BY <1>1, <2>1, <2>2, ZenonT(30) DEF SinkInv, TypeOK, StatusOK
  <2> QED BY <2>1, <2>3 DEF SinkInv
<1>4. ASSUME inflight # <<>>, Head(inflight).tx = NoTx, pkt_ack_panic(Head(inflight))
      PROVE  SinkInv'
  <2>1. /\ inflight' = Tail(inflight) /\ inflight_ids' = inflight_ids \ {Head(inflight).id}
        /\ closed' = TRUE /\ terminated' = TRUE /\ UNCHANGED <<waiters, st, cb, owed>>
    BY <1>4, SMTT(30) DEF pkt_ack_panic
  <2>2. /\ UniqueIds' /\ inflight' \in Seq(Entries) /\ inflight_ids' \in SUBSET Ids
        /\ Head(inflight) = inflight[1] /\ 1 \in DOMAIN inflight
        /\ \A i \in DOMAIN inflight' : i + 1 \in DOMAIN inflight /\ inflight'[i] = inflight[i + 1]
        /\ \A i \in DOMAIN inflight : i # 1 =>
             i - 1 \in DOMAIN inflight' /\ inflight'[i - 1] = inflight[i]
    BY <1>4, <2>1, PopPreserves, ZenonT(30)
  <2>3. TypeOK' BY <1>1, <2>1, <2>2, ZenonT(30) DEF SinkInv, TypeOK
  <2>4. \A i, j \in DOMAIN inflight' : i + 1 = j + 1 => i = j
    BY <2>2, SMTT(30)
  <2>5. ASSUME NEW o \in Ops
        PROVE  /\ st[o] = "sent" <=> \E i \in DOMAIN inflight' : inflight'[i].tx = o
               /\ \A i \in DOMAIN inflight' : inflight'[i].tx = o =>
                   /\ inflight'[i].tp = kind[o]
                   /\ \A j \in DOMAIN inflight' : inflight'[j].tx = o => i = j
    <3>1. /\ st[o] = "sent" <=> \E i \in DOMAIN inflight : inflight[i].tx = o
          /\ \A i \in DOMAIN inflight : inflight[i].tx = o =>
               /\ inflight[i].tp = kind[o]
               /\ \A j \in DOMAIN inflight : inflight[j].tx = o => i = j
      BY DEF SinkInv, ChannelsMatch
    <3>2. inflight[1].tx # o BY <1>4, <2>2, SinkAssumption
    <3>3. (\E i \in DOMAIN inflight : inflight[i].tx = o) <=> \E i \in DOMAIN inflight' : inflight'[i].tx = o
      BY <2>2, <3>2
    <3>4. ASSUME NEW i \in DOMAIN inflight', inflight'[i].tx = o
          PROVE  inflight'[i].tp = kind[o]
      BY <2>2, <3>1, <3>4, SMTT(30)
    <3>5. ASSUME NEW i \in DOMAIN inflight', NEW j \in DOMAIN inflight',
                 inflight'[i].tx = o, inflight'[j].tx = o
          PROVE  i = j
      <4>1. i + 1 = j + 1
        BY <2>2, <3>1, <3>5, SMTT(30)
      <4> QED BY <2>4, <4>1, Zenon
    <3> QED BY <3>1, <3>3, <3>4, <3>5, ZenonT(30)
  <2>6. ChannelsMatch' BY <1>1, <2>1, <2>5 DEF SinkInv, ChannelsMatch
  <2> QED BY <2>2, <2>3, <2>6, ZenonT(30) DEF SinkInv
<1>5. inflight_ids \in SUBSET Ids /\ inflight_ids \ {a.id} \in SUBSET Ids
  BY SMTT(30) DEF SinkInv, TypeOK
<1>6. \/ pkt_ack_err(<<>>, inflight_ids)
      \/ pkt_ack_err(Tail(inflight), inflight_ids)
      \/ pkt_ack_err(Tail(inflight), inflight_ids \ {a.id})
      \/ inflight # <<>> /\ Head(inflight).tx = NoTx /\ pkt_ack_panic(Head(inflight))
      \/ inflight # <<>> /\ pkt_ack_ok(Head(inflight))
  BY DEF pkt_ack
<1> QED BY <1>2, <1>3, <1>4, <1>5, <1>6, ZenonT(30)

\* Closing by either side, and the dispatcher's shutdown.
LEMMA ClosePreserves ==
    ASSUME SinkInv, close, terminated' \in BOOLEAN
    PROVE  SinkInv'
<1>1. clear_queues(inflight) /\ UNCHANGED kind BY DEF close
<1>2. /\ StatusOK' /\ ChannelsMatch' /\ UniqueIds' /\ inflight' = <<>> /\ waiters' = <<>>
  BY <1>1, ClearPreserves
<1>3. cb' \in {"unset", "set", "taken"} /\ owed' \in SUBSET Ids
  BY <1>1 DEF clear_queues, SinkInv, TypeOK
<1>4. TypeOK' BY <1>2, <1>3 DEF close, SinkInv, TypeOK, StatusOK
<1> QED BY <1>2, <1>4 DEF SinkInv

\* set_cap and disable_wr_backpressure wake waiters and leave the acks alone.
LEMMA WakeOnlyPreserves ==
    ASSUME FiniteFacts, SinkInv, NEW n \in Nat, Wake(n, st), cap' \in {0, Cap}, wrb' \in BOOLEAN,
           UNCHANGED <<inflight, inflight_ids, inflight_idx, cb, closed, terminated, kind, unacked, owed>>
    PROVE  SinkInv'
<1>1. st \in [Ops -> Active \cup Outcomes] BY ZenonT(30) DEF SinkInv, TypeOK
<1>2. /\ \A o \in Ops : st[o] = "sent" <=> \E i \in DOMAIN inflight' : inflight'[i].tx = o
      /\ \A o \in Ops : \A i \in DOMAIN inflight' : inflight'[i].tx = o =>
          /\ inflight'[i].tp = kind[o]
          /\ \A j \in DOMAIN inflight' : inflight'[j].tx = o => i = j
  BY SMTT(30) DEF SinkInv, ChannelsMatch
<1>3. ChannelsMatch' /\ waiters' \in Seq(Ops \cup {Dead}) /\ st' \in [Ops -> Active \cup Outcomes]
  BY <1>1, <1>2, WakePreserves
<1>4. TypeOK' BY <1>3 DEF SinkInv, TypeOK
<1>5. UniqueIds' BY DEF SinkInv, UniqueIds
<1> QED BY <1>3, <1>4, <1>5 DEF SinkInv

\* Every action of the sink, its users, its dispatcher and its peer preserves the
\* invariant.
LEMMA NextPreserves ==
    ASSUME FiniteFacts, SinkInv, [Next]_vars
    PROVE  SinkInv'
<1>1. ASSUME NEW o \in Ops, send_at_least_once(o) PROVE SinkInv'
  <2>1. Calls(o, "publish") /\ "publish" \in AllKinds BY <1>1 DEF send_at_least_once, AllKinds, AckTypes
  <2>2. CASE Disconnected(o, "publish") \/ wait_readiness(o, "publish") BY <2>1, <2>2, CallPreserves
  <2>3. CASE Immediate /\ send_at_least_once_inner(o)
    BY <2>1, <2>3, InnerPreserves DEF Immediate, Calls, Active
  <2> QED BY <1>1, <2>2, <2>3 DEF send_at_least_once
<1>2. ASSUME NEW o \in Ops, NEW k \in {"subscribe", "unsubscribe"}, Calls(o, k),
             \/ Disconnected(o, k) \/ wait_readiness(o, k)
             \/ Immediate /\ send_subscription(o, k)
      PROVE  SinkInv'
  <2>1. k \in AckTypes /\ k \in AllKinds BY DEF AckTypes, AllKinds
  <2>2. CASE Disconnected(o, k) \/ wait_readiness(o, k) BY <1>2, <2>1, <2>2, CallPreserves
  <2>3. CASE Immediate /\ send_subscription(o, k)
    BY <1>2, <2>1, <2>3, SubscriptionPreserves DEF Immediate, Calls, Active
  <2> QED BY <1>2, <2>2, <2>3
<1>3. ASSUME NEW o \in Ops, ready(o) PROVE SinkInv'
  <2>1. Calls(o, "ready") /\ "ready" \in AllKinds BY <1>3 DEF ready, AllKinds
  <2>2. CASE Disconnected(o, "ready") \/ wait_readiness(o, "ready") BY <2>1, <2>2, CallPreserves
  <2>3. CASE /\ Immediate /\ Becomes(o, "ready", "ok")
             /\ UNCHANGED <<inflight, inflight_ids, inflight_idx, unacked, owed>>
    BY <2>1, <2>3, ReadyPreserves DEF Immediate, Calls, Active, Outcomes
  <2> QED BY <1>3, <2>2, <2>3 DEF ready
<1>4. ASSUME NEW o \in Ops, send_at_least_once_no_block(o) PROVE SinkInv'
  <2>1. /\ Calls(o, "noblock") /\ "noblock" \in AllKinds
        /\ st[o] \notin {"sent", "blocked"} /\ UNCHANGED env
    BY <1>4 DEF send_at_least_once_no_block, AllKinds, Calls, Active
  <2>2. CASE Disconnected(o, "noblock") BY <2>1, <2>2, CallPreserves
  <2>3. CASE /\ Becomes(o, "noblock", "failed")
             /\ UNCHANGED <<inflight, inflight_ids, inflight_idx, waiters, unacked, owed>>
    BY <2>1, <2>3, ReadyPreserves DEF Outcomes
  <2>4. CASE /\ \E id \in Ids : next_id(id) /\ wait_packet_response_no_block(o, id)
             /\ UNCHANGED waiters
    BY <2>1, <2>4, NoBlockPreserves, ZenonT(30)
  <2> QED BY <1>4, <2>2, <2>3, <2>4 DEF send_at_least_once_no_block
<1>5. ASSUME NEW o \in Ops, resume(o) PROVE SinkInv'
  <2>1. st[o] \notin {"sent", "blocked"} /\ UNCHANGED <<waiters, env>> BY <1>5 DEF resume
  <2>2. CASE send_at_least_once_inner(o) BY <2>1, <2>2, InnerPreserves
  <2>3. CASE kind[o] \in {"subscribe", "unsubscribe"} /\ send_subscription(o, kind[o])
    BY <2>1, <2>3, SubscriptionPreserves DEF AckTypes
  <2>4. CASE /\ Becomes(o, "ready", "ok")
             /\ UNCHANGED <<inflight, inflight_ids, inflight_idx, unacked, owed>>
    BY <2>1, <2>4, ReadyPreserves, ZenonT(30) DEF AllKinds, Outcomes
  <2> QED BY <1>5, <2>2, <2>3, <2>4 DEF resume
<1>6. CASE set_publish_ack
  BY <1>6, SMTT(30) DEF set_publish_ack, queues, SinkInv, TypeOK, UniqueIds,
     ChannelsMatch
<1>7. CASE set_cap
  BY <1>7, SinkAssumption, WakeOnlyPreserves, ZenonT(30) DEF set_cap, SinkInv,
     TypeOK
<1>8. CASE enable_wr_backpressure
  BY <1>8 DEF enable_wr_backpressure, queues, SinkInv, TypeOK, UniqueIds, ChannelsMatch
<1>9. CASE disable_wr_backpressure
  <2>1. /\ cap \in {0, Cap} /\ inflight \in Seq(Entries) /\ wrb' = FALSE
        /\ UNCHANGED <<cap, inflight, inflight_ids, inflight_idx, cb, closed, terminated, kind,
                       unacked, owed>>
    BY <1>9 DEF disable_wr_backpressure, SinkInv, TypeOK
  <2>2. cap - Len(inflight) \in Int /\ (Len(inflight) < cap => cap - Len(inflight) \in Nat)
    BY <2>1, SinkAssumption
  <2>3. CASE Len(inflight) < cap
    <3>1. Wake(cap - Len(inflight), st) BY <1>9, <2>3 DEF disable_wr_backpressure
    <3> QED BY <2>1, <2>2, <2>3, <3>1, WakeOnlyPreserves, Zenon
  <2>4. CASE ~(Len(inflight) < cap)
    <3>1. UNCHANGED <<waiters, st>> BY <1>9, <2>4 DEF disable_wr_backpressure
    <3>2. TypeOK' BY <2>1, <3>1, Zenon DEF SinkInv, TypeOK
    <3>3. UniqueIds' BY <2>1, ZenonT(30) DEF SinkInv, UniqueIds
    <3>4. ChannelsMatch' BY <2>1, <3>1 DEF SinkInv, ChannelsMatch
    <3> QED BY <3>2, <3>3, <3>4 DEF SinkInv
  <2> QED BY <2>3, <2>4
<1>10. CASE user_close \/ shutdown
  BY <1>10, ClosePreserves, ZenonT(30) DEF user_close, shutdown, SinkInv, TypeOK
<1>11. CASE peer_gone
  BY <1>11 DEF peer_gone, queues, SinkInv, TypeOK, UniqueIds, ChannelsMatch
<1>12. CASE peer_ack
  <2>1. unacked \in Seq(Packets) /\ unacked # <<>> BY <1>12 DEF peer_ack, SinkInv, TypeOK
  <2>2. Head(unacked) \in Packets /\ Tail(unacked) \in Seq(Packets) BY <2>1, Shorter
  <2> QED BY <1>12, <2>2, PktAckPreserves DEF peer_ack
<1>13. CASE bad_ack
  <2>1. unacked \in Seq(Packets) BY DEF SinkInv, TypeOK
  <2>2. unacked # <<>> => Tail(unacked) \in Seq(Packets) BY <2>1, Shorter
  <2>3. unacked' \in Seq(Packets)
    <3>1. unacked' = IF unacked = <<>> THEN <<>> ELSE Tail(unacked) BY <1>13 DEF bad_ack
    <3>2. CASE unacked = <<>> BY <3>1, <3>2
    <3>3. CASE unacked # <<>> BY <3>1, <2>2, SMTT(30)
    <3> QED BY <3>2, <3>3
  <2> QED BY <1>13, <2>3, PktAckPreserves DEF bad_ack
<1>14. CASE UNCHANGED vars
  BY <1>14 DEF vars, SinkInv, TypeOK, UniqueIds, ChannelsMatch
<1>15. ASSUME NEW o \in Ops, subscribe(o) \/ unsubscribe(o) PROVE SinkInv'
  BY <1>2, <1>15 DEF subscribe, unsubscribe
<1> QED
  BY <1>1, <1>3, <1>4, <1>5, <1>6, <1>7, <1>8, <1>9, <1>10, <1>11, <1>12, <1>13, <1>14, <1>15,
     CancelPreserves DEF Next

-----------------------------------------------------------------------------
\* The initial state satisfies the invariant: no request, no channel, no id.
LEMMA InitHolds == Init => SinkInv
<1> SUFFICES ASSUME Init PROVE SinkInv OBVIOUS
<1>1. inflight_idx \in 0 .. MaxId - 1 BY SinkAssumption DEF Init
<1>2. st \in [Ops -> Active \cup Outcomes] /\ kind \in [Ops -> AllKinds]
  BY DEF Init, Outcomes, AllKinds, AckTypes
<1>3. inflight = <<>> /\ waiters = <<>> /\ unacked = <<>> /\ inflight_ids = {} /\ owed = {}
  BY DEF Init
<1>4. inflight \in Seq(Entries) /\ waiters \in Seq(Ops \cup {Dead}) /\ unacked \in Seq(Packets)
  BY <1>3
<1>5. TypeOK BY <1>1, <1>2, <1>3, <1>4, Zenon DEF Init, TypeOK
<1>6. UniqueIds BY <1>3 DEF UniqueIds
<1>7. ChannelsMatch BY <1>3 DEF Init, ChannelsMatch
<1> QED BY <1>5, <1>6, <1>7 DEF SinkInv

-----------------------------------------------------------------------------
(* The order of acks and what the callback is told. *)

\* No entry awaits the callback.
NoneOwed == \A i \in DOMAIN inflight : inflight[i].tx # NoTx

\* What the peer has received and not acknowledged is where the queue starts.
Mirrors ==
    /\ Len(unacked) <= Len(inflight)
    /\ \A i \in 1 .. Len(unacked) : unacked[i] = [id |-> inflight[i].id, tp |-> inflight[i].tp]

\* While the connection is up the two are equal. Once it is closed, tasks that were
\* granted still register packets that are not sent, and a cleared queue may be
\* filled again, by tasks that wait for the ack themselves. A callback that was
\* taken is gone with the entries it was told of.
AckInv ==
    /\ ~closed => Len(inflight) = Len(unacked)
    /\ Mirrors \/ (closed /\ NoneOwed)
    /\ cb = "unset" => owed = {}
    /\ cb = "taken" => closed /\ NoneOwed

\* What a step does to the two queues: it leaves them alone, but for channels that
\* are dropped;
Keeps ==
    /\ UNCHANGED <<unacked, owed>> /\ (closed => closed') /\ cb' \in {cb, "set"}
    /\ DOMAIN inflight' = DOMAIN inflight /\ Len(inflight') = Len(inflight)
    /\ \A i \in DOMAIN inflight :
         /\ inflight'[i].id = inflight[i].id /\ inflight'[i].tp = inflight[i].tp
         /\ inflight'[i].tx = NoTx <=> inflight[i].tx = NoTx

\* it registers and sends the packet of e;
Sends(e) ==
    /\ UNCHANGED <<closed, cb>>
    /\ inflight' = Append(inflight, e)
    /\ unacked' = IF closed THEN unacked ELSE Append(unacked, [id |-> e.id, tp |-> e.tp])
    /\ closed => e.tx # NoTx
    /\ owed' = owed \/ (e.tx = NoTx /\ cb # "unset" /\ owed' = owed \cup {e.id})

\* it clears the queue;
Clears ==
    /\ closed' = TRUE /\ inflight' = <<>> /\ owed' \subseteq owed
    /\ cb' = IF cb = "set" THEN "taken" ELSE cb

\* or it takes the oldest entry of both.
Takes ==
    /\ inflight # <<>> /\ inflight' = Tail(inflight) /\ cb' = cb /\ owed' \subseteq owed
    /\ unacked' = IF unacked = <<>> THEN <<>> ELSE Tail(unacked)
    /\ closed => closed'

\* A step that leaves the queues alone keeps AckInv.
LEMMA KeepsAck ==
    ASSUME SinkInv, AckInv, Keeps
    PROVE  AckInv'
<1>1. Len(unacked) \in Nat /\ Len(inflight) \in Nat /\ DOMAIN inflight = 1 .. Len(inflight)
  BY DEF SinkInv, TypeOK
<1>2. /\ UNCHANGED <<unacked, owed>> /\ Len(inflight') = Len(inflight) /\ (closed => closed')
      /\ cb' \in {cb, "set"} /\ NoneOwed' = NoneOwed
  BY ZenonT(30) DEF Keeps, NoneOwed
<1>3. Mirrors => Mirrors'
  BY <1>1 DEF Mirrors, Keeps
<1> QED BY <1>2, <1>3 DEF AckInv

\* So does one that sends a packet.
LEMMA SendsAck ==
    ASSUME SinkInv, AckInv, NEW e \in Entries, Sends(e)
    PROVE  AckInv'
<1>1. inflight \in Seq(Entries) /\ unacked \in Seq(Packets)
  BY DEF SinkInv, TypeOK
<1>2. PICK n \in Nat, m \in Nat : n = Len(inflight) /\ m = Len(unacked) /\ DOMAIN inflight = 1 .. n
  BY <1>1
<1>3. /\ Len(inflight') = n + 1 /\ inflight'[n + 1] = e /\ DOMAIN inflight' = 1 .. n + 1
      /\ \A i \in 1 .. n : inflight'[i] = inflight[i]
  BY <1>1, <1>2 DEF Sends
<1>4. UNCHANGED <<closed, cb>> /\ (closed => e.tx # NoTx) /\ (cb = "unset" => owed' = owed)
  BY DEF Sends
<1>5. closed /\ NoneOwed => NoneOwed'
  <2>1. \A i \in 1 .. n + 1 : i \in 1 .. n \/ i = n + 1
    OBVIOUS
  <2> QED BY <1>2, <1>3, <1>4, <2>1 DEF NoneOwed
<1>6. CASE closed
  <2>1. unacked' = unacked
    BY <1>6 DEF Sends
  <2>2. Mirrors => Mirrors'
    <3>1. ASSUME m <= n PROVE m <= n + 1 /\ \A i \in 1 .. m : i \in 1 .. n
      BY <3>1
    <3> QED BY <1>2, <1>3, <2>1, <3>1 DEF Mirrors
  <2> QED BY <1>4, <1>5, <1>6, <2>2 DEF AckInv
<1>7. CASE ~closed
  <2>1. PICK p \in Packets : p = [id |-> e.id, tp |-> e.tp]
    <3>1. e.id \in Ids /\ e.tp \in AckTypes
      BY DEF Entries
    <3>2. [id |-> e.id, tp |-> e.tp] \in Packets
      BY <3>1 DEF Packets
    <3> QED BY <3>2, Zenon
  <2>2. unacked' = Append(unacked, p) /\ m = n /\ Mirrors
    BY <1>2, <1>7, <2>1 DEF Sends, AckInv
  <2>3. Len(unacked') = n + 1 /\ unacked'[n + 1] = p /\ \A i \in 1 .. n : unacked'[i] = unacked[i]
    <3>1. /\ Len(unacked') = Len(unacked) + 1 /\ unacked'[Len(unacked) + 1] = p
          /\ \A i \in 1 .. Len(unacked) : unacked'[i] = unacked[i]
      BY <1>1, <2>2, Longer
    <3> QED BY <1>2, <2>2, <3>1
  <2>4. \A i \in 1 .. n + 1 : i \in 1 .. n \/ i = n + 1
    BY SMTT(30)
  <2>5. \A i \in 1 .. n : unacked[i] = [id |-> inflight[i].id, tp |-> inflight[i].tp]
    BY <1>2, <2>2 DEF Mirrors
  <2>6. \A i \in 1 .. n + 1 : unacked'[i] = [id |-> inflight'[i].id, tp |-> inflight'[i].tp]
    BY <1>3, <2>1, <2>3, <2>4, <2>5, ZenonT(30)
  <2>7. Mirrors'
    BY <1>3, <2>3, <2>6 DEF Mirrors
  <2> QED BY <1>3, <1>4, <1>7, <2>3, <2>7 DEF AckInv
<1> QED BY <1>6, <1>7

\* So does one that clears the queue.
LEMMA ClearsAck ==
    ASSUME SinkInv, AckInv, Clears
    PROVE  AckInv'
<1>1. NoneOwed'
  BY DEF Clears, NoneOwed
<1>2. closed' = TRUE /\ owed' \subseteq owed /\ (cb' = "unset" => cb = "unset")
  BY DEF Clears
<1> QED BY <1>1, <1>2 DEF AckInv

\* So does one that takes the oldest entry, since the peer forgets the packet it is for.
LEMMA TakesAck ==
    ASSUME SinkInv, AckInv, Takes, closed' \in BOOLEAN
    PROVE  AckInv'
<1>1. inflight \in Seq(Entries) /\ unacked \in Seq(Packets) /\ inflight # <<>>
  BY DEF SinkInv, TypeOK, Takes
<1>2. PICK n \in Nat, m \in Nat : /\ n + 1 = Len(inflight) /\ m = Len(unacked)
                                 /\ DOMAIN inflight = 1 .. n + 1
  <2>1. Len(inflight) \in Nat \ {0} /\ DOMAIN inflight = 1 .. Len(inflight) /\ Len(unacked) \in Nat
    BY <1>1
  <2>2. Len(inflight) - 1 \in Nat /\ (Len(inflight) - 1) + 1 = Len(inflight)
    BY <2>1
  <2> QED BY <2>1, <2>2, Zenon
<1>3. /\ Len(inflight') = n /\ DOMAIN inflight' = 1 .. n
      /\ \A i \in 1 .. n : inflight'[i] = inflight[i + 1]
  BY <1>1, <1>2 DEF Takes
<1>4. (closed => closed') /\ cb' = cb /\ owed' \subseteq owed
  BY DEF Takes
<1>5. NoneOwed => NoneOwed'
  <2>1. \A i \in 1 .. n : i + 1 \in 1 .. n + 1
    OBVIOUS
  <2> QED BY <1>2, <1>3, <2>1 DEF NoneOwed
<1>6. CASE unacked = <<>>
  <2>1. unacked' = <<>> /\ m = 0 /\ Len(unacked') = 0
    BY <1>2, <1>6 DEF Takes
  <2>2. closed
    BY <1>2, <2>1, SMTT(30) DEF AckInv
  <2>3. Mirrors'
    BY <1>3, <2>1 DEF Mirrors
  <2> QED BY <1>4, <1>5, <2>2, <2>3 DEF AckInv
<1>7. CASE unacked # <<>>
  <2>1. PICK k \in Nat : m = k + 1
    <3>1. m # 0
      BY <1>1, <1>2, <1>7
    <3>2. m - 1 \in Nat /\ m = (m - 1) + 1
      BY <3>1
    <3> QED BY <3>2, Zenon
  <2>2. /\ Len(unacked') = k /\ \A i \in 1 .. k : unacked'[i] = unacked[i + 1]
    <3>1. unacked' = Tail(unacked)
      BY <1>7 DEF Takes
    <3>2. Len(unacked') = Len(unacked) - 1 /\ \A i \in 1 .. Len(unacked') : unacked'[i] = unacked[i + 1]
      BY <1>1, <1>7, <3>1, Shorter
    <3>3. Len(unacked) = k + 1 /\ (k + 1) - 1 = k
      BY <1>2, <2>1
    <3> QED BY <3>2, <3>3, Zenon
  <2>3. Mirrors => Mirrors'
    <3>1. ASSUME k + 1 <= n + 1
          PROVE  k <= n /\ \A i \in 1 .. k : i \in 1 .. n /\ i + 1 \in 1 .. k + 1
      BY <3>1
    <3> QED BY <1>2, <1>3, <2>1, <2>2, <3>1, ZenonT(30) DEF Mirrors
  <2>4. ~closed' => Len(inflight') = Len(unacked')
    BY <1>2, <1>3, <1>4, <2>1, <2>2 DEF AckInv
  <2> QED BY <1>4, <1>5, <2>3, <2>4 DEF AckInv
<1> QED BY <1>6, <1>7

\* The step of a call that changes neither queue.
LEMMA SameKeeps ==
    ASSUME UNCHANGED <<inflight, unacked, owed>>, closed => closed', cb' \in {cb, "set"}
    PROVE  Keeps
BY DEF Keeps

\* A packet that was registered and encoded is sent.
LEMMA RegisterSends ==
    ASSUME NEW id \in Ids, NEW tx \in Ops \cup {Dead, NoTx}, NEW tp \in AckTypes,
           Register(id, tx, tp), encode(id, tp), UNCHANGED <<closed, cb>>,
           closed => tx # NoTx,
           owed' = owed \/ (tx = NoTx /\ cb # "unset" /\ owed' = owed \cup {id})
    PROVE  \E e \in Entries : Sends(e)
<1>1. PICK e : e = [id |-> id, tx |-> tx, tp |-> tp]
  BY Zenon
<1>2. e \in Entries /\ e.id = id /\ e.tx = tx /\ e.tp = tp
  BY <1>1 DEF Entries
<1>3. Sends(e)
  BY <1>1, <1>2, Zenon DEF Sends, Register, encode
<1> QED BY <1>2, <1>3

\* The packets of subscribe and unsubscribe requests can be encoded.
SubscriptionsEncode == FailKinds \cap {"subscribe", "unsubscribe"} = {}

\* No entry leaves the queue.
QueueStep == Keeps \/ \E e \in Entries : Sends(e)

\* The synchronous part of a publish sends its packet or leaves the queues alone.
LEMMA InnerQueues ==
    ASSUME NEW o \in Ops, send_at_least_once_inner(o), UNCHANGED env
    PROVE  QueueStep
<1>1. PICK id \in Ids : wait_packet_response(o, id)
  BY DEF send_at_least_once_inner
<1>2. UNCHANGED <<closed, cb, owed>> /\ o # NoTx
  BY SinkAssumption DEF send_at_least_once_inner, env
<1>3. CASE UNCHANGED <<inflight, unacked>>
  BY <1>2, <1>3, SameKeeps DEF QueueStep
<1>4. CASE encode(id, "publish") /\ Register(id, o, "publish")
  BY <1>2, <1>4, RegisterSends DEF QueueStep, AckTypes
<1> QED BY <1>1, <1>3, <1>4 DEF wait_packet_response

\* So does that of a subscribe or unsubscribe request whose packet can be encoded.
LEMMA SubscriptionQueues ==
    ASSUME SubscriptionsEncode, NEW o \in Ops, NEW tp \in {"subscribe", "unsubscribe"},
           send_subscription(o, tp), UNCHANGED env
    PROVE  QueueStep
<1>1. PICK id \in Ids : wait_response(o, id, tp)
  BY DEF send_subscription
<1>2. UNCHANGED <<closed, cb, owed>> /\ o # NoTx /\ tp \in AckTypes
  BY SinkAssumption DEF send_subscription, env, AckTypes
<1>3. ~MayFail(tp)
  BY DEF MayFail, SubscriptionsEncode
<1>4. CASE UNCHANGED <<inflight, unacked>>
  BY <1>2, <1>4, SameKeeps DEF QueueStep
<1>5. CASE encode(id, tp) /\ Register(id, o, tp)
  BY <1>2, <1>5, RegisterSends DEF QueueStep
<1> QED BY <1>1, <1>3, <1>4, <1>5 DEF wait_response

\* So does that of a non-blocking publish, which is made on an open connection only.
LEMMA NoBlockQueues ==
    ASSUME NEW o \in Ops, NEW id \in Ids, wait_packet_response_no_block(o, id), UNCHANGED env, ~closed
    PROVE  QueueStep
<1>1. UNCHANGED <<closed, cb>> /\ "publish" \in AckTypes
  BY DEF env, AckTypes
<1>2. CASE UNCHANGED <<inflight, unacked, owed>>
  BY <1>1, <1>2, SameKeeps DEF QueueStep
<1>3. CASE /\ encode(id, "publish") /\ Register(id, NoTx, "publish")
           /\ owed' = IF cb = "unset" THEN owed ELSE owed \cup {id}
  BY <1>1, <1>3, RegisterSends DEF QueueStep
<1> QED BY <1>2, <1>3 DEF wait_packet_response_no_block

\* A dropped future leaves the queue as it is, but for its channel.
LEMMA CancelQueues ==
    ASSUME SinkInv, NEW o \in Ops, cancel(o)
    PROVE  QueueStep
<1>1. inflight \in Seq(Entries)
  BY DEF SinkInv, TypeOK
<1>2. \A i \in DOMAIN inflight : inflight[i] \in Entries
  BY <1>1
<1>3. /\ inflight' = [i \in DOMAIN inflight |->
                        IF inflight[i].tx = o THEN [inflight[i] EXCEPT !.tx = Dead] ELSE inflight[i]]
      /\ UNCHANGED <<unacked, owed, closed, cb>>
  BY DEF cancel, env
<1>4. \A i \in DOMAIN inflight :
        /\ inflight'[i].id = inflight[i].id
        /\ inflight'[i].tp = inflight[i].tp
        /\ inflight'[i].tx = IF inflight[i].tx = o THEN Dead ELSE inflight[i].tx
  BY <1>2, <1>3 DEF Entries
<1>5. DOMAIN inflight' = DOMAIN inflight /\ Len(inflight') = Len(inflight)
  <2>1. DOMAIN inflight' = DOMAIN inflight
    BY <1>3
  <2>2. inflight' \in Seq(Entries)
    BY CancelPreserves, SMTT(30) DEF SinkInv, TypeOK
  <2> QED BY <1>1, <2>1, <2>2
<1>6. \A i \in DOMAIN inflight : inflight'[i].tx = NoTx <=> inflight[i].tx = NoTx
  BY <1>4, SinkAssumption
<1> QED BY <1>3, <1>4, <1>5, <1>6 DEF QueueStep, Keeps

\* An ack is taken, or clears the queue with the connection.
LEMMA PktAckQueues ==
    ASSUME SinkInv, NEW a, pkt_ack(a), unacked' = IF unacked = <<>> THEN <<>> ELSE Tail(unacked)
    PROVE  Clears \/ Takes
<1>1. ASSUME NEW q, NEW ids, pkt_ack_err(q, ids)
      PROVE  Clears
  BY <1>1 DEF pkt_ack_err, clear_queues, Clears
<1>2. ASSUME inflight # <<>>, pkt_ack_ok(Head(inflight))
      PROVE  Takes
  BY <1>2 DEF pkt_ack_ok, Takes
<1>3. ASSUME inflight # <<>>, pkt_ack_panic(Head(inflight))
      PROVE  Takes
  BY <1>3, SMTT(30) DEF pkt_ack_panic, Takes
<1>4. \/ pkt_ack_err(<<>>, inflight_ids)
      \/ pkt_ack_err(Tail(inflight), inflight_ids)
      \/ pkt_ack_err(Tail(inflight), inflight_ids \ {a.id})
      \/ inflight # <<>> /\ pkt_ack_panic(Head(inflight))
      \/ inflight # <<>> /\ pkt_ack_ok(Head(inflight))
  BY DEF pkt_ack
<1> QED BY <1>1, <1>2, <1>3, <1>4

\* Entries leave the queue in a close, a shutdown or an ack only.
LEMMA NextQueues ==
    ASSUME SinkInv, SubscriptionsEncode, Next, ~user_close, ~shutdown, ~peer_ack, ~bad_ack
    PROVE  QueueStep
<1>1. ASSUME NEW o \in Ops, NEW k, Calls(o, k), Disconnected(o, k) \/ wait_readiness(o, k)
      PROVE  QueueStep
  BY <1>1, SameKeeps DEF QueueStep, Calls, env, Disconnected, wait_readiness
<1>2. ASSUME NEW o \in Ops, send_at_least_once(o) PROVE QueueStep
  <2>1. Calls(o, "publish") /\ UNCHANGED env
    BY <1>2 DEF send_at_least_once, Calls
  <2> QED BY <1>1, <1>2, <2>1, InnerQueues DEF send_at_least_once
<1>3. ASSUME NEW o \in Ops, NEW k \in {"subscribe", "unsubscribe"}, Calls(o, k),
             \/ Disconnected(o, k) \/ wait_readiness(o, k)
             \/ Immediate /\ send_subscription(o, k)
      PROVE  QueueStep
  <2>1. UNCHANGED env
    BY <1>3 DEF Calls
  <2> QED BY <1>1, <1>3, <2>1, SubscriptionQueues
<1>4. ASSUME NEW o \in Ops, subscribe(o) \/ unsubscribe(o) PROVE QueueStep
  BY <1>3, <1>4 DEF subscribe, unsubscribe
<1>5. ASSUME NEW o \in Ops, ready(o) PROVE QueueStep
  <2>1. Calls(o, "ready") /\ UNCHANGED <<closed, cb>>
    BY <1>5 DEF ready, Calls, env
  <2>2. CASE UNCHANGED <<inflight, unacked, owed>>
    BY <2>1, <2>2, SameKeeps DEF QueueStep
  <2> QED BY <1>1, <1>5, <2>1, <2>2 DEF ready
<1>6. ASSUME NEW o \in Ops, send_at_least_once_no_block(o) PROVE QueueStep
  <2>1. Calls(o, "noblock") /\ UNCHANGED env
    BY <1>6 DEF send_at_least_once_no_block, Calls
  <2>2. CASE UNCHANGED <<inflight, unacked, owed>>
    BY <2>1, <2>2, SameKeeps DEF QueueStep, env
  <2>3. CASE ~closed /\ \E id \in Ids : wait_packet_response_no_block(o, id)
    BY <2>1, <2>3, NoBlockQueues, ZenonT(30)
  <2> QED BY <1>6, <2>2, <2>3 DEF send_at_least_once_no_block, Disconnected
<1>7. ASSUME NEW o \in Ops, resume(o) PROVE QueueStep
  <2>1. UNCHANGED env
    BY <1>7 DEF resume
  <2>2. CASE UNCHANGED <<inflight, unacked, owed>>
    BY <2>1, <2>2, SameKeeps DEF QueueStep, env
  <2> QED BY <1>7, <2>2, InnerQueues, SubscriptionQueues, ZenonT(30) DEF resume
<1>8. CASE set_publish_ack \/ enable_wr_backpressure \/ peer_gone
  BY <1>8, SameKeeps, SMTT(30) DEF set_publish_ack, enable_wr_backpressure,
     peer_gone, queues, QueueStep
<1>9. CASE set_cap \/ disable_wr_backpressure
  BY <1>9, SameKeeps DEF set_cap, disable_wr_backpressure, QueueStep
<1> QED BY <1>2, <1>4, <1>5, <1>6, <1>7, <1>8, <1>9, CancelQueues, SMTT(30) DEF Next

\* Every step keeps AckInv.
LEMMA NextAck ==
    ASSUME SinkInv, SinkInv', AckInv, SubscriptionsEncode, [Next]_vars
    PROVE  AckInv'
<1>1. closed' \in BOOLEAN
  BY DEF SinkInv, TypeOK
<1>2. CASE QueueStep
  BY <1>2, KeepsAck, SendsAck DEF QueueStep
<1>3. CASE UNCHANGED vars
  <2>1. Keeps
    BY <1>3, SameKeeps, ZenonT(30) DEF vars
  <2> QED BY <2>1, KeepsAck
<1>4. CASE user_close \/ shutdown
  <2>1. Clears
    BY <1>4 DEF user_close, shutdown, close, clear_queues, Clears
  <2> QED BY <2>1, ClearsAck
<1>5. CASE peer_ack \/ bad_ack
  <2>1. unacked' = IF unacked = <<>> THEN <<>> ELSE Tail(unacked)
    BY <1>5 DEF peer_ack, bad_ack
  <2>2. Clears \/ Takes
    BY <1>5, <2>1, PktAckQueues DEF peer_ack, bad_ack
  <2> QED BY <1>1, <2>2, ClearsAck, TakesAck
<1> QED BY <1>2, <1>3, <1>4, <1>5, NextQueues

\* What the step does to the publishes the callback is owed.
OwedStep == \A id \in owed' : (id \in owed => Queued(id)) => Queued(id)'

\* A step that leaves the queue alone forgets none.
LEMMA KeepsOwed ==
    ASSUME Keeps
    PROVE  OwedStep
BY DEF Keeps, OwedStep, Queued

\* Nor does one that sends a packet.
LEMMA SendsOwed ==
    ASSUME SinkInv, NEW e \in Entries, Sends(e)
    PROVE  OwedStep
<1>1. inflight \in Seq(Entries)
  BY ZenonT(30) DEF SinkInv, TypeOK
<1>2. /\ Len(inflight) + 1 \in DOMAIN inflight' /\ inflight'[Len(inflight) + 1] = e
      /\ \A i \in DOMAIN inflight : i \in DOMAIN inflight' /\ inflight'[i] = inflight[i]
  BY <1>1 DEF Sends
<1>3. \A id : Queued(id) => Queued(id)'
  BY <1>2 DEF Queued
<1>4. e.tx = NoTx => Queued(e.id)'
  BY <1>2 DEF Queued
<1>5. \A id \in owed' : id \in owed \/ (id = e.id /\ e.tx = NoTx)
  BY DEF Sends
<1> QED BY <1>3, <1>4, <1>5 DEF OwedStep

\* Clearing the queue tells the callback of every entry that awaits it.
LEMMA ClearsOwed ==
    ASSUME AckInv, cb \in {"unset", "set", "taken"}, NEW q, clear_queues(q),
           \A i \in DOMAIN inflight : inflight[i].tx = NoTx => \E j \in DOMAIN q : q[j] = inflight[i]
    PROVE  OwedStep
<1>1. CASE cb = "unset"
  BY <1>1, ZenonT(30) DEF AckInv, clear_queues, OwedStep
<1>2. CASE cb = "taken"
  <2>1. NoneOwed /\ owed' = owed
    BY <1>2, SMTT(30) DEF AckInv, clear_queues
  <2> QED BY <2>1, ZenonT(30) DEF OwedStep, Queued, NoneOwed
<1>3. CASE cb = "set"
  <2>1. owed' = owed \ {q[i].id : i \in {j \in DOMAIN q : q[j].tx = NoTx}}
    BY <1>3, ZenonT(30) DEF clear_queues
  <2>2. ASSUME NEW id \in owed', Queued(id)
        PROVE  FALSE
    <3>1. PICK i \in DOMAIN inflight : inflight[i].id = id /\ inflight[i].tx = NoTx
      BY <2>2, ZenonT(30) DEF Queued
    <3>2. PICK j \in DOMAIN q : q[j] = inflight[i]
      BY <3>1
    <3> QED BY <2>1, <3>1, ZenonT(30)
  <2> QED BY <2>1, <2>2, ZenonT(30) DEF OwedStep
<1> QED BY <1>1, <1>2, <1>3, SMTT(30)

\* Taking the oldest entry tells the callback of it when it awaits the callback.
LEMMA TakesOwed ==
    ASSUME SinkInv, AckInv, inflight # <<>>, inflight' = Tail(inflight),
           NEW hd, hd = Head(inflight),
           \/ owed' = IF hd.tx = NoTx THEN owed \ {hd.id} ELSE owed
           \/ owed' = owed /\ hd.tx = NoTx /\ cb # "set"
    PROVE  OwedStep
<1>1. inflight \in Seq(Entries) /\ cb \in {"unset", "set", "taken"}
  BY DEF SinkInv, TypeOK
<1>2. hd = inflight[1] /\ 1 \in DOMAIN inflight
  BY <1>1
<1>3. \A i \in DOMAIN inflight : i # 1 => i - 1 \in DOMAIN inflight' /\ inflight'[i - 1] = inflight[i]
  <2>1. /\ Len(inflight') = Len(inflight) - 1 /\ inflight' \in Seq(Entries)
        /\ \A i \in 1 .. Len(inflight') : inflight'[i] = inflight[i + 1]
    BY <1>1, Shorter
  <2> QED BY <1>1, <2>1
<1>4. CASE owed' = IF hd.tx = NoTx THEN owed \ {hd.id} ELSE owed
  <2>1. ASSUME NEW id \in owed', Queued(id)
        PROVE  Queued(id)'
    <3>1. PICK i \in DOMAIN inflight : inflight[i].id = id /\ inflight[i].tx = NoTx
      BY <2>1 DEF Queued
    <3>2. i # 1
      BY <1>2, <1>4, <2>1, <3>1
    <3> QED BY <1>3, <3>1, <3>2, Zenon DEF Queued
  <2>2. owed' \subseteq owed
    BY <1>4
  <2> QED BY <2>1, <2>2 DEF OwedStep
<1>5. CASE owed' = owed /\ hd.tx = NoTx /\ cb # "set"
  <2>1. ~NoneOwed
    BY <1>2, <1>5 DEF NoneOwed
  <2>2. owed = {}
    BY <1>1, <1>5, <2>1, ZenonT(30) DEF AckInv
  <2> QED BY <1>5, <2>2 DEF OwedStep
<1> QED BY <1>4, <1>5

\* The ack of a peer that answers in order: an entry that awaits the callback is not
\* the one it mismatches.
LEMMA PeerAckOwed ==
    ASSUME SinkInv, AckInv, peer_ack
    PROVE  OwedStep
<1>1. /\ inflight \in Seq(Entries) /\ unacked \in Seq(Packets) /\ unacked # <<>>
      /\ cb \in {"unset", "set", "taken"}
  BY DEF SinkInv, TypeOK, peer_ack
<1>2. PICK a : a = Head(unacked) /\ a = unacked[1] /\ pkt_ack(a)
  BY <1>1 DEF peer_ack
<1>3. CASE inflight = <<>> /\ pkt_ack_err(<<>>, inflight_ids)
  <2>1. \A i \in DOMAIN inflight : FALSE
    BY <1>3
  <2> QED BY <1>1, <1>3, <2>1, ClearsOwed DEF pkt_ack_err
<1>4. PICK hd : hd = Head(inflight)
  BY Zenon
<1>5. ASSUME inflight # <<>>, hd.id # a.id \/ hd.tp # a.tp, NEW ids, pkt_ack_err(Tail(inflight), ids)
      PROVE  OwedStep
  <2>1. hd = inflight[1]
    BY <1>1, <1>4, <1>5
  <2>2. ~Mirrors
    <3>1. 1 \in 1 .. Len(unacked)
      BY <1>1
    <3>2. Mirrors => a = [id |-> hd.id, tp |-> hd.tp]
      BY <1>2, <2>1, <3>1, Zenon DEF Mirrors
    <3> QED BY <1>5, <3>2
  <2>3. NoneOwed
    BY <2>2 DEF AckInv
  <2>4. clear_queues(Tail(inflight))
    BY <1>5 DEF pkt_ack_err
  <2> QED BY <1>1, <2>3, <2>4, ClearsOwed DEF NoneOwed
<1>6. CASE inflight # <<>> /\ pkt_ack_ok(hd)
  BY <1>4, <1>6, TakesOwed, ZenonT(30) DEF pkt_ack_ok
<1>7. CASE inflight # <<>> /\ hd.tx = NoTx /\ cb # "set" /\ pkt_ack_panic(hd)
  BY <1>4, <1>7, TakesOwed DEF pkt_ack_panic
<1> QED BY <1>2, <1>3, <1>4, <1>5, <1>6, <1>7 DEF pkt_ack

\* Every step but an ack out of turn.
LEMMA NextOwed ==
    ASSUME SinkInv, AckInv, SubscriptionsEncode, [Next]_vars, ~bad_ack
    PROVE  OwedStep
<1>1. cb \in {"unset", "set", "taken"}
  BY DEF SinkInv, TypeOK
<1>2. CASE user_close \/ shutdown
  <2>1. clear_queues(inflight)
    BY <1>2 DEF user_close, shutdown, close
  <2> QED BY <1>1, <2>1, ClearsOwed
<1>3. CASE peer_ack
  BY <1>3, PeerAckOwed
<1>4. CASE UNCHANGED vars
  <2>1. Keeps
    BY <1>4, SameKeeps DEF vars
  <2> QED BY <2>1, KeepsOwed
<1>5. CASE QueueStep
  BY <1>5, KeepsOwed, SendsOwed DEF QueueStep
<1> QED BY <1>2, <1>3, <1>4, <1>5, NextQueues

-----------------------------------------------------------------------------
(* No wake-up is lost. *)

\* A woken task goes on by sending its packet.
WokenSends == \A o \in Ops : st[o] = "granted" /\ st'[o] # "granted" => st'[o] = "sent"

WakeInv == IsFiniteSet(Granted) /\ WakeAccounting

\* A wake-up that leaves waiters in the queue has popped n live ones.
LEMMA PopCountEnough ==
    ASSUME FiniteFacts, TypeOK, NEW n \in Nat, PopCount(n) < Len(waiters)
    PROVE  Cardinality({j \in 1 .. PopCount(n) : waiters[j] # Dead}) >= n
<1> DEFINE C(i) == {j \in 1 .. i - 1 : waiters[j] # Dead}
           P == {i \in DOMAIN waiters : Cardinality(C(i)) < n}
           k == PopCount(n)
<1>1. Len(waiters) \in Nat /\ DOMAIN waiters = 1 .. Len(waiters) /\ k \in Nat
  BY PopCountBound DEF TypeOK
<1>2. k = Cardinality(P)
  BY DEF PopCount
<1>3. \A i \in Nat : IsFiniteSet(C(i)) /\ Cardinality(C(i)) \in Nat
  <2> TAKE i \in Nat
  <2>1. C(i) \in SUBSET Nat /\ \A j \in C(i) : j <= i
    OBVIOUS
  <2> HIDE DEF C
  <2> QED BY <2>1, CountBelow, CountType, Zenon
<1>4. \A i, m \in Nat : i <= m => Cardinality(C(i)) <= Cardinality(C(m))
  <2> SUFFICES ASSUME NEW i \in Nat, NEW m \in Nat, i <= m
               PROVE  Cardinality(C(i)) <= Cardinality(C(m))
    OBVIOUS
  <2>1. C(i) \in SUBSET C(m)
    OBVIOUS
  <2> HIDE DEF C
  <2> QED BY <2>1, <1>3, CountPart
<1>5. SUFFICES ASSUME ~(Cardinality(C(k + 1)) >= n)
               PROVE  FALSE
  <2>1. C(k + 1) = {j \in 1 .. k : waiters[j] # Dead}
    BY <1>1
  <2> QED BY <2>1, Zenon
<1>6. 1 .. k + 1 \in SUBSET P
  <2> SUFFICES ASSUME NEW i \in 1 .. k + 1
               PROVE  i \in P
    OBVIOUS
  <2>1. i \in DOMAIN waiters /\ i \in Nat /\ k + 1 \in Nat /\ i <= k + 1
    BY <1>1
  <2>2. /\ Cardinality(C(i)) <= Cardinality(C(k + 1))
        /\ Cardinality(C(i)) \in Nat /\ Cardinality(C(k + 1)) \in Nat
    BY <2>1, <1>3, <1>4, Zenon
  <2>3. Cardinality(C(i)) < n
    <3> HIDE DEF C, k
    <3> QED BY <2>2, <1>5, n \in Nat
  <2> HIDE DEF C
  <2> QED BY <2>1, <2>3
<1>7. IsFiniteSet(P)
  <2>1. P \in SUBSET Nat /\ \A i \in P : i <= Len(waiters)
    BY <1>1
  <2> HIDE DEF P
  <2> QED BY <1>1, <2>1, CountBelow, Zenon
<1>8. Cardinality(1 .. k + 1) = k + 1
  <2> HIDE DEF k
  <2>1. 1 \in Int /\ k + 1 \in Int
    BY <1>1
  <2> QED BY <1>1, <2>1, CountInterval
<1>9. k + 1 <= Cardinality(P)
  <2> HIDE DEF P, k
  <2> QED BY <1>6, <1>7, <1>8, CountPart, Zenon
<1> HIDE DEF P, k
<1> QED BY <1>1, <1>2, <1>9

\* The tasks woken are blocked ones, one for each live channel popped: they join the
\* granted tasks, and n of them do unless no live waiter is left.
LEMMA WakeGrants ==
    ASSUME FiniteFacts, SinkInv, NEW n \in Nat, NEW s \in [Ops -> Active \cup Outcomes], Wake(n, s),
           IsFiniteSet(Granted), \A o \in Ops : s[o] = "granted" <=> st[o] = "granted"
    PROVE  /\ IsFiniteSet(Granted')
           /\ Cardinality(Granted') \in Nat /\ Cardinality(Granted) \in Nat
           /\ Live(waiters') # {} => Cardinality(Granted') >= Cardinality(Granted) + n
<1>1. TypeOK /\ ChannelsMatch
  BY DEF SinkInv
<1> DEFINE k == PopCount(n)
           J == {j \in 1 .. k : waiters[j] # Dead}
           W == {waiters[j] : j \in J}
<1>2. /\ k \in 0 .. Len(waiters) /\ Len(waiters) \in Nat /\ DOMAIN waiters = 1 .. Len(waiters)
      /\ k < Len(waiters) => Cardinality(J) >= n
  <2>1. k \in 0 .. Len(waiters)
    BY <1>1, PopCountBound
  <2>2. k < Len(waiters) => Cardinality(J) >= n
    BY <1>1, PopCountEnough, Zenon
  <2> QED BY <2>1, <2>2, <1>1 DEF TypeOK
<1>3. /\ waiters' = SubSeq(waiters, k + 1, Len(waiters))
      /\ st' = [o \in Ops |-> IF o \in {waiters[i] : i \in 1 .. k} THEN "granted" ELSE s[o]]
  BY DEF Wake
<1> HIDE DEF k
<1>4. \A j \in 1 .. Len(waiters) : waiters[j] \in Ops \cup {Dead}
  BY <1>1, SMTT(30) DEF TypeOK
<1>5. W \subseteq Ops /\ \A o \in Ops : o \in {waiters[i] : i \in 1 .. k} <=> o \in W
  BY <1>2, <1>4, SinkAssumption, SMTT(30)
<1>6. Granted' = Granted \cup W
  BY <1>3, <1>5, ZenonT(30) DEF Granted
<1>7. Granted \cap W = {}
  <2>1. \A o \in W : st[o] = "blocked"
    BY <1>1, <1>2, <1>5 DEF ChannelsMatch
  <2> QED BY <2>1, ZenonT(30) DEF Granted
<1>8. IsFiniteSet(J)
  <2>1. J \in SUBSET Nat /\ k \in Nat /\ \A j \in J : j <= k
    BY <1>2
  <2> HIDE DEF J
  <2> QED BY <2>1, CountBelow, Zenon
<1>9. IsFiniteSet(W) /\ Cardinality(W) = Cardinality(J)
  <2> DEFINE f == [j \in J |-> waiters[j]]
  <2>1. \A i, j \in J : waiters[i] = waiters[j] => i = j
    BY <1>1, <1>2, <1>4, SMTT(30) DEF ChannelsMatch
  <2>2. f \in [J -> W] /\ \A i, j \in J : f[i] = f[j] => i = j
    BY <2>1, ZenonT(30)
  <2>3. \A w \in W : \E j \in J : f[j] = w
    OBVIOUS
  <2> HIDE DEF f, J, W
  <2>4. Pairs(f, J, W)
    BY <2>2, <2>3, Zenon DEF Pairs
  <2> QED BY <1>8, <2>4, CountPaired, ZenonT(30)
<1>10. /\ IsFiniteSet(Granted') /\ Cardinality(Granted') \in Nat /\ Cardinality(Granted) \in Nat
       /\ Cardinality(Granted') = Cardinality(Granted) + Cardinality(J)
       /\ Cardinality(J) \in Nat
  <2> HIDE DEF J, W
  <2>1. /\ IsFiniteSet(Granted \cup W)
        /\ Cardinality(Granted \cup W)
             = Cardinality(Granted) + Cardinality(W) - Cardinality(Granted \cap W)
    BY <1>9, CountUnion, Zenon
  <2>2. Cardinality(Granted \cap W) = 0
    BY <1>7, CountNone, ZenonT(30)
  <2>3. Cardinality(Granted) \in Nat /\ Cardinality(J) \in Nat /\ Cardinality(Granted \cup W) \in Nat
    BY <2>1, <1>8, CountType
  <2> QED BY <2>1, <2>2, <2>3, <1>6, <1>9
<1> HIDE DEF J
<1>11. Live(waiters') # {} => k < Len(waiters)
  <2>1. CASE k = Len(waiters)
    <3>1. waiters' = <<>>
      BY <1>1, <1>2, <1>3, <2>1 DEF TypeOK
    <3> QED BY <3>1, SMTT(30) DEF Live
  <2>2. k \in 0 .. Len(waiters) /\ Len(waiters) \in Nat
    BY <1>2, Zenon
  <2>3. k = Len(waiters) \/ k < Len(waiters)
    BY <2>2
  <2> QED BY <2>1, <2>3, Zenon
<1> QED BY <1>2, <1>10, <1>11

\* A step that wakes waiters keeps the invariant when the tasks woken make up for the
\* credit there is.
LEMMA WakesWake ==
    ASSUME FiniteFacts, SinkInv, SinkInv', WakeInv, NEW n \in Nat, NEW s \in [Ops -> Active \cup Outcomes],
           Wake(n, s), \A o \in Ops : s[o] = "granted" <=> st[o] = "granted",
           ~closed' /\ ~wrb' /\ Live(waiters') # {} =>
             Len(inflight') + Cardinality(Granted) + n >= cap'
    PROVE  WakeInv'
<1>1. IsFiniteSet(Granted)
  BY DEF WakeInv
<1>2. /\ IsFiniteSet(Granted')
      /\ Cardinality(Granted') \in Nat /\ Cardinality(Granted) \in Nat
      /\ Live(waiters') # {} => Cardinality(Granted') >= Cardinality(Granted) + n
  BY <1>1, WakeGrants, ZenonT(30)
<1>3. Len(inflight') \in Nat /\ cap' \in Nat
  BY SinkAssumption DEF SinkInv, TypeOK
<1>4. ~closed' /\ ~wrb' /\ Live(waiters') # {} => Len(inflight') + Cardinality(Granted') >= cap'
  BY <1>2, <1>3, SMTT(30)
<1> QED BY <1>2, <1>4 DEF WakeInv, WakeAccounting

\* A step that changes neither the credit nor the tasks woken keeps the invariant,
\* unless it adds a waiter.
LEMMA SameWake ==
    ASSUME SinkInv, SinkInv', WakeInv, cap' = cap, Len(inflight') = Len(inflight),
           \A o \in Ops : st'[o] = "granted" <=> st[o] = "granted",
           closed => closed', wrb => wrb', Live(waiters') # {} => Live(waiters) # {}
    PROVE  WakeInv'
<1>1. Granted' = Granted
  BY DEF Granted
<1> QED BY <1>1, Zenon DEF WakeInv, WakeAccounting

\* A step that closes the connection and wakes nobody keeps the invariant.
LEMMA ClosesWake ==
    ASSUME FiniteFacts, WakeInv, closed' = TRUE, \A o \in Ops : st'[o] = "granted" => st[o] = "granted"
    PROVE  WakeInv'
<1>1. Granted' \in SUBSET Granted
  BY DEF Granted
<1>2. IsFiniteSet(Granted')
  BY <1>1, CountPart DEF WakeInv
<1> QED BY <1>2 DEF WakeInv, WakeAccounting

\* The synchronous part of a request, of a task that called or was woken: what it
\* sends it registers.
Requests(o) ==
    /\ UNCHANGED <<waiters, env>>
    /\ \A p \in Ops : p # o => st'[p] = st[p]
    /\ st'[o] # "granted"
    /\ Len(inflight') \in {Len(inflight), Len(inflight) + 1}
    /\ st'[o] = "sent" => Len(inflight') = Len(inflight) + 1

\* A request may end without a packet.
LEMMA RequestEnds ==
    ASSUME SinkInv, NEW o \in Ops, NEW k, NEW s, s \notin {"granted", "sent"}, Becomes(o, k, s),
           UNCHANGED <<inflight, waiters, env>>
    PROVE  Requests(o)
BY ZenonT(30) DEF SinkInv, TypeOK, Becomes, Requests

\* Or it registers one, for its own task, for nobody, or for a receiver it dropped.
LEMMA RequestRegisters ==
    ASSUME SinkInv, NEW o \in Ops, NEW k, NEW s, s # "granted", Becomes(o, k, s),
           NEW id \in Ids, NEW tx \in Ops \cup {Dead, NoTx}, NEW tp \in AckTypes,
           Register(id, tx, tp), UNCHANGED <<waiters, env>>
    PROVE  Requests(o)
<1>1. inflight \in Seq(Entries) /\ st \in [Ops -> Active \cup Outcomes]
  BY DEF SinkInv, TypeOK
<1>2. [id |-> id, tx |-> tx, tp |-> tp] \in Entries
  BY ZenonT(30) DEF Entries
<1>3. Len(inflight') = Len(inflight) + 1
  BY <1>1, <1>2, Longer DEF Register
<1>4. st'[o] = s /\ \A p \in Ops : p # o => st'[p] = st[p]
  BY <1>1 DEF Becomes
<1> QED BY <1>3, <1>4 DEF Requests

\* A request takes the place of the wake-up it was made with, if any.
LEMMA RequestsWake ==
    ASSUME FiniteFacts, SinkInv, SinkInv', WakeInv, WokenSends, NEW o \in Ops, Requests(o)
    PROVE  WakeInv'
<1>1. Granted' = Granted \ {o}
  BY DEF Requests, Granted
<1>2. /\ IsFiniteSet(Granted)
      /\ ~closed /\ ~wrb /\ Live(waiters) # {} => Len(inflight) + Cardinality(Granted) >= cap
  BY DEF WakeInv, WakeAccounting
<1>3. /\ IsFiniteSet(Granted') /\ Cardinality(Granted) \in Nat
      /\ Cardinality(Granted') = IF o \in Granted THEN Cardinality(Granted) - 1 ELSE Cardinality(Granted)
  BY <1>1, <1>2, CountWithout, CountType, ZenonT(30)
<1>4. o \in Granted => Len(inflight') = Len(inflight) + 1
  BY ZenonT(30) DEF Requests, WokenSends, Granted
<1>5. /\ Len(inflight) \in Nat /\ cap \in Nat /\ UNCHANGED <<waiters, cap, wrb, closed>>
      /\ Len(inflight') \in {Len(inflight), Len(inflight) + 1}
  BY SinkAssumption DEF SinkInv, TypeOK, Requests, env
<1>6. Len(inflight') + Cardinality(Granted') >= Len(inflight) + Cardinality(Granted)
  BY <1>3, <1>4, <1>5
<1>7. Len(inflight) + Cardinality(Granted) >= cap => Len(inflight') + Cardinality(Granted') >= cap
  BY <1>3, <1>5, <1>6
<1>8. ~closed' /\ ~wrb' /\ Live(waiters') # {} => Len(inflight') + Cardinality(Granted') >= cap'
  BY <1>2, <1>5, <1>7
<1> QED BY <1>3, <1>8 DEF WakeInv, WakeAccounting

\* What a call or a woken future does between two awaits is a request in that sense.
LEMMA InnerRequests ==
    ASSUME SinkInv, NEW o \in Ops, send_at_least_once_inner(o), UNCHANGED <<waiters, env>>
    PROVE  Requests(o)
<1>1. PICK id \in Ids : wait_packet_response(o, id)
  BY DEF send_at_least_once_inner
<1>2. CASE Becomes(o, "publish", "failed") /\ UNCHANGED inflight
  BY <1>2, RequestEnds
<1>3. CASE Register(id, o, "publish") /\ Becomes(o, "publish", "sent")
  BY <1>3, RequestRegisters DEF AckTypes
<1> QED BY <1>1, <1>2, <1>3 DEF wait_packet_response

\* The same of a subscribe or unsubscribe request.
LEMMA SubscriptionRequests ==
    ASSUME SinkInv, NEW o \in Ops, NEW tp \in AckTypes, send_subscription(o, tp),
           UNCHANGED <<waiters, env>>
    PROVE  Requests(o)
<1>1. PICK id \in Ids : wait_response(o, id, tp)
  BY DEF send_subscription
<1>2. CASE Becomes(o, tp, "failed") /\ UNCHANGED inflight
  BY <1>2, RequestEnds
<1>3. CASE Register(id, o, tp) /\ Becomes(o, tp, "sent")
  BY <1>3, RequestRegisters
<1>4. CASE Register(id, Dead, tp) /\ Becomes(o, tp, "failed")
  BY <1>4, RequestRegisters
<1> QED BY <1>1, <1>2, <1>3, <1>4 DEF wait_response

\* The same of a non-blocking publish.
LEMMA NoBlockRequests ==
    ASSUME SinkInv, NEW o \in Ops, NEW id \in Ids, wait_packet_response_no_block(o, id),
           UNCHANGED <<waiters, env>>
    PROVE  Requests(o)
<1>1. NoBlockOutcome \in {"ok", "failed"}
  BY DEF NoBlockOutcome
<1>2. CASE Becomes(o, "noblock", "failed") /\ UNCHANGED inflight
  BY <1>2, RequestEnds
<1>3. CASE Register(id, NoTx, "publish") /\ Becomes(o, "noblock", NoBlockOutcome)
  BY <1>1, <1>3, RequestRegisters DEF AckTypes
<1> QED BY <1>2, <1>3 DEF wait_packet_response_no_block

\* A call that finds the connection closed ends; one that queues finds the credit used
\* up or write back-pressure.
LEMMA CallWake ==
    ASSUME FiniteFacts, SinkInv, SinkInv', WakeInv, WokenSends, NEW o \in Ops, NEW k, Calls(o, k),
           Disconnected(o, k) \/ wait_readiness(o, k)
    PROVE  WakeInv'
<1>1. UNCHANGED env /\ st[o] # "granted"
  BY DEF Calls, Active
<1>2. CASE Disconnected(o, k)
  BY <1>1, <1>2, RequestEnds, RequestsWake DEF Disconnected
<1>3. CASE wait_readiness(o, k)
  <2>1. UNCHANGED <<inflight, cap, wrb>> /\ (Len(inflight) >= cap \/ wrb)
    BY <1>1, <1>3, SMTT(30) DEF wait_readiness, env
  <2>2. Granted' = Granted
    BY <1>1, <1>3, SMTT(30) DEF wait_readiness, Becomes, Granted
  <2>3. Len(inflight) \in Nat /\ cap \in Nat /\ IsFiniteSet(Granted)
    BY SinkAssumption DEF SinkInv, TypeOK, WakeInv
  <2>4. Cardinality(Granted) \in Nat
    BY <2>3, CountType
  <2>5. wrb' \/ Len(inflight') + Cardinality(Granted') >= cap'
    BY <2>1, <2>2, <2>3, <2>4, SMTT(30)
  <2> QED BY <2>2, <2>3, <2>5 DEF WakeInv, WakeAccounting
<1> QED BY <1>2, <1>3

\* A dropped future, unless it was woken, leaves fewer live waiters.
LEMMA CancelWake ==
    ASSUME SinkInv, SinkInv', WakeInv, WokenSends, NEW o \in Ops, cancel(o)
    PROVE  WakeInv'
<1>1. st \in [Ops -> Active \cup Outcomes] /\ st' = [st EXCEPT ![o] = "failed"]
  BY DEF SinkInv, TypeOK, cancel, Becomes
<1>2. \A p \in Ops : st'[p] = "granted" <=> st[p] = "granted"
  BY <1>1, ZenonT(30) DEF WokenSends
<1>3. UNCHANGED <<cap, wrb, closed>> /\ Len(inflight') = Len(inflight)
  <2>1. DOMAIN inflight' = DOMAIN inflight /\ UNCHANGED <<cap, wrb, closed>>
    BY DEF cancel, env
  <2> QED BY <2>1 DEF SinkInv, TypeOK
<1>4. Live(waiters') # {} => Live(waiters) # {}
  BY DEF cancel, Live
<1> QED BY <1>2, <1>3, <1>4, SameWake

\* An ack that is delivered frees one slot and wakes one waiter; any other ack closes
\* the connection.
LEMMA PktAckWake ==
    ASSUME FiniteFacts, SinkInv, SinkInv', WakeInv, NEW a, pkt_ack(a)
    PROVE  WakeInv'
<1>1. ASSUME NEW q, NEW ids, pkt_ack_err(q, ids)
      PROVE  WakeInv'
  <2>1. closed' = TRUE /\ \A o \in Ops : st'[o] = "granted" => st[o] = "granted"
    BY <1>1 DEF pkt_ack_err, clear_queues
  <2> QED BY <2>1, ClosesWake
<1>2. ASSUME pkt_ack_panic(Head(inflight))
      PROVE  WakeInv'
  BY <1>2, ClosesWake DEF pkt_ack_panic
<1>3. ASSUME inflight # <<>>, pkt_ack_ok(Head(inflight))
      PROVE  WakeInv'
  <2> DEFINE acked == [o \in Ops |-> IF o = Head(inflight).tx THEN "ok" ELSE st[o]]
  <2>1. /\ Wake(1, acked) /\ inflight' = Tail(inflight) /\ UNCHANGED <<cap, wrb, closed>>
    BY <1>3, ZenonT(30) DEF pkt_ack_ok, pkt_ack
  <2>2. /\ inflight \in Seq(Entries) /\ waiters \in Seq(Ops \cup {Dead})
        /\ st \in [Ops -> Active \cup Outcomes] /\ cap \in Nat
    BY SinkAssumption DEF SinkInv, TypeOK
  <2>3. Len(inflight') = Len(inflight) - 1 /\ Len(inflight) \in Nat
        /\ Head(inflight) = inflight[1] /\ 1 \in DOMAIN inflight
    BY <1>3, <2>1, <2>2, Shorter
  <2>4. \A o \in Ops : acked[o] = "granted" <=> st[o] = "granted"
    <3>1. \A o \in Ops : o = Head(inflight).tx => st[o] = "sent"
      BY <2>3 DEF SinkInv, ChannelsMatch
    <3> QED BY <3>1, ZenonT(30)
  <2>5. acked \in [Ops -> Active \cup Outcomes]
    BY <2>2 DEF Outcomes
  <2> HIDE DEF acked
  <2>6. Live(waiters') # {} => Live(waiters) # {}
    <3>1. PICK k \in 0 .. Len(waiters) : Woken(k, acked)
      BY <2>1, WakeEffect, ZenonT(30) DEF SinkInv
    <3>2. /\ DOMAIN waiters' = 1 .. Len(waiters) - k /\ Len(waiters) \in Nat
          /\ \A i \in 1 .. Len(waiters) - k : waiters'[i] = waiters[i + k]
      BY <3>1, SMTT(30) DEF Woken
    <3>3. \A i \in DOMAIN waiters' : i + k \in DOMAIN waiters /\ waiters'[i] = waiters[i + k]
      BY <2>2, <3>2
    <3> QED BY <3>3 DEF Live
  <2>7. Cardinality(Granted) \in Nat
    BY CountType DEF WakeInv
  <2>8. ~closed /\ ~wrb /\ Live(waiters) # {} => Len(inflight) + Cardinality(Granted) >= cap
    BY DEF WakeInv, WakeAccounting
  <2>9. Len(inflight) + Cardinality(Granted) >= cap => Len(inflight') + Cardinality(Granted) + 1 >= cap
    BY <2>2, <2>3, <2>7
  <2>10. ~closed' /\ ~wrb' /\ Live(waiters') # {} =>
           Len(inflight') + Cardinality(Granted) + 1 >= cap'
    BY <2>1, <2>6, <2>8, <2>9, SMTT(30)
  <2> QED BY <2>1, <2>4, <2>5, <2>10, WakesWake, ZenonT(30)
<1>4. \/ pkt_ack_err(<<>>, inflight_ids)
      \/ pkt_ack_err(Tail(inflight), inflight_ids)
      \/ pkt_ack_err(Tail(inflight), inflight_ids \ {a.id})
      \/ pkt_ack_panic(Head(inflight))
      \/ inflight # <<>> /\ pkt_ack_ok(Head(inflight))
  BY DEF pkt_ack
<1> QED BY <1>1, <1>2, <1>3, <1>4, ZenonT(30)

\* Every step in which woken tasks go on to send keeps the invariant.
LEMMA NextWake ==
    ASSUME FiniteFacts, SinkInv, SinkInv', WakeInv, [Next]_vars, [WokenSends]_vars
    PROVE  WakeInv'
<1>1. CASE UNCHANGED vars
  BY <1>1, SameWake DEF vars
<1> SUFFICES ASSUME Next, WokenSends
             PROVE  WakeInv'
  BY <1>1
<1>2. ASSUME NEW o \in Ops, send_at_least_once(o) PROVE WakeInv'
  <2>1. Calls(o, "publish") /\ UNCHANGED env
    BY <1>2 DEF send_at_least_once, Calls
  <2>2. CASE Immediate /\ send_at_least_once_inner(o)
    BY <2>1, <2>2, InnerRequests, RequestsWake DEF Immediate
  <2> QED BY <1>2, <2>1, <2>2, CallWake DEF send_at_least_once
<1>3. ASSUME NEW o \in Ops, NEW k \in {"subscribe", "unsubscribe"}, Calls(o, k),
             \/ Disconnected(o, k) \/ wait_readiness(o, k)
             \/ Immediate /\ send_subscription(o, k)
      PROVE  WakeInv'
  <2>1. UNCHANGED env /\ k \in AckTypes
    BY <1>3 DEF Calls, AckTypes
  <2>2. CASE Immediate /\ send_subscription(o, k)
    BY <2>1, <2>2, SubscriptionRequests, RequestsWake DEF Immediate
  <2> QED BY <1>3, <2>2, CallWake
<1>4. ASSUME NEW o \in Ops, subscribe(o) \/ unsubscribe(o) PROVE WakeInv'
  BY <1>3, <1>4 DEF subscribe, unsubscribe
<1>5. ASSUME NEW o \in Ops, ready(o) PROVE WakeInv'
  <2>1. Calls(o, "ready") /\ UNCHANGED env
    BY <1>5 DEF ready, Calls
  <2>2. CASE Becomes(o, "ready", "ok") /\ UNCHANGED <<inflight, waiters>>
    BY <2>1, <2>2, RequestEnds, RequestsWake, ZenonT(30)
  <2> QED BY <1>5, <2>1, <2>2, CallWake DEF ready, Immediate
<1>6. ASSUME NEW o \in Ops, send_at_least_once_no_block(o) PROVE WakeInv'
  <2>1. Calls(o, "noblock") /\ UNCHANGED env
    BY <1>6 DEF send_at_least_once_no_block, Calls
  <2>2. CASE Becomes(o, "noblock", "failed") /\ UNCHANGED <<inflight, waiters>>
    BY <2>1, <2>2, RequestEnds, RequestsWake
  <2>3. CASE UNCHANGED waiters /\ \E id \in Ids : wait_packet_response_no_block(o, id)
    BY <2>1, <2>3, NoBlockRequests, RequestsWake, ZenonT(30)
  <2> QED BY <1>6, <2>1, <2>2, <2>3, CallWake DEF send_at_least_once_no_block
<1>7. ASSUME NEW o \in Ops, resume(o) PROVE WakeInv'
  <2>1. UNCHANGED <<waiters, env>>
    BY <1>7 DEF resume
  <2>2. CASE send_at_least_once_inner(o)
    BY <2>1, <2>2, InnerRequests, RequestsWake
  <2>3. CASE kind[o] \in {"subscribe", "unsubscribe"} /\ send_subscription(o, kind[o])
    BY <2>1, <2>3, SubscriptionRequests, RequestsWake DEF AckTypes
  <2>4. CASE Becomes(o, "ready", "ok") /\ UNCHANGED inflight
    BY <2>1, <2>4, RequestEnds, RequestsWake
  <2> QED BY <1>7, <2>2, <2>3, <2>4, ZenonT(30) DEF resume
<1>8. CASE set_publish_ack \/ enable_wr_backpressure \/ peer_gone
  <2>1. UNCHANGED <<cap, inflight, waiters, st>> /\ (closed => closed') /\ (wrb => wrb')
    BY <1>8, SMTT(30) DEF set_publish_ack, enable_wr_backpressure, peer_gone,
       queues
  <2> QED BY <2>1, SameWake, ZenonT(30)
<1>9. /\ st \in [Ops -> Active \cup Outcomes] /\ Len(inflight) \in Nat /\ Len(inflight') \in Nat
      /\ cap \in Nat /\ cap' \in Nat /\ Cap \in Nat /\ Cardinality(Granted) \in Nat
  BY SinkAssumption, CountType, SMTT(30) DEF SinkInv, TypeOK, WakeInv
<1>10. CASE set_cap
  <2>1. Wake(Cap, st) /\ cap' = Cap
    BY <1>10 DEF set_cap
  <2>2. Len(inflight') + Cardinality(Granted) + Cap >= cap'
    BY <1>9, <2>1
  <2> QED BY <1>9, <2>1, <2>2, WakesWake
<1>11. CASE disable_wr_backpressure
  <2>1. UNCHANGED <<cap, inflight, closed>>
    BY <1>11 DEF disable_wr_backpressure
  <2>2. CASE Len(inflight) < cap
    <3>1. PICK n : n = cap - Len(inflight)
      BY Zenon
    <3>2. n \in Nat /\ Len(inflight') + Cardinality(Granted) + n >= cap'
      BY <1>9, <2>1, <2>2, <3>1
    <3>3. Wake(n, st)
      BY <1>11, <2>2, <3>1 DEF disable_wr_backpressure
    <3> QED BY <1>9, <3>2, <3>3, WakesWake, ZenonT(30)
  <2>3. CASE ~(Len(inflight) < cap)
    <3>1. UNCHANGED <<waiters, st>>
      BY <1>11, <2>3 DEF disable_wr_backpressure
    <3>2. Granted' = Granted
      BY <3>1 DEF Granted
    <3>3. Len(inflight') + Cardinality(Granted') >= cap'
      BY <1>9, <2>1, <2>3, <3>2, SMTT(30)
    <3> QED BY <3>2, <3>3 DEF WakeInv, WakeAccounting
  <2> QED BY <2>2, <2>3
<1>12. CASE user_close \/ shutdown
  <2>1. closed' = TRUE /\ \A o \in Ops : st'[o] = "granted" => st[o] = "granted"
    BY <1>12 DEF user_close, shutdown, close, clear_queues
  <2> QED BY <2>1, ClosesWake, ZenonT(30)
<1>13. CASE peer_ack \/ bad_ack
  BY <1>13, PktAckWake DEF peer_ack, bad_ack
<1> QED BY <1>2, <1>4, <1>5, <1>6, <1>7, <1>8, <1>10, <1>11, <1>12, <1>13,
           CancelWake, SMTT(30) DEF Next

\* A woken task passes its wake-up to nobody when its caller drops it, when it called
\* ready, and when its packet is refused because the id is in use or by the codec.
WakeUpUnused ==
    \E o \in Ops :
        /\ st[o] = "granted"
        /\ \/ cancel(o)
           \/ resume(o) /\ kind[o] = "ready"
           \/ /\ resume(o)
              /\ st'[o] = "failed"
              /\ MayFail(kind[o]) \/ \E id \in inflight_ids : next_id(id)

\* A woken task that runs sends its packet, or is one of those.
LEMMA ResumeSends ==
    ASSUME SinkInv, NEW o \in Ops, resume(o), ~WakeUpUnused
    PROVE  WokenSends
<1>1. st \in [Ops -> Active \cup Outcomes] /\ st[o] = "granted" /\ kind[o] # "ready"
  BY DEF SinkInv, TypeOK, resume, WakeUpUnused
<1>2. ASSUME NEW k, NEW s, Becomes(o, k, s), s = "sent"
      PROVE  WokenSends
  BY <1>1, <1>2 DEF Becomes, WokenSends
<1>3. ASSUME NEW k, Becomes(o, k, "failed"), MayFail(kind[o]) \/ \E id \in inflight_ids : next_id(id)
      PROVE  FALSE
  BY <1>1, <1>3 DEF Becomes, WakeUpUnused
<1>4. CASE kind[o] = "publish" /\ send_at_least_once_inner(o)
  <2>1. PICK id \in Ids : next_id(id) /\ wait_packet_response(o, id)
    BY <1>4 DEF send_at_least_once_inner
  <2> QED BY <1>2, <1>3, <1>4, <2>1 DEF wait_packet_response
<1>5. CASE kind[o] \in {"subscribe", "unsubscribe"} /\ send_subscription(o, kind[o])
  <2>1. PICK id \in Ids : next_id(id) /\ wait_response(o, id, kind[o])
    BY <1>5, ZenonT(30) DEF send_subscription
  <2> QED BY <1>2, <1>3, <2>1 DEF wait_response
<1> QED BY <1>1, <1>4, <1>5, ZenonT(30) DEF resume

\* No other step ends what a woken task is about to do.
LEMMA WokenSendsUnless ==
    ASSUME SinkInv, [Next]_vars, ~WakeUpUnused
    PROVE  [WokenSends]_vars
<1> SUFFICES ASSUME Next
             PROVE  WokenSends
  OBVIOUS
<1>1. st \in [Ops -> Active \cup Outcomes]
  BY DEF SinkInv, TypeOK
<1>2. ASSUME NEW o \in Ops, st[o] # "granted", \E k, s : Becomes(o, k, s)
      PROVE  WokenSends
  BY <1>2, SMTT(30) DEF Becomes, WokenSends
<1>3. ASSUME NEW n, NEW s, Wake(n, s), \A o \in Ops : st[o] = "granted" => s[o] = "granted"
      PROVE  WokenSends
  BY <1>3, ZenonT(30) DEF Wake, WokenSends
<1>4. ASSUME NEW q, clear_queues(q)
      PROVE  WokenSends
  <2>1. \A o \in Ops : o \in Senders => st[o] \in {"sent", "blocked"}
    BY DEF SinkInv, ChannelsMatch, Senders
  <2> QED BY <1>4, <2>1, ZenonT(30) DEF clear_queues, WokenSends
<1>5. ASSUME NEW o \in Ops,
             \/ send_at_least_once(o) \/ subscribe(o) \/ unsubscribe(o)
             \/ ready(o) \/ send_at_least_once_no_block(o)
      PROVE  WokenSends
  <2>1. st[o] # "granted"
    BY <1>5 DEF send_at_least_once, subscribe, unsubscribe, ready, send_at_least_once_no_block,
                Calls, Active
  <2>2. \E k, s : Becomes(o, k, s)
    BY <1>5, Zenon
    DEF send_at_least_once, subscribe, unsubscribe, ready, send_at_least_once_no_block,
        Disconnected, wait_readiness, send_at_least_once_inner, send_subscription,
        wait_packet_response, wait_response, wait_packet_response_no_block
  <2> QED BY <1>2, <2>1, <2>2, SMTT(30)
<1>6. ASSUME NEW o \in Ops, cancel(o)
      PROVE  WokenSends
  <2>1. st[o] # "granted"
    BY <1>6, Zenon DEF WakeUpUnused
  <2> QED BY <1>2, <1>6, <2>1, ZenonT(30) DEF cancel
<1>7. CASE set_publish_ack \/ enable_wr_backpressure \/ peer_gone
  BY <1>7 DEF set_publish_ack, enable_wr_backpressure, peer_gone, WokenSends
<1>8. CASE set_cap \/ disable_wr_backpressure
  <2>1. (\E n : Wake(n, st)) \/ UNCHANGED st
    BY <1>8, Zenon DEF set_cap, disable_wr_backpressure
  <2> QED BY <1>3, <2>1 DEF WokenSends
<1>9. CASE user_close \/ shutdown
  BY <1>4, <1>9 DEF user_close, shutdown, close
<1>10. ASSUME NEW a, pkt_ack(a)
       PROVE  WokenSends
  <2>1. ASSUME inflight # <<>>, pkt_ack_ok(Head(inflight))
        PROVE  WokenSends
    <3>1. Head(inflight) = inflight[1] /\ 1 \in DOMAIN inflight
      BY <2>1, SMTT(30)
    <3>2. \A o \in Ops : st[o] = "granted" => o # Head(inflight).tx
      BY <3>1, SMTT(30) DEF SinkInv, ChannelsMatch
    <3> QED BY <1>3, <2>1, <3>2 DEF pkt_ack_ok
  <2>2. \/ \E q : clear_queues(q)
        \/ UNCHANGED st
        \/ inflight # <<>> /\ pkt_ack_ok(Head(inflight))
    BY <1>10, ZenonT(30) DEF pkt_ack, pkt_ack_err, pkt_ack_panic
  <2> QED BY <1>4, <2>1, <2>2, ZenonT(30) DEF WokenSends
<1> QED BY <1>5, <1>6, <1>7, <1>8, <1>9, <1>10, ResumeSends DEF Next, peer_ack, bad_ack

-----------------------------------------------------------------------------
(* What holds of every behaviour. *)

INSTANCE FiniteSetTheorems

\* The facts about finite sets.
LEMMA Finite == FiniteFacts
<1>1. ASSUME NEW S, NEW T, NEW f, IsFiniteSet(S), Pairs(f, S, T)
      PROVE  IsFiniteSet(T) /\ Cardinality(T) = Cardinality(S)
  <2>1. f \in Bijection(S, T)
    BY <1>1 DEF Pairs, Bijection, Injection, IsInjective, Surjection
  <2> QED BY <1>1, <2>1, FS_Bijection, ZenonT(30) DEF ExistsBijection
<1>2. \A S : IsFiniteSet(S) => Cardinality(S) \in Nat
  BY FS_CardinalityType, Zenon
<1>3. \A S : IsFiniteSet(S) => \A T \in SUBSET S : IsFiniteSet(T) /\ Cardinality(T) <= Cardinality(S)
  BY FS_Subset, Zenon
<1>4. \A a, b \in Int : IsFiniteSet(a .. b) /\ Cardinality(a .. b) = IF a > b THEN 0 ELSE b - a + 1
  BY FS_Interval, Zenon
<1>5. IsFiniteSet({}) /\ Cardinality({}) = 0
  BY FS_EmptySet, Zenon
<1>6. \A S, x : IsFiniteSet(S) =>
         /\ IsFiniteSet(S \ {x})
         /\ Cardinality(S \ {x}) = IF x \in S THEN Cardinality(S) - 1 ELSE Cardinality(S)
  BY FS_RemoveElement, Zenon
<1>7. \A S, T : IsFiniteSet(S) /\ IsFiniteSet(T) =>
         /\ IsFiniteSet(S \cup T)
         /\ Cardinality(S \cup T) = Cardinality(S) + Cardinality(T) - Cardinality(S \cap T)
  BY FS_Union, Zenon
<1> QED BY <1>1, <1>2, <1>3, <1>4, <1>5, <1>6, <1>7, ZenonT(30) DEF FiniteFacts

\* The inductive invariant of the sink holds in every behaviour.
LEMMA Invariance == Spec => []SinkInv
<1>1. SinkInv /\ [Next]_vars => SinkInv'
  BY Finite, NextPreserves
<1> QED BY <1>1, InitHolds, PTL DEF Spec

\* Every variable of MqttShared keeps its type.
THEOREM SinkTypeOK == Spec => []TypeOK
<1>1. SinkInv => TypeOK BY DEF SinkInv
<1> QED BY <1>1, Invariance, PTL

\* No two packets await an ack under the same id, and PacketIdInUse is answered
\* for every id in flight, for every u16 range, user ids and peers.
THEOREM SinkUniqueIds == Spec => []UniqueIds
<1>1. SinkInv => UniqueIds BY DEF SinkInv
<1> QED BY <1>1, Invariance, PTL

\* Requests and queued channels match one to one: a request that waits has its
\* sender in the queue until it is answered or dropped, and gets the ack of the
\* type it asked for, under any interleaving, cancellation, peer and close.
THEOREM SinkChannelsMatch == Spec => []ChannelsMatch
<1>1. SinkInv => ChannelsMatch BY DEF SinkInv
<1> QED BY <1>1, Invariance, PTL

\* AckInv holds in every behaviour.
LEMMA AckInvariance == ASSUME SubscriptionsEncode PROVE Spec => []AckInv
<1>1. Init => AckInv
  BY DEF Init, AckInv, Mirrors, NoneOwed
<1>2. SinkInv /\ SinkInv' /\ AckInv /\ [Next]_vars => AckInv'
  BY NextAck
<1> QED BY <1>1, <1>2, Invariance, PTL DEF Spec

\* While the connection is up, the queue of expected acks is what the peer has
\* received and not acknowledged, in the same order, for any receive maximum, any ids
\* and acks out of turn, provided that the packets of subscribe and unsubscribe
\* requests can be encoded (send_subscription registers before it encodes).
THEOREM SinkAckOrder == ASSUME SubscriptionsEncode PROVE Spec => []AckOrder
<1>1. SinkInv /\ AckInv => AckOrder
  <2> SUFFICES ASSUME SinkInv, AckInv, ~closed PROVE AckOrder
    BY DEF AckOrder
  <2>1. unacked \in Seq(Packets)
    BY DEF SinkInv, TypeOK
  <2>2. DOMAIN unacked = 1 .. Len(unacked)
    BY <2>1
  <2> QED BY <2>2, ZenonT(30) DEF AckInv, AckOrder, Mirrors
<1> QED BY <1>1, Invariance, AckInvariance, PTL

\* A peer that acknowledges what it received in order is never answered with a
\* protocol error while the connection is up: pkt_ack takes the entry it is for.
THEOREM SinkAcksInTurn ==
    ASSUME SubscriptionsEncode
    PROVE  Spec => [][peer_ack /\ ~closed => inflight # <<>> /\ inflight' = Tail(inflight)]_vars
<1>1. SinkInv /\ AckInv /\ peer_ack /\ ~closed => inflight # <<>> /\ inflight' = Tail(inflight)
  <2> SUFFICES ASSUME SinkInv, AckInv, peer_ack, ~closed
               PROVE  inflight # <<>> /\ inflight' = Tail(inflight)
    OBVIOUS
  <2>1. inflight \in Seq(Entries) /\ unacked \in Seq(Packets) /\ unacked # <<>>
    BY DEF SinkInv, TypeOK, peer_ack
  <2>2. PICK a : a = Head(unacked) /\ a = unacked[1] /\ pkt_ack(a)
    BY <2>1 DEF peer_ack
  <2>3. Mirrors /\ Len(inflight) = Len(unacked)
    BY DEF AckInv
  <2>4. inflight # <<>> /\ 1 \in 1 .. Len(unacked)
    BY <2>1, <2>3
  <2>5. PICK hd : hd = Head(inflight) /\ hd = inflight[1]
    BY <2>1, <2>4
  <2>6. a = [id |-> hd.id, tp |-> hd.tp]
    BY <2>2, <2>3, <2>4, <2>5, ZenonT(30) DEF Mirrors
  <2>7. hd.id = a.id /\ hd.tp = a.tp
    BY <2>6, SMTT(30)
  <2>8. pkt_ack_panic(hd) \/ pkt_ack_ok(hd)
    BY <2>2, <2>4, <2>5, <2>7, ZenonT(30) DEF pkt_ack
  <2> QED BY <2>4, <2>8 DEF pkt_ack_panic, pkt_ack_ok
<1> QED BY <1>1, Invariance, AckInvariance, PTL

\* A non-blocking publish made with a callback installed is told of to the callback,
\* or stays queued, in every step but an ack out of turn: callbacks set again after
\* a close, dropped futures and granted tasks that run on a closed connection
\* included.
THEOREM SinkCallbackOwed == ASSUME SubscriptionsEncode PROVE Spec => CallbackOwed
<1>1. SinkInv /\ AckInv /\ [Next]_vars =>
        [~bad_ack => \A id \in owed' : (id \in owed => Queued(id)) => Queued(id)']_vars
  BY NextOwed DEF OwedStep
<1> QED BY <1>1, Invariance, AckInvariance, PTL DEF Spec, CallbackOwed

\* No wake-up is lost, for any number of tasks and any receive maximum, in every
\* behaviour in which no woken task leaves its wake-up unused: while tasks await credit
\* on an open connection without write back-pressure, the packets in flight and the
\* tasks woken and yet to run use up the receive maximum.
THEOREM SinkWakeAccounting == Spec /\ [][~WakeUpUnused]_vars => []WakeAccounting
<1>1. Init => WakeInv
  <2> SUFFICES ASSUME Init PROVE WakeInv
    OBVIOUS
  <2>1. Granted = {} /\ Live(waiters) = {}
    BY DEF Init, Granted, Live
  <2> QED BY <2>1, Finite, CountNone, SMTT(30) DEF WakeInv, WakeAccounting
<1>2. SinkInv /\ SinkInv' /\ WakeInv /\ [Next]_vars /\ [~WakeUpUnused]_vars => WakeInv'
  <2> SUFFICES ASSUME SinkInv, SinkInv', WakeInv, [Next]_vars, [~WakeUpUnused]_vars
               PROVE  WakeInv'
    OBVIOUS
  <2>1. [WokenSends]_vars
    BY WokenSendsUnless
  <2> QED BY <2>1, Finite, NextWake, ZenonT(30)
<1>3. WakeInv => WakeAccounting
  BY DEF WakeInv
<1> QED BY <1>1, <1>2, <1>3, Invariance, PTL DEF Spec
=============================================================================
