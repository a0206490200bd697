------------------------ MODULE ResponseQueueProofs ------------------------
(***************************************************************************)
(* Lemmas about the queue of responses of io.rs, for every range of        *)
(* response indexes: what its invariant is, what a result and a new call   *)
(* do to the queue and to the indexes that wrap, and what is written.      *)
(* IoDispatcherProofs proves the steps of the dispatcher from them.        *)
(***************************************************************************)
EXTENDS IoDispatcher, TLAPS

Outcome == Results \cup {"Pending"}

\* A call in the queue, with its result when it has finished.
QEntry == [req : Nat \ {0}, res : Outcome]

\* The number of calls whose results were written.
Written == Len(hist) - Len(queue)

\* The types of what handles responses.
RespTypeOK ==
    /\ base \in 0 .. Wrap - 1
    /\ queue \in Seq(QEntry)
    /\ hist \in Seq(Outcome)
    /\ response \in Nat /\ response_idx \in 0 .. Wrap - 1 /\ response_res \in Outcome
    /\ tasks \in SUBSET Task
    /\ out \in Seq(Nat)
    /\ error \in {"None", "Encoder", "Service"}

\* The queue holds the most recent calls, in their order and with their results,
\* from the first unfinished one on.
QueueOfCalls ==
    /\ Len(queue) <= Wrap /\ Len(queue) <= Len(hist)
    /\ \A i \in 1 .. Len(queue) : queue[i] = [req |-> Written + i, res |-> hist[Written + i]]
    /\ queue # <<>> => queue[1].res = "Pending"
    /\ \A n \in 1 .. Written : hist[n] # "Pending"

\* An outstanding call is either polled in place or spawned.
OneTaskPerCall == \A t \in tasks : t.req # response

Increasing(s) == \A j, k \in DOMAIN s : j < k => s[j] < s[k]

Elements(s) == {s[j] : j \in DOMAIN s}

\* The responses of the written calls were given to the encoder in order.
OutOfCalls ==
    /\ Increasing(out)
    /\ Elements(out) = {n \in 1 .. Written : hist[n] \in {"some", "bad"}}

\* What holds of the responses, whatever the dispatcher does.
RespInv == RespTypeOK /\ QueueOfCalls /\ IndexMatch /\ OneTaskPerCall /\ OutOfCalls

\* What the result of a call leaves in error: what there was, or an error that was
\* written; an error of the service unless a later response was refused.
ErrorOfWritten ==
    LET new == Written + 1 .. Written'
    IN  /\ Written <= Written'
        /\ \A n \in new : hist'[n] = "err" =>
             error' = "Service" \/ \E j \in new : j > n /\ hist'[j] = "bad"
        /\ \/ error' = error
           \/ error' = "Service" /\ \E n \in new : hist'[n] = "err"
           \/ error' = "Encoder" /\ \E n \in new : hist'[n] = "bad"

-----------------------------------------------------------------------------
(* Sequences. *)

\* A part of a sequence.
LEMMA SubSeqIs ==
    ASSUME NEW S, NEW s \in Seq(S), NEW m \in 1 .. Len(s) + 1, NEW n \in 0 .. Len(s), m <= n + 1
    PROVE  /\ SubSeq(s, m, n) \in Seq(S) /\ Len(SubSeq(s, m, n)) = n - m + 1
           /\ \A i \in 1 .. n - m + 1 : SubSeq(s, m, n)[i] = s[m + i - 1]
OBVIOUS

\* A sequence with one element replaced.
LEMMA ReplacedIs ==
    ASSUME NEW S, NEW s \in Seq(S), NEW i \in 1 .. Len(s), NEW e \in S
    PROVE  /\ [s EXCEPT ![i] = e] \in Seq(S) /\ Len([s EXCEPT ![i] = e]) = Len(s)
           /\ \A j \in 1 .. Len(s) : [s EXCEPT ![i] = e][j] = IF j = i THEN e ELSE s[j]
<1>1. Len(s) \in Nat /\ DOMAIN s = 1 .. Len(s) /\ \A j \in 1 .. Len(s) : s[j] \in S
  OBVIOUS
<1> DEFINE f == [j \in 1 .. Len(s) |-> IF j = i THEN e ELSE s[j]]
<1>2. [s EXCEPT ![i] = e] = f
  BY <1>1, Zenon
<1>3. f \in Seq(S) /\ Len(f) = Len(s)
  BY <1>1
<1>4. \A j \in 1 .. Len(s) : f[j] = IF j = i THEN e ELSE s[j]
  OBVIOUS
<1> HIDE DEF f
<1> QED BY <1>2, <1>3, <1>4


-----------------------------------------------------------------------------
(* Indexes that wrap. *)

\* The place of an entry is recovered from its index and that of the front.
LEMMA IndexPlace ==
    ASSUME NEW b \in 0 .. Wrap - 1, NEW k \in 0 .. Wrap - 1
    PROVE  wrapping_add(b, k) \in 0 .. Wrap - 1 /\ wrapping_sub(wrapping_add(b, k), b) = k
BY IoAssumption DEF wrapping_add, wrapping_sub

\* Entries keep their indexes when the front moves on.
LEMMA IndexMoves ==
    ASSUME NEW b \in 0 .. Wrap - 1, NEW d \in Nat, NEW k \in Nat, d + k <= Wrap
    PROVE  /\ wrapping_add(b, d) \in 0 .. Wrap - 1
           /\ d + k < Wrap => wrapping_add(wrapping_add(b, d), k) = wrapping_add(b, d + k)
BY IoAssumption DEF wrapping_add

\* What handle_result does to the queue with the result of its entry i: the entry is
\* stored in its place or, at the front, popped with the finished ones behind it.
Pops(i, e, d) ==
    /\ d \in 0 .. Len(queue)
    /\ d > 0 <=> i = 1
    /\ queue' \in Seq(QEntry)
    /\ Len(queue') = Len(queue) - d
    /\ base' = wrapping_add(base, d)
    /\ \A j \in 1 .. Len(queue) : j <= d /\ j # i => queue[j].res # "Pending"
    /\ \A j \in 1 .. Len(queue') : queue'[j] = IF j + d = i THEN e ELSE queue[j + d]
    /\ queue' # <<>> => queue'[1].res = "Pending"
    /\ d = 0 => UNCHANGED <<out, error>>
    /\ d > 0 => Write(<<e>> \o SubSeq(queue, 2, d))

\* The fields of the entries.
LEMMA QueueFields ==
    ASSUME QueueOfCalls
    PROVE  \A j \in 1 .. Len(queue) : queue[j].req = Written + j /\ queue[j].res = hist[Written + j]
<1>1. ASSUME NEW j \in 1 .. Len(queue)
      PROVE  queue[j].req = Written + j /\ queue[j].res = hist[Written + j]
  <2>1. queue[j] = [req |-> Written + j, res |-> hist[Written + j]]
    BY DEF QueueOfCalls
  <2> QED BY <2>1
<1> QED BY <1>1

\* No call returns that it is pending.
LEMMA NotPending == "Pending" \notin Results
BY IoAssumption DEF AllResults

\* The unfinished entries other than i are the ones that stay, under their indexes.
Shifted(i) ==
    /\ \A j \in DOMAIN queue' : queue'[j].res = "Pending" =>
         \E k \in DOMAIN queue : k # i /\ queue'[j] = queue[k] /\ IdxOf(j)' = IdxOf(k)
    /\ \A k \in DOMAIN queue : queue[k].res = "Pending" /\ k # i =>
         \E j \in DOMAIN queue' : queue'[j] = queue[k] /\ IdxOf(j)' = IdxOf(k)
    /\ \A j, k \in DOMAIN queue : queue[j].req = queue[k].req => j = k
    /\ \A k \in DOMAIN queue : queue[k].req # 0

\* It is so when handle_result takes the result of entry i.
LEMMA PopsShifted ==
    ASSUME RespInv, NEW i \in 1 .. Len(queue), NEW e, e.res # "Pending", NEW d \in Nat, Pops(i, e, d)
    PROVE  Shifted(i)
<1>1. Wrap \in Nat /\ base \in 0 .. Wrap - 1
  BY IoAssumption DEF RespInv, RespTypeOK
<1>2. PICK n \in Nat : n = Len(queue) /\ DOMAIN queue = 1 .. n /\ n <= Wrap
  BY DEF RespInv, RespTypeOK, QueueOfCalls
<1>3. /\ d \in 0 .. n /\ Len(queue') = n - d /\ DOMAIN queue' = 1 .. n - d /\ base' = wrapping_add(base, d)
      /\ \A j \in 1 .. n : j <= d /\ j # i => queue[j].res # "Pending"
      /\ \A j \in 1 .. n - d : queue'[j] = IF j + d = i THEN e ELSE queue[j + d]
  BY <1>2 DEF Pops
<1>4. ASSUME NEW j \in 1 .. n - d
      PROVE  j + d \in 1 .. n /\ IdxOf(j)' = IdxOf(j + d)
  <2>1. j + d \in 1 .. n /\ j - 1 \in Nat /\ d + (j - 1) <= Wrap /\ d + (j - 1) < Wrap /\ d + (j - 1) = (j + d) - 1
    BY <1>1, <1>2, <1>3, SMTT(30)
  <2>2. wrapping_add(wrapping_add(base, d), j - 1) = wrapping_add(base, (j + d) - 1)
    BY <1>1, <2>1, IndexMoves
  <2>3. IdxOf(j)' = wrapping_add(base', j - 1) /\ IdxOf(j + d) = wrapping_add(base, (j + d) - 1)
    BY DEF IdxOf, wrapping_add
  <2> QED BY <1>3, <2>1, <2>2, <2>3
<1>5. ASSUME NEW j \in 1 .. n - d, queue'[j].res = "Pending"
      PROVE  \E k \in 1 .. n : k # i /\ queue'[j] = queue[k] /\ IdxOf(j)' = IdxOf(k)
  BY <1>3, <1>4, <1>5
<1>6. ASSUME NEW k \in 1 .. n, queue[k].res = "Pending", k # i
      PROVE  \E j \in 1 .. n - d : queue'[j] = queue[k] /\ IdxOf(j)' = IdxOf(k)
  <2>1. k - d \in 1 .. n - d /\ (k - d) + d = k
    BY <1>3, <1>6
  <2> QED BY <1>3, <1>4, <1>6, <2>1, Zenon
<1>7. PICK w \in Nat : \A j \in 1 .. n : queue[j].req = w + j
  <2>1. Len(hist) \in Nat /\ Len(queue) \in Nat /\ Len(queue) <= Len(hist)
    BY DEF RespInv, RespTypeOK, QueueOfCalls
  <2>2. Written \in Nat
    BY <2>1 DEF Written
  <2> QED BY <1>2, <2>2, QueueFields, Zenon DEF RespInv
<1>8. /\ \A j, k \in 1 .. n : queue[j].req = queue[k].req => j = k
      /\ \A k \in 1 .. n : queue[k].req # 0
  BY <1>7
<1>9. DOMAIN queue = 1 .. n /\ DOMAIN queue' = 1 .. n - d
  BY <1>2, <1>3
<1> QED BY <1>5, <1>6, <1>8, <1>9, ZenonT(30) DEF Shifted

\* The future polled in place has finished.
LEMMA InPlaceIndex ==
    ASSUME IndexMatch, OneTaskPerCall, NEW i \in DOMAIN queue, Shifted(i),
           response = queue[i].req, response' = 0, UNCHANGED tasks
    PROVE  IndexMatch' /\ OneTaskPerCall'
<1>1. \A t \in tasks : \E k \in DOMAIN queue : /\ queue[k] = [req |-> t.req, res |-> "Pending"] /\ t.idx = IdxOf(k)
                                               /\ k # i /\ queue[k].res = "Pending" /\ t.req = queue[k].req
  BY DEF IndexMatch, OneTaskPerCall
<1>2. \A t \in tasks' : \E j \in DOMAIN queue' : queue'[j] = [req |-> t.req, res |-> "Pending"] /\ t.idx = IdxOf(j)'
  BY <1>1 DEF Shifted
<1>3. \A t \in tasks' : t.req # 0
  BY <1>1 DEF Shifted
<1>4. \A j \in DOMAIN queue' : queue'[j].res = "Pending" => [req |-> queue'[j].req, idx |-> IdxOf(j)'] \in tasks'
  BY DEF IndexMatch, Shifted
<1> QED BY <1>2, <1>3, <1>4 DEF IndexMatch, OneTaskPerCall

\* A spawned call has finished.
LEMMA TaskIndex ==
    ASSUME IndexMatch, OneTaskPerCall, tasks \in SUBSET Task, NEW i \in DOMAIN queue, Shifted(i),
           NEW t0 \in tasks, t0.req = queue[i].req, tasks' = tasks \ {t0}, UNCHANGED <<response, response_idx>>
    PROVE  IndexMatch' /\ OneTaskPerCall'
<1>1. ASSUME NEW t \in tasks
      PROVE  \E k \in DOMAIN queue : /\ queue[k] = [req |-> t.req, res |-> "Pending"] /\ t.idx = IdxOf(k)
                                     /\ t.req = queue[k].req /\ queue[k].res = "Pending"
  BY DEF IndexMatch
<1>2. t0.idx = IdxOf(i)
  BY <1>1 DEF Shifted
<1>3. ASSUME NEW t \in tasks'
      PROVE  \E j \in DOMAIN queue' : queue'[j] = [req |-> t.req, res |-> "Pending"] /\ t.idx = IdxOf(j)'
  <2>1. PICK k \in DOMAIN queue : /\ queue[k] = [req |-> t.req, res |-> "Pending"] /\ t.idx = IdxOf(k)
                                  /\ t.req = queue[k].req /\ queue[k].res = "Pending"
    BY <1>1
  <2>2. t # t0 /\ t \in Task /\ t0 \in Task
    OBVIOUS
  <2>3. t.req # t0.req \/ t.idx # t0.idx
    BY <2>2 DEF Task
  <2>4. k # i
    BY <1>2, <2>1, <2>3
  <2> QED BY <2>1, <2>4 DEF Shifted
<1>4. response' # 0 => \E j \in DOMAIN queue' : queue'[j] = [req |-> response', res |-> "Pending"] /\ response_idx' = IdxOf(j)'
  <2>1. response # 0 => \E k \in DOMAIN queue : /\ queue[k] = [req |-> response, res |-> "Pending"] /\ response_idx = IdxOf(k)
                                                /\ response = queue[k].req /\ queue[k].res = "Pending"
    BY DEF IndexMatch
  <2>2. response # queue[i].req
    BY DEF OneTaskPerCall
  <2> QED BY <2>1, <2>2 DEF Shifted
<1>5. \A j \in DOMAIN queue' : queue'[j].res = "Pending" =>
        \/ response' = queue'[j].req /\ response_idx' = IdxOf(j)'
        \/ [req |-> queue'[j].req, idx |-> IdxOf(j)'] \in tasks'
  <2>1. ASSUME NEW k \in DOMAIN queue, queue[k].res = "Pending", k # i
        PROVE  \/ response = queue[k].req /\ response_idx = IdxOf(k)
               \/ [req |-> queue[k].req, idx |-> IdxOf(k)] \in tasks \ {t0}
    BY <2>1 DEF IndexMatch, Shifted
  <2> QED BY <2>1 DEF Shifted
<1>6. OneTaskPerCall'
  BY DEF OneTaskPerCall
<1> QED BY <1>3, <1>4, <1>5, <1>6, Zenon DEF IndexMatch

\* A call registered at the back of the queue, unfinished or behind an unfinished one.
Registers(o) ==
    /\ Len(queue) < Wrap /\ (queue = <<>> => o = "Pending")
    /\ queue' = Append(queue, [req |-> Len(hist) + 1, res |-> o]) /\ hist' = Append(hist, o)
    /\ UNCHANGED <<base, out, error>>

\* The back of a queue that is not full.
LEMMA BackIndex ==
    ASSUME RespTypeOK, Len(queue) < Wrap
    PROVE  BackIdx \in 0 .. Wrap - 1
<1>1. Len(queue) \in 0 .. Wrap - 1 /\ base \in 0 .. Wrap - 1
  BY IoAssumption DEF RespTypeOK
<1> QED BY <1>1, IndexPlace DEF BackIdx

-----------------------------------------------------------------------------
(* What a result moves. *)

\* The m entries es are the ones that follow the first w calls.
Follow(es, m, w) ==
    /\ DOMAIN es = 1 .. m /\ Len(es) = m
    /\ \A i \in 1 .. m : es[i].req = w + i


\* The error e1 that m written entries leave where e was.
ErrorLeft(es, m, e, e1) ==
    /\ \A i \in 1 .. m : es[i].res = "err" =>
         e1 = "Service" \/ \E j \in 1 .. m : j > i /\ es[j].res = "bad"
    /\ \/ e1 = e
       \/ e1 = "Service" /\ \E i \in 1 .. m : es[i].res = "err"
       \/ e1 = "Encoder" /\ \E i \in 1 .. m : es[i].res = "bad"

\* What writing the m entries es that follow the first w calls does.
Wrote(es, m, w) ==
    /\ out' \in Seq(Nat) /\ Increasing(out')
    /\ Elements(out') = Elements(out) \cup {n \in w + 1 .. w + m : es[n - w].res \in {"some", "bad"}}
    /\ error' \in {"None", "Encoder", "Service"}
    /\ ErrorLeft(es, m, error, error')

\* The lengths of the queue and of the history around the result of entry i, w calls
\* being written before it and d entries popped by it.
Counts(w, i, d) ==
    /\ w \in Nat /\ Len(queue) \in Nat /\ Len(hist) \in Nat /\ Wrap \in Nat
    /\ w + Len(queue) = Len(hist) /\ Len(queue) <= Wrap
    /\ i \in 1 .. Len(queue) /\ d \in 0 .. Len(queue) /\ (d > 0 <=> i = 1)
    /\ Len(queue') = Len(queue) - d /\ Len(hist') = Len(hist)
    /\ Written = w /\ Written' = w + d

\* What they hold, v being the result.
Moved(w, i, v, e, d) ==
    /\ v # "Pending" /\ e = [req |-> w + i, res |-> v] /\ e.req = w + i /\ e.res = v
    /\ \A j \in 1 .. Len(queue) : /\ queue[j] = [req |-> w + j, res |-> hist[w + j]]
                                  /\ queue[j].req = w + j /\ queue[j].res = hist[w + j]
    /\ \A n \in 1 .. w : hist[n] # "Pending"
    /\ \A n \in 1 .. Len(hist) : hist'[n] = IF n = w + i THEN v ELSE hist[n]
    /\ \A j \in 1 .. Len(queue) : j <= d /\ j # i => queue[j].res # "Pending"
    /\ \A j \in 1 .. Len(queue') : queue'[j] = IF j + d = i THEN e ELSE queue[j + d]
    /\ queue' # <<>> => queue'[1].res = "Pending"

\* They are so when handle_result takes the result.
LEMMA ResultMoves ==
    ASSUME RespInv, NEW i \in 1 .. Len(queue), NEW v \in Results, queue[i].res = "Pending",
           NEW e, e = [req |-> queue[i].req, res |-> v], NEW d \in Nat, Pops(i, e, d),
           hist' = [hist EXCEPT ![queue[i].req] = v]
    PROVE  /\ \E w \in Nat : Counts(w, i, d) /\ Moved(w, i, v, e, d)
           /\ hist' \in Seq(Outcome) /\ base' \in 0 .. Wrap - 1 /\ e \in QEntry
           /\ hist[queue[i].req] = "Pending" /\ queue[i].req \in DOMAIN hist
<1>1. /\ queue \in Seq(QEntry) /\ hist \in Seq(Outcome) /\ base \in 0 .. Wrap - 1
      /\ Len(queue) <= Wrap /\ Len(queue) <= Len(hist) /\ Wrap \in Nat
  BY IoAssumption DEF RespInv, RespTypeOK, QueueOfCalls
<1>2. PICK w \in Nat : w = Written /\ w + Len(queue) = Len(hist)
  <2>1. Len(queue) \in Nat /\ Len(hist) \in Nat
    BY <1>1
  <2> QED BY <1>1, <2>1 DEF Written
<1>3. \A j \in 1 .. Len(queue) : /\ queue[j] = [req |-> w + j, res |-> hist[w + j]]
                                 /\ queue[j].req = w + j /\ queue[j].res = hist[w + j]
  <2>1. \A j \in 1 .. Len(queue) : queue[j] = [req |-> w + j, res |-> hist[w + j]]
    BY <1>2 DEF RespInv, QueueOfCalls
  <2> QED BY <2>1
<1>4. w + i \in 1 .. Len(hist) /\ w + i \in Nat \ {0} /\ v \in Outcome
  BY <1>1, <1>2 DEF Outcome
<1>5. queue[i].req = w + i /\ hist[w + i] = "Pending"
  BY <1>3, Zenon
<1>12. e = [req |-> w + i, res |-> v] /\ e.req = w + i /\ e.res = v /\ e \in QEntry
  BY <1>4, <1>5 DEF QEntry
<1>6. /\ hist' \in Seq(Outcome) /\ Len(hist') = Len(hist)
      /\ \A n \in 1 .. Len(hist) : hist'[n] = IF n = w + i THEN v ELSE hist[n]
  BY <1>1, <1>4, <1>5, ReplacedIs
<1>7. Written' = w + d
  BY <1>1, <1>2, <1>6 DEF Written, Pops
<1>8. base' \in 0 .. Wrap - 1
  <2>1. d + 0 <= Wrap
    BY <1>1 DEF Pops
  <2> QED BY <1>1, <2>1, IndexMoves DEF Pops
<1>9. \A n \in 1 .. w : hist[n] # "Pending"
  BY <1>2 DEF RespInv, QueueOfCalls
<1>10. Counts(w, i, d) /\ Moved(w, i, v, e, d)
  <2>1. Len(queue) \in Nat /\ Len(hist) \in Nat /\ d \in 0 .. Len(queue) /\ (d > 0 <=> i = 1)
    BY <1>1 DEF Pops
  <2>2. /\ \A j \in 1 .. Len(queue) : j <= d /\ j # i => queue[j].res # "Pending"
        /\ Len(queue') = Len(queue) - d
        /\ \A j \in 1 .. Len(queue') : queue'[j] = IF j + d = i THEN e ELSE queue[j + d]
        /\ queue' # <<>> => queue'[1].res = "Pending"
    BY DEF Pops
  <2>3. Counts(w, i, d)
    BY <1>1, <1>2, <1>6, <1>7, <2>1, <2>2 DEF Counts
  <2>4. Moved(w, i, v, e, d)
    BY <1>3, <1>6, <1>9, <1>12, <2>2, NotPending, Zenon DEF Moved
  <2> QED BY <2>3, <2>4
<1>11. hist[queue[i].req] = "Pending" /\ queue[i].req \in DOMAIN hist
  BY <1>1, <1>4, <1>5
<1> QED BY <1>6, <1>8, <1>10, <1>11, <1>12

\* What was popped has finished.
LEMMA MovedFinished ==
    ASSUME NEW w, NEW i, NEW v, NEW e, NEW d, Counts(w, i, d), Moved(w, i, v, e, d)
    PROVE  /\ \A n \in 1 .. w : hist'[n] = hist[n] /\ hist'[n] # "Pending"
           /\ \A j \in 1 .. d : /\ hist'[w + j] # "Pending" /\ w + j \in 1 .. Len(hist)
                                /\ hist'[w + j] = IF j = i THEN v ELSE queue[j].res
<1>1. \A n \in 1 .. w : n \in 1 .. Len(hist) /\ n # w + i
  BY DEF Counts
<1>2. ASSUME NEW j \in 1 .. d
      PROVE  /\ hist'[w + j] # "Pending" /\ w + j \in 1 .. Len(hist)
             /\ hist'[w + j] = IF j = i THEN v ELSE queue[j].res
  <2>1. j \in 1 .. Len(queue) /\ w + j \in 1 .. Len(hist) /\ (w + j = w + i <=> j = i) /\ j <= d
    BY DEF Counts
  <2>2. hist'[w + j] = IF j = i THEN v ELSE queue[j].res
    BY <2>1, Zenon DEF Moved
  <2>3. v # "Pending" /\ (j # i => queue[j].res # "Pending")
    BY <2>1 DEF Moved
  <2> QED BY <2>1, <2>2, <2>3
<1> QED BY <1>1, <1>2 DEF Moved

\* The queue holds the calls that follow.
LEMMA MovedQueue ==
    ASSUME NEW w, NEW i, NEW v, NEW e, NEW d, Counts(w, i, d), Moved(w, i, v, e, d)
    PROVE  QueueOfCalls'
<1>1. \A n \in 1 .. w + d : hist'[n] # "Pending"
  <2>1. \A n \in 1 .. w + d : n \in 1 .. w \/ (n - w \in 1 .. d /\ w + (n - w) = n)
    BY DEF Counts
  <2>2. \A n \in 1 .. w + d : n - w \in 1 .. d => hist'[w + (n - w)] # "Pending"
    BY MovedFinished
  <2> QED BY <2>1, <2>2, MovedFinished
<1>2. ASSUME NEW j \in 1 .. Len(queue')
      PROVE  queue'[j] = [req |-> w + d + j, res |-> hist'[w + d + j]]
  <2>1. /\ j + d \in 1 .. Len(queue) /\ w + d + j = w + (j + d) /\ w + (j + d) \in 1 .. Len(hist)
        /\ w + (j + d) = w + i <=> j + d = i
    BY DEF Counts
  <2>2. hist'[w + (j + d)] = IF j + d = i THEN v ELSE hist[w + (j + d)]
    BY <2>1 DEF Moved
  <2>3. queue'[j] = [req |-> w + (j + d), res |-> hist'[w + (j + d)]]
    <3>1. CASE j + d = i
      BY <2>2, <3>1 DEF Moved
    <3>2. CASE j + d # i
      BY <2>1, <2>2, <3>2 DEF Moved
    <3> QED BY <3>1, <3>2
  <2> QED BY <2>1, <2>3
<1>3. Len(queue') <= Wrap /\ Len(queue') <= Len(hist')
  BY DEF Counts
<1>4. Written' = w + d /\ (queue' # <<>> => queue'[1].res = "Pending")
  BY DEF Counts, Moved
<1> QED BY <1>1, <1>2, <1>3, <1>4 DEF QueueOfCalls

\* The entries es are e and those of q from the second up to entry d.
PoppedOf(q, e, d, es) ==
    DOMAIN es = 1 .. d /\ Len(es) = d /\ es[1] = e /\ \A j \in 2 .. d : es[j] = q[j]

\* They are so when the front of q is replaced by e.
LEMMA PoppedIs ==
    ASSUME NEW S, NEW q \in Seq(S), NEW e \in S, NEW d \in 1 .. Len(q),
           NEW es, es = <<e>> \o SubSeq(q, 2, d)
    PROVE  es \in Seq(S) /\ PoppedOf(q, e, d, es)
<1>1. 2 \in 1 .. Len(q) + 1 /\ d \in 0 .. Len(q) /\ 2 <= d + 1 /\ d - 2 + 1 = d - 1
  OBVIOUS
<1>2. /\ SubSeq(q, 2, d) \in Seq(S) /\ Len(SubSeq(q, 2, d)) = d - 1
      /\ \A j \in 1 .. d - 1 : SubSeq(q, 2, d)[j] = q[2 + j - 1]
  BY <1>1, SubSeqIs
<1>3. PICK ss \in Seq(S) : /\ ss = SubSeq(q, 2, d) /\ Len(ss) = d - 1
                          /\ \A j \in 1 .. d - 1 : ss[j] = q[2 + j - 1]
  BY <1>2, Zenon
<1>4. es \in Seq(S) /\ DOMAIN es = 1 .. d /\ Len(es) = d /\ es[1] = e /\ \A j \in 2 .. d : es[j] = ss[j - 1]
  BY <1>3
<1>5. \A j \in 2 .. d : j - 1 \in 1 .. d - 1 /\ 2 + (j - 1) - 1 = j
  OBVIOUS
<1>6. \A j \in 2 .. d : ss[j - 1] = q[j]
  BY <1>3, <1>5
<1> QED BY <1>4, <1>6, SMTT(30) DEF PoppedOf

\* The popped entries are the finished calls that follow the written ones.
LEMMA MovedFollow ==
    ASSUME NEW w, NEW i, NEW v, NEW e, NEW d, Counts(w, i, d), Moved(w, i, v, e, d), d # 0,
           NEW es, PoppedOf(queue, e, d, es)
    PROVE  Follow(es, d, w) /\ \A j \in 1 .. d : es[j].res = hist'[w + j]
<1>1. i = 1 /\ 1 \in 1 .. d /\ \A j \in 1 .. d : j \in 1 .. Len(queue) /\ (j # 1 => j \in 2 .. d)
  BY DEF Counts
<1>2. \A j \in 1 .. d : hist'[w + j] = IF j = i THEN v ELSE queue[j].res
  BY MovedFinished
<1>3. e.req = w + i /\ e.res = v /\ \A j \in 1 .. Len(queue) : queue[j].req = w + j
  BY Zenon DEF Moved
<1>4. \A j \in 1 .. d : es[j].req = w + j /\ es[j].res = hist'[w + j]
  BY <1>1, <1>2, <1>3 DEF PoppedOf
<1> QED BY <1>4 DEF Follow, PoppedOf

\* A result that is stored leaves the written responses alone.
LEMMA StoredOut ==
    ASSUME OutOfCalls, NEW w, NEW i, NEW v, NEW e, Counts(w, i, 0), Moved(w, i, v, e, 0), UNCHANGED <<out, error>>
    PROVE  OutOfCalls' /\ ErrorOfWritten
<1>1. w \in Nat /\ Written = w /\ Written' = w
  BY DEF Counts
<1>2. w + 1 .. w = {} /\ w <= w
  BY <1>1
<1>3. OutOfCalls'
  BY <1>1, MovedFinished DEF OutOfCalls
<1> QED BY <1>1, <1>2, <1>3 DEF ErrorOfWritten

\* Those of the calls that were popped are added to them.
LEMMA PoppedOut ==
    ASSUME OutOfCalls, NEW w, NEW i, NEW v, NEW e, NEW d, Counts(w, i, d), Moved(w, i, v, e, d),
           hist' \in Seq(Outcome), NEW es, \A j \in 1 .. d : es[j].res = hist'[w + j],
           Wrote(es, d, w)
    PROVE  OutOfCalls' /\ ErrorOfWritten
<1>1. w \in Nat /\ d \in Nat /\ Written = w /\ Written' = w + d /\ Len(hist') = Len(hist)
  BY DEF Counts
<1>2. Elements(out) = {n \in 1 .. w : hist[n] \in {"some", "bad"}}
  BY <1>1 DEF OutOfCalls
<1>3. \A n \in w + 1 .. w + d : n - w \in 1 .. d /\ w + (n - w) = n
  BY <1>1
<1>4. \A n \in w + 1 .. w + d : es[n - w].res = hist'[n]
  BY <1>3
<1>5. OutOfCalls'
  <2>1. \A n \in 1 .. w + d : n \in 1 .. w \/ n \in w + 1 .. w + d
    BY <1>1
  <2>2. 1 .. w \subseteq 1 .. w + d /\ w + 1 .. w + d \subseteq 1 .. w + d
    BY <1>1
  <2>3. Elements(out') = {n \in 1 .. w + d : hist'[n] \in {"some", "bad"}}
    BY <1>2, <1>4, <2>1, <2>2, MovedFinished, SMTT(30) DEF Wrote
  <2> QED BY <1>1, <2>3 DEF OutOfCalls, Wrote
<1>6. ErrorOfWritten
  <2>1. \A j \in 1 .. d : w + j \in w + 1 .. w + d
    BY <1>1
  <2>2. w <= w + d
    BY <1>1
  <2>3. ErrorLeft(es, d, error, error')
    BY DEF Wrote
  <2>4. ASSUME NEW n \in w + 1 .. w + d, hist'[n] = "err"
        PROVE  error' = "Service" \/ \E j \in w + 1 .. w + d : j > n /\ hist'[j] = "bad"
    <3>1. PICK k \in 1 .. d : k = n - w /\ es[k].res = "err"
      BY <1>3, <1>4, <2>4, Zenon
    <3>2. ASSUME NEW j \in 1 .. d, j > k, es[j].res = "bad"
          PROVE  w + j \in w + 1 .. w + d /\ w + j > n /\ hist'[w + j] = "bad"
      <4>1. w + j > n
        BY <1>1, <3>1, <3>2
      <4> QED BY <2>1, <3>2, <4>1
    <3> QED BY <2>3, <3>1, <3>2, Zenon DEF ErrorLeft
  <2>5. \A j \in 1 .. d : es[j].res = hist'[w + j] /\ w + j \in w + 1 .. w + d
    BY <2>1
  <2>6. \/ error' = error
        \/ error' = "Service" /\ \E n \in w + 1 .. w + d : hist'[n] = "err"
        \/ error' = "Encoder" /\ \E n \in w + 1 .. w + d : hist'[n] = "bad"
    BY <2>3, <2>5, Zenon DEF ErrorLeft
  <2> QED BY <1>1, <2>2, <2>4, <2>6, Zenon DEF ErrorOfWritten
<1> QED BY <1>5, <1>6

-----------------------------------------------------------------------------
(* What a call registers. *)

\* The queue with one more call at its back, L, under the id r.
Registered(L, r, o) ==
    /\ DOMAIN queue = 1 .. Len(queue) /\ DOMAIN queue' = 1 .. L /\ L \in 1 .. L
    /\ \A j \in 1 .. L : j \in 1 .. Len(queue) \/ j = L
    /\ \A j \in 1 .. Len(queue) : /\ j \in 1 .. L /\ queue[j].req # 0
                                  /\ queue'[j] = queue[j] /\ IdxOf(j)' = IdxOf(j)
    /\ queue'[L] = [req |-> r, res |-> o] /\ queue'[L].req = r /\ queue'[L].res = o
    /\ IdxOf(L)' = BackIdx

\* A sequence with one more element.
LEMMA AppendIs ==
    ASSUME NEW S, NEW s \in Seq(S), NEW e \in S
    PROVE  /\ Append(s, e) \in Seq(S) /\ Len(Append(s, e)) = Len(s) + 1
           /\ DOMAIN Append(s, e) = 1 .. Len(s) + 1 /\ Append(s, e)[Len(s) + 1] = e
           /\ \A j \in 1 .. Len(s) : Append(s, e)[j] = s[j]
OBVIOUS

\* It is so after Registers.
LEMMA RegistersCall ==
    ASSUME RespInv, NEW o \in Outcome, Registers(o)
    PROVE  /\ QueueOfCalls' /\ OutOfCalls' /\ ErrorOfWritten
           /\ queue' \in Seq(QEntry) /\ hist' \in Seq(Outcome)
           /\ \E L : Registered(L, Len(hist) + 1, o)
<1>1. queue \in Seq(QEntry) /\ hist \in Seq(Outcome) /\ Len(queue) <= Len(hist) /\ Len(queue) < Wrap
  BY DEF RespInv, RespTypeOK, QueueOfCalls, Registers
<1>2. PICK q \in Nat : q = Len(queue) /\ DOMAIN queue = 1 .. q
  BY <1>1
<1>3. PICK w \in Nat : w = Written /\ Len(hist) = w + q
  <2>1. PICK h \in Nat : h = Len(hist) /\ q <= h
    BY <1>1, <1>2
  <2>2. h - q \in Nat /\ h = (h - q) + q
    BY <2>1
  <2>3. Written = h - q
    BY <1>2, <2>1 DEF Written
  <2> QED BY <2>1, <2>2, <2>3, Zenon
<1>4. PICK e \in QEntry : e = [req |-> w + q + 1, res |-> o] /\ e.req = w + q + 1 /\ e.res = o
  <2>1. w + q + 1 \in Nat \ {0}
    OBVIOUS
  <2>2. PICK e : e = [req |-> w + q + 1, res |-> o]
    BY Zenon
  <2>3. e \in QEntry /\ e.req = w + q + 1 /\ e.res = o
    BY <2>1, <2>2 DEF QEntry
  <2> QED BY <2>2, <2>3, Zenon
<1>5. queue' = Append(queue, e) /\ hist' = Append(hist, o) /\ UNCHANGED <<base, out, error>>
  BY <1>3, <1>4 DEF Registers
<1>6. /\ queue' \in Seq(QEntry) /\ Len(queue') = q + 1 /\ DOMAIN queue' = 1 .. q + 1
      /\ queue'[q + 1] = e /\ \A j \in 1 .. q : queue'[j] = queue[j]
  BY <1>1, <1>2, <1>5, AppendIs
<1>7. /\ hist' \in Seq(Outcome) /\ Len(hist') = w + q + 1
      /\ hist'[w + q + 1] = o /\ \A n \in 1 .. w + q : hist'[n] = hist[n]
  BY <1>1, <1>3, <1>5, AppendIs
<1>8. /\ \A j \in 1 .. q + 1 : j \in 1 .. q \/ j = q + 1
      /\ \A j \in 1 .. q : j \in 1 .. q + 1 /\ w + j \in 1 .. w + q
      /\ \A n \in 1 .. w : n \in 1 .. w + q
      /\ q + 1 \in 1 .. q + 1 /\ w + (q + 1) = w + q + 1
  OBVIOUS
<1>9. Written' = w
  BY <1>6, <1>7 DEF Written
<1>10. /\ \A j \in 1 .. q : /\ queue[j] = [req |-> w + j, res |-> hist[w + j]]
       /\ \A n \in 1 .. w : hist[n] # "Pending"
       /\ queue # <<>> => queue[1].res = "Pending"
  BY <1>2, <1>3 DEF RespInv, QueueOfCalls
<1>11. QueueOfCalls'
  <2>1. \A j \in 1 .. q + 1 : queue'[j] = [req |-> w + j, res |-> hist'[w + j]]
    BY <1>4, <1>6, <1>7, <1>8, <1>10, Zenon
  <2>2. \A n \in 1 .. w : hist'[n] # "Pending"
    BY <1>7, <1>8, <1>10
  <2>3. queue'[1].res = "Pending"
    <3>1. CASE q = 0
      <4>1. queue = <<>> /\ q + 1 = 1
        BY <1>1, <1>2, <3>1
      <4> QED BY <1>4, <1>6, <4>1 DEF Registers
    <3>2. CASE q # 0
      <4>1. queue # <<>> /\ 1 \in 1 .. q
        BY <1>2, <3>2
      <4> QED BY <1>6, <1>10, <4>1
    <3> QED BY <3>1, <3>2
  <2>4. q + 1 <= Wrap /\ q + 1 <= w + q + 1
    BY <1>1, <1>2, IoAssumption
  <2> QED BY <1>6, <1>7, <1>9, <2>1, <2>2, <2>3, <2>4 DEF QueueOfCalls
<1>12. OutOfCalls'
  <2>1. {n \in 1 .. w : hist'[n] \in {"some", "bad"}} = {n \in 1 .. w : hist[n] \in {"some", "bad"}}
    BY <1>7, <1>8
  <2> QED BY <1>3, <1>5, <1>9, <2>1 DEF RespInv, OutOfCalls
<1>13. ErrorOfWritten
  <2>1. w + 1 .. w = {} /\ w <= w
    OBVIOUS
  <2> QED BY <1>3, <1>5, <1>9, <2>1 DEF ErrorOfWritten
<1>14. IdxOf(q + 1)' = BackIdx /\ \A j \in 1 .. q : IdxOf(j)' = IdxOf(j)
  BY <1>2, <1>5 DEF BackIdx, IdxOf, wrapping_add
<1>15. \A j \in 1 .. q : queue[j].req # 0
  <2>1. \A j \in 1 .. q : queue[j] \in QEntry
    BY <1>1, <1>2
  <2> QED BY <2>1 DEF QEntry
<1>16. Registered(q + 1, Len(hist) + 1, o)
  BY <1>2, <1>3, <1>4, <1>6, <1>8, <1>14, <1>15 DEF Registered
<1> QED BY <1>6, <1>7, <1>11, <1>12, <1>13, <1>16

\* The calls outstanding are earlier ones.
LEMMA EarlierCalls ==
    ASSUME RespInv
    PROVE  /\ response \in Nat /\ response < Len(hist) + 1
           /\ \A t \in tasks : t.req # Len(hist) + 1
<1>1. /\ queue \in Seq(QEntry) /\ hist \in Seq(Outcome) /\ Len(queue) <= Len(hist) /\ response \in Nat
  BY DEF RespInv, RespTypeOK, QueueOfCalls
<1>2. Len(queue) \in Nat /\ Len(hist) \in Nat /\ DOMAIN queue = 1 .. Len(queue)
  BY <1>1
<1>3. Written \in Nat /\ Written + Len(queue) = Len(hist)
  BY <1>1, <1>2 DEF Written
<1>4. \A j \in 1 .. Len(queue) : queue[j].req = Written + j
  BY QueueFields DEF RespInv
<1>5. \A j \in DOMAIN queue : queue[j].req < Len(hist) + 1 /\ queue[j].req # Len(hist) + 1
  BY <1>2, <1>3, <1>4
<1>6. \A n : (\E j \in DOMAIN queue : queue[j] = [req |-> n, res |-> "Pending"]) =>
        n < Len(hist) + 1 /\ n # Len(hist) + 1
  BY <1>5
<1>7. /\ response # 0 => \E j \in DOMAIN queue : queue[j] = [req |-> response, res |-> "Pending"]
      /\ \A t \in tasks : \E j \in DOMAIN queue : queue[j] = [req |-> t.req, res |-> "Pending"]
  BY DEF RespInv, IndexMatch
<1>8. 0 < Len(hist) + 1
  BY <1>2
<1>9. response < Len(hist) + 1
  BY <1>6, <1>7, <1>8
<1>10. \A t \in tasks : t.req # Len(hist) + 1
  BY <1>6, <1>7
<1> QED BY <1>1, <1>9, <1>10

\* A call that finished behind an unfinished one.
LEMMA CallBehind ==
    ASSUME IndexMatch, OneTaskPerCall, NEW L, NEW r, NEW v, v # "Pending", Registered(L, r, v),
           response = 0, UNCHANGED <<response, tasks>>
    PROVE  IndexMatch' /\ OneTaskPerCall'
<1>1. \A j \in 1 .. L : queue'[j].res = "Pending" =>
        [req |-> queue'[j].req, idx |-> IdxOf(j)'] \in tasks'
  BY DEF IndexMatch, Registered
<1>2. \A t \in tasks' : \E j \in 1 .. L :
        queue'[j] = [req |-> t.req, res |-> "Pending"] /\ t.idx = IdxOf(j)'
  BY DEF IndexMatch, Registered
<1>3. DOMAIN queue' = 1 .. L
  BY SMTT(30) DEF Registered
<1> QED BY <1>1, <1>2, <1>3 DEF IndexMatch, OneTaskPerCall

\* A call that is polled in place.
LEMMA CallInPlace ==
    ASSUME IndexMatch, NEW L, NEW r, Registered(L, r, "Pending"), response = 0,
           response' = r, response_idx' = BackIdx, UNCHANGED tasks, \A t \in tasks : t.req # r
    PROVE  IndexMatch' /\ OneTaskPerCall'
<1>1. \A j \in 1 .. L : queue'[j].res = "Pending" =>
        \/ response' = queue'[j].req /\ response_idx' = IdxOf(j)'
        \/ [req |-> queue'[j].req, idx |-> IdxOf(j)'] \in tasks'
  BY DEF IndexMatch, Registered
<1>2. \A t \in tasks' : \E j \in 1 .. L :
        queue'[j] = [req |-> t.req, res |-> "Pending"] /\ t.idx = IdxOf(j)'
  BY DEF IndexMatch, Registered
<1>3. \E j \in 1 .. L :
        queue'[j] = [req |-> response', res |-> "Pending"] /\ response_idx' = IdxOf(j)'
  BY DEF Registered
<1>4. DOMAIN queue' = 1 .. L
  BY SMTT(30) DEF Registered
<1> QED BY <1>1, <1>2, <1>3, <1>4, SMTT(30) DEF IndexMatch, OneTaskPerCall

\* A call that is spawned.
LEMMA CallSpawned ==
    ASSUME IndexMatch, OneTaskPerCall, NEW L, NEW r, Registered(L, r, "Pending"), response # r,
           NEW new, new = [req |-> r, idx |-> BackIdx], tasks' = tasks \cup {new},
           UNCHANGED <<response, response_idx>>
    PROVE  IndexMatch' /\ OneTaskPerCall'
<1>0. new.req = r /\ new.idx = BackIdx /\ new \in tasks'
  BY SMTT(30)
<1>1. ASSUME NEW j \in 1 .. L, queue'[j].res = "Pending"
      PROVE  \/ response' = queue'[j].req /\ response_idx' = IdxOf(j)'
             \/ [req |-> queue'[j].req, idx |-> IdxOf(j)'] \in tasks'
  <2>1. CASE j = L
    BY <1>0, <2>1, SMTT(30) DEF Registered
  <2>2. CASE j # L
    BY <1>1, <2>2, SMTT(30) DEF IndexMatch, Registered
  <2> QED BY <2>1, <2>2
<1>2. \A t \in tasks : \E j \in 1 .. L :
        queue'[j] = [req |-> t.req, res |-> "Pending"] /\ t.idx = IdxOf(j)'
  BY DEF IndexMatch, Registered
<1>3. \E j \in 1 .. L : queue'[j] = [req |-> new.req, res |-> "Pending"] /\ new.idx = IdxOf(j)'
  BY <1>0, SMTT(30) DEF Registered
<1>4. response' # 0 => \E j \in 1 .. L :
        queue'[j] = [req |-> response', res |-> "Pending"] /\ response_idx' = IdxOf(j)'
  BY SMTT(30) DEF IndexMatch, Registered
<1>5. \A t \in tasks' : \E j \in 1 .. L :
        queue'[j] = [req |-> t.req, res |-> "Pending"] /\ t.idx = IdxOf(j)'
  BY <1>2, <1>3, SMTT(30)
<1>6. DOMAIN queue' = 1 .. L
  BY DEF Registered
<1>7. OneTaskPerCall'
  BY <1>0 DEF OneTaskPerCall
<1> QED BY <1>1, <1>4, <1>5, <1>6, <1>7 DEF IndexMatch

\* A call that finishes at once with nothing before it is written at once.
LEMMA CallAtOnce ==
    ASSUME RespInv, NEW v \in Results, queue = <<>>, UNCHANGED queue, hist' = Append(hist, v),
           NEW es, DOMAIN es = 1 .. 1, es[1].res = v, Wrote(es, 1, Len(hist))
    PROVE  QueueOfCalls' /\ OutOfCalls' /\ ErrorOfWritten /\ hist' \in Seq(Outcome)
<1>1. hist \in Seq(Outcome) /\ v \in Outcome
  BY DEF RespInv, RespTypeOK, Outcome
<1>2. PICK h \in Nat : h = Len(hist)
  BY <1>1
<1>3. hist' \in Seq(Outcome) /\ Len(hist') = h + 1 /\ hist'[h + 1] = v /\ \A n \in 1 .. h : hist'[n] = hist[n]
  BY <1>1, <1>2
<1>4. Len(queue) = 0 /\ Len(queue') = 0
  OBVIOUS
<1>5. Written = h /\ Written' = h + 1
  BY <1>2, <1>3, <1>4 DEF Written
<1>6. /\ \A n \in 1 .. h + 1 : n \in 1 .. h \/ n = h + 1
      /\ \A n \in 1 .. h : n \in 1 .. h + 1 /\ n # h + 1
      /\ h + 1 \in 1 .. h + 1 /\ h + 1 .. h + 1 = {h + 1} /\ h + 1 - h = 1
  OBVIOUS
<1>7. Elements(out) = {n \in 1 .. h : hist[n] \in {"some", "bad"}}
  BY <1>5 DEF RespInv, OutOfCalls
<1>8. OutOfCalls'
  <2>1. Elements(out') = Elements(out) \cup {n \in {h + 1} : v \in {"some", "bad"}} /\ Increasing(out')
    BY <1>2, <1>6 DEF Wrote
  <2>2. Elements(out') = {n \in 1 .. h + 1 : hist'[n] \in {"some", "bad"}}
    BY <1>3, <1>6, <1>7, <2>1, SMTT(30)
  <2> QED BY <1>5, <2>1, <2>2, Zenon DEF OutOfCalls
<1>9. ErrorOfWritten
  <2>1. /\ v = "err" => error' = "Service"
        /\ \/ error' = error
           \/ error' = "Service" /\ v = "err"
           \/ error' = "Encoder" /\ v = "bad"
    <3>1. ErrorLeft(es, 1, error, error')
      BY <1>2, Zenon DEF Wrote
    <3>2. \A i \in 1 .. 1 : i = 1 /\ ~(i > 1)
      OBVIOUS
    <3>3. 1 \in 1 .. 1
      OBVIOUS
    <3> QED BY <3>1, <3>2, <3>3 DEF ErrorLeft
  <2>2. h <= h + 1
    OBVIOUS
  <2> QED BY <1>3, <1>5, <1>6, <2>1, <2>2 DEF ErrorOfWritten
<1>10. QueueOfCalls'
  <2>1. \A n \in 1 .. h : hist[n] # "Pending"
    BY <1>5 DEF RespInv, QueueOfCalls
  <2>2. \A n \in 1 .. h + 1 : hist'[n] # "Pending"
    BY <1>3, <1>6, <2>1, NotPending
  <2>3. 0 <= Wrap /\ 0 <= h + 1 /\ 1 .. 0 = {}
    BY IoAssumption
  <2> QED BY <1>3, <1>4, <1>5, <2>2, <2>3 DEF QueueOfCalls
<1> QED BY <1>3, <1>8, <1>9, <1>10

-----------------------------------------------------------------------------
(* Sequences that ascend. *)

\* The sequence c is a, of length m, followed by b, of length n, whose numbers are
\* above w and those of a.
Joined(a, m, b, n, c, w) ==
    /\ DOMAIN a = 1 .. m /\ DOMAIN b = 1 .. n /\ DOMAIN c = 1 .. m + n
    /\ \A i \in 1 .. m : c[i] = a[i] /\ a[i] \in Nat /\ a[i] <= w
    /\ \A i \in 1 .. n : c[m + i] = b[i] /\ b[i] \in Nat /\ b[i] > w

\* It ascends when a and b do.
LEMMA IncreasingJoin ==
    ASSUME NEW w \in Nat, NEW m \in Nat, NEW n \in Nat, NEW a, NEW b, NEW c,
           Joined(a, m, b, n, c, w), Increasing(a), Increasing(b)
    PROVE  Increasing(c) /\ Elements(c) = Elements(a) \cup Elements(b)
<1> USE DEF Joined
<1>1. /\ \A i \in 1 .. m + n : i \notin 1 .. m => i - m \in 1 .. n /\ m + (i - m) = i
      /\ \A i \in 1 .. m : i \in 1 .. m + n
      /\ \A i \in 1 .. n : m + i \in 1 .. m + n
  OBVIOUS
<1>2. \A i \in 1 .. m + n : i \notin 1 .. m => i - m \in 1 .. n /\ c[i] = b[i - m]
  BY <1>1
<1>3. ASSUME NEW j \in 1 .. m + n, NEW k \in 1 .. m + n, j < k
      PROVE  c[j] < c[k]
  <2>1. CASE k \in 1 .. m
    <3>1. j \in 1 .. m
      BY <1>3, <2>1
    <3> QED BY <1>3, <2>1, <3>1, Zenon DEF Increasing
  <2>2. CASE j \notin 1 .. m
    <3>1. k \notin 1 .. m /\ j - m < k - m
      BY <1>3, <2>2
    <3> QED BY <1>2, <2>2, <3>1, ZenonT(30) DEF Increasing
  <2>3. CASE j \in 1 .. m /\ k \notin 1 .. m
    BY <1>2, <2>3
  <2> QED BY <2>1, <2>2, <2>3
<1>4. ASSUME NEW x \in Elements(c)
      PROVE  x \in Elements(a) \cup Elements(b)
  <2>1. PICK i \in 1 .. m + n : x = c[i]
    BY Zenon DEF Elements
  <2> QED BY <1>2, <2>1, Zenon DEF Elements
<1>5. Elements(a) \subseteq Elements(c) /\ Elements(b) \subseteq Elements(c)
  BY <1>1, ZenonT(30) DEF Elements
<1>6. Increasing(c)
  BY <1>3 DEF Increasing
<1> QED BY <1>4, <1>5, <1>6

\* An ascending sequence with one more number at its end.
LEMMA IncreasingAppend ==
    ASSUME NEW m \in Nat, NEW V \in SUBSET (1 .. m), NEW k \in 0 .. m, NEW s \in [1 .. k -> V],
           Increasing(s), Elements(s) = V
    PROVE  \E u \in [1 .. k + 1 -> V \cup {m + 1}] : Increasing(u) /\ Elements(u) = V \cup {m + 1}
<1> DEFINE u == [j \in 1 .. k + 1 |-> IF j = k + 1 THEN m + 1 ELSE s[j]]
<1>1. \A j \in 1 .. k + 1 : j # k + 1 => j \in 1 .. k
  OBVIOUS
<1>2. \A j \in 1 .. k : s[j] \in V /\ s[j] \in 1 .. m
  BY Zenon
<1>3. u \in [1 .. k + 1 -> V \cup {m + 1}]
  BY <1>1, <1>2
<1>4. DOMAIN u = 1 .. k + 1 /\ u[k + 1] = m + 1 /\ \A j \in 1 .. k : u[j] = s[j] /\ j \in 1 .. k + 1
  OBVIOUS
<1> HIDE DEF u
<1>5. ASSUME NEW j \in 1 .. k + 1, NEW l \in 1 .. k + 1, j < l
      PROVE  u[j] < u[l]
  <2>1. j \in 1 .. k /\ u[j] = s[j]
    BY <1>4, <1>5
  <2>2. CASE l = k + 1
    BY <1>2, <1>4, <2>1, <2>2
  <2>3. CASE l # k + 1
    BY <1>1, <1>4, <1>5, <2>1, <2>3 DEF Increasing
  <2> QED BY <2>2, <2>3
<1>6. Increasing(u)
  BY <1>4, <1>5 DEF Increasing
<1>7. Elements(u) = V \cup {m + 1}
  <2>1. k + 1 \in 1 .. k + 1 /\ DOMAIN s = 1 .. k
    OBVIOUS
  <2> QED BY <1>1, <1>4, <2>1 DEF Elements
<1> QED BY <1>3, <1>6, <1>7

-----------------------------------------------------------------------------
(* Smallest and largest elements, and prefixes. *)

INSTANCE WellFoundedInduction

\* A set of naturals has a smallest element.
LEMMA Smallest ==
    ASSUME NEW T \in SUBSET Nat, T # {}
    PROVE  \E x \in T : \A y \in T : x <= y
<1>1. PICK x \in T : \A y \in T : ~(<<y, x>> \in OpToRel(<, Nat))
  BY NatLessThanWellFounded, WFMin, Zenon
<1>2. \A y \in T : ~(y < x)
  BY <1>1, Zenon DEF OpToRel
<1> QED BY <1>2

\* A bounded set of naturals has a largest element.
LEMMA Largest ==
    ASSUME NEW n \in Nat, NEW T \in SUBSET (0 .. n), T # {}
    PROVE  \E x \in T : \A y \in T : y <= x
<1> DEFINE D == {d \in 0 .. n : n - d \in T}
<1>1. D \in SUBSET Nat /\ D # {}
  <2>1. PICK x \in T : TRUE
    BY Zenon
  <2>2. x \in 0 .. n /\ n - x \in 0 .. n /\ n - (n - x) = x
    OBVIOUS
  <2>3. n - x \in D
    BY <2>2
  <2>4. D \in SUBSET Nat
    OBVIOUS
  <2> HIDE DEF D
  <2> QED BY <2>3, <2>4
<1> HIDE DEF D
<1>2. PICK d \in D : \A y \in D : d <= y
  BY <1>1, Smallest
<1>3. n - d \in T /\ d \in 0 .. n
  BY DEF D
<1>4. ASSUME NEW y \in T
      PROVE  y <= n - d
  <2>1. y \in 0 .. n /\ n - y \in 0 .. n /\ n - (n - y) = y
    OBVIOUS
  <2>2. n - y \in D
    BY <2>1 DEF D
  <2> QED BY <1>2, <1>3, <2>1, <2>2
<1> QED BY <1>3, <1>4

\* ReadyPrefix is what it says: finished entries, up to an unfinished one or the end.
LEMMA ReadyPrefixIs ==
    ASSUME NEW S, NEW q \in Seq(S)
    PROVE  /\ ReadyPrefix(q) \in 0 .. Len(q)
           /\ \A i \in 1 .. ReadyPrefix(q) : q[i].res # "Pending"
           /\ ReadyPrefix(q) < Len(q) => q[ReadyPrefix(q) + 1].res = "Pending"
<1> DEFINE Is(n) == /\ \A i \in 1 .. n : q[i].res # "Pending"
                    /\ n < Len(q) => q[n + 1].res = "Pending"
           T == {i \in 1 .. Len(q) : q[i].res = "Pending"}
<1>0. Len(q) \in Nat
  OBVIOUS
<1>1. \E n \in 0 .. Len(q) : Is(n)
  <2>1. CASE T = {}
    BY <1>0, <2>1
  <2>2. CASE T # {}
    <3>1. PICK x \in T : \A y \in T : x <= y
      <4>1. T \in SUBSET Nat
        BY <1>0
      <4> HIDE DEF T
      <4> QED BY <2>2, <4>1, Smallest
    <3>2. x - 1 \in 0 .. Len(q) /\ x - 1 + 1 = x
      BY <1>0
    <3>3. \A i \in 1 .. (x - 1) : i \in 1 .. Len(q) /\ ~(x <= i)
      BY <1>0
    <3>4. Is(x - 1)
      BY <3>1, <3>2, <3>3
    <3> QED BY <3>2, <3>4, Zenon
  <2> QED BY <2>1, <2>2
<1>2. ReadyPrefix(q) = CHOOSE n \in 0 .. Len(q) : Is(n)
  BY DEF ReadyPrefix
<1>3. ReadyPrefix(q) \in 0 .. Len(q) /\ Is(ReadyPrefix(q))
  <2> HIDE DEF Is
  <2> QED BY <1>1, <1>2
<1> QED BY <1>3

\* The elements of a set of places can be put in ascending order. (By induction on
\* the largest place.)
LEMMA InOrderExists ==
    ASSUME NEW n \in Nat, NEW S \in SUBSET (1 .. n)
    PROVE  \E k \in 0 .. n : \E s \in [1 .. k -> S] : Increasing(s) /\ Elements(s) = S
<1> DEFINE Ordered(m, U) == \E k \in 0 .. m : \E s \in [1 .. k -> U] : Increasing(s) /\ Elements(s) = U
           T == {m \in Nat : \E U \in SUBSET (1 .. m) : ~Ordered(m, U)}
<1>1. Ordered(0, {})
  <2>1. 1 .. 0 = {} /\ 0 \in 0 .. 0
    OBVIOUS
  <2>2. [j \in 1 .. 0 |-> j] \in [1 .. 0 -> {}]
    BY <2>1
  <2>3. Increasing([j \in 1 .. 0 |-> j]) /\ Elements([j \in 1 .. 0 |-> j]) = {}
    BY <2>1 DEF Increasing, Elements
  <2> QED BY <2>1, <2>2, <2>3, Zenon
<1>2. ASSUME NEW m \in Nat, NEW U \in SUBSET (1 .. m + 1), \A V \in SUBSET (1 .. m) : Ordered(m, V)
      PROVE  Ordered(m + 1, U)
  <2>1. U \ {m + 1} \in SUBSET (1 .. m)
    OBVIOUS
  <2>2. PICK k \in 0 .. m : \E s \in [1 .. k -> U \ {m + 1}] : Increasing(s) /\ Elements(s) = U \ {m + 1}
    BY <1>2, <2>1, Zenon
  <2>3. PICK s \in [1 .. k -> U \ {m + 1}] : Increasing(s) /\ Elements(s) = U \ {m + 1}
    BY <2>2
  <2>4. k \in 0 .. m + 1 /\ k + 1 \in 0 .. m + 1
    OBVIOUS
  <2>5. CASE m + 1 \notin U
    <3>1. U \ {m + 1} = U
      BY <2>5
    <3> QED BY <2>3, <2>4, <3>1
  <2>6. CASE m + 1 \in U
    <3>1. (U \ {m + 1}) \cup {m + 1} = U
      BY <2>6
    <3>2. \E u \in [1 .. k + 1 -> (U \ {m + 1}) \cup {m + 1}] :
             Increasing(u) /\ Elements(u) = (U \ {m + 1}) \cup {m + 1}
      BY <2>1, <2>3, IncreasingAppend, Zenon
    <3>3. \E u \in [1 .. k + 1 -> U] : Increasing(u) /\ Elements(u) = U
      BY <3>1, <3>2, Zenon
    <3> QED BY <2>4, <3>3
  <2> QED BY <2>5, <2>6
<1> HIDE DEF Ordered
<1>3. T = {}
  <2> SUFFICES ASSUME T # {}
               PROVE  FALSE
    OBVIOUS
  <2>1. T \in SUBSET Nat
    OBVIOUS
  <2>2. PICK m \in T : \A y \in T : m <= y
    <3> HIDE DEF T
    <3> QED BY <2>1, Smallest
  <2>3. m # 0
    <3>1. \A U \in SUBSET (1 .. 0) : U = {}
      OBVIOUS
    <3> QED BY <1>1, <3>1, Zenon
  <2>4. m - 1 \in Nat /\ (m - 1) + 1 = m /\ ~(m <= m - 1)
    BY <2>3
  <2>5. m - 1 \notin T
    <3> HIDE DEF T
    <3> QED BY <2>2, <2>4
  <2>6. \A V \in SUBSET (1 .. m - 1) : Ordered(m - 1, V)
    BY <2>4, <2>5
  <2>7. \A U \in SUBSET (1 .. m) : Ordered(m, U)
    BY <1>2, <2>4, <2>6
  <2> QED BY <2>7
<1>4. Ordered(n, S)
  BY <1>3
<1> QED BY <1>4 DEF Ordered

-----------------------------------------------------------------------------
(* Writing finished entries. *)

\* Responses gives the requests of the entries that have a response, in order.
LEMMA ResponsesAre ==
    ASSUME NEW m \in Nat, NEW w \in Nat, NEW es, Follow(es, m, w)
    PROVE  /\ Responses(es) \in Seq(Nat) /\ Increasing(Responses(es))
           /\ Elements(Responses(es)) = {n \in w + 1 .. w + m : es[n - w].res \in {"some", "bad"}}
<1> DEFINE has == {i \in DOMAIN es : es[i].res \in {"some", "bad"}}
           Is(s) == Increasing(s) /\ Elements(s) = has
           all == UNION {[1 .. n -> has] : n \in 0 .. m}
           order == CHOOSE s \in all : Is(s)
<1>1. has \in SUBSET (1 .. m)
  BY DEF Follow
<1>2. \E s \in all : Is(s)
  <2> HIDE DEF has
  <2>1. PICK k \in 0 .. m : \E s \in [1 .. k -> has] : Increasing(s) /\ Elements(s) = has
    BY <1>1, InOrderExists, Zenon
  <2>2. PICK s \in [1 .. k -> has] : Increasing(s) /\ Elements(s) = has
    BY <2>1
  <2>3. s \in all
    OBVIOUS
  <2> QED BY <2>2, <2>3
<1>3. order \in all /\ Is(order)
  <2> HIDE DEF all, Is
  <2> QED BY <1>2
<1>4. Responses(es) = [j \in DOMAIN order |-> es[order[j]].req]
  BY DEF Responses, Follow, Increasing, Elements
<1> HIDE DEF order
<1>5. PICK c \in 0 .. m : order \in [1 .. c -> has]
  BY <1>3
<1>6. \A j \in 1 .. c : order[j] \in 1 .. m /\ es[order[j]].req = w + order[j]
  BY <1>1, <1>5 DEF Follow
<1>7. Responses(es) = [j \in 1 .. c |-> w + order[j]]
  BY <1>4, <1>5, <1>6
<1>8. Responses(es) \in Seq(Nat)
  BY <1>6, <1>7
<1>9. Increasing(Responses(es))
  BY <1>3, <1>5, <1>6, <1>7 DEF Increasing
<1>10. \A i \in has : \E j \in 1 .. c : order[j] = i
  <2> HIDE DEF has
  <2> QED BY <1>3, <1>5, SMTT(30) DEF Elements
<1>11. ASSUME NEW n
       PROVE  n \in Elements(Responses(es)) <=> n \in w + 1 .. w + m /\ n - w \in has
  <2>1. n \in Elements(Responses(es)) <=> \E j \in 1 .. c : n = w + order[j]
    BY <1>7 DEF Elements
  <2>2. ASSUME NEW j \in 1 .. c, n = w + order[j]
        PROVE  n \in w + 1 .. w + m /\ n - w \in has
    <3>1. order[j] \in has /\ order[j] \in 1 .. m
      BY <1>5, <1>6
    <3>2. n - w = order[j] /\ n \in w + 1 .. w + m
      BY <2>2, <3>1
    <3> HIDE DEF has
    <3> QED BY <3>1, <3>2
  <2>3. ASSUME n \in w + 1 .. w + m, n - w \in has
        PROVE  \E j \in 1 .. c : n = w + order[j]
    BY <1>10, <2>3
  <2> QED BY <2>1, <2>2, <2>3
<1>12. \A n \in w + 1 .. w + m : n - w \in 1 .. m
  OBVIOUS
<1> QED BY <1>8, <1>9, <1>11, <1>12 DEF Follow

\* The error left behind by written entries.
LEMMA ErrorAfterIs ==
    ASSUME NEW m \in Nat, NEW es, DOMAIN es = 1 .. m, NEW err \in {"None", "Encoder", "Service"}
    PROVE  /\ ErrorAfter(es, err) \in {"None", "Encoder", "Service"}
           /\ ErrorLeft(es, m, err, ErrorAfter(es, err))
<1> DEFINE failed == {i \in DOMAIN es : es[i].res \in {"err", "bad"}}
           l == CHOOSE i \in failed : \A j \in failed : j <= i
<1>1. ErrorAfter(es, err) = IF failed = {} THEN err
                            ELSE IF es[l].res = "err" THEN "Service" ELSE "Encoder"
  BY DEF ErrorAfter
<1>2. failed # {} => l \in failed /\ \A j \in failed : j <= l
  <2>1. failed \in SUBSET (0 .. m)
    OBVIOUS
  <2> HIDE DEF failed
  <2> QED BY <2>1, Largest, Zenon
<1> HIDE DEF l
<1>3. CASE failed = {}
  BY <1>1, <1>3 DEF ErrorLeft
<1>4. CASE failed # {}
  <2>1. l \in 1 .. m /\ es[l].res \in {"err", "bad"}
    BY <1>2, <1>4
  <2>2. \A i \in 1 .. m : es[i].res = "err" => i <= l
    BY <1>2, <1>4
  <2>3. ErrorAfter(es, err) = IF es[l].res = "err" THEN "Service" ELSE "Encoder"
    BY <1>1, <1>4
  <2> HIDE DEF failed
  <2>4. ASSUME NEW i \in 1 .. m, es[i].res = "err", es[l].res = "bad"
        PROVE  l > i
    <3>1. i <= l /\ i # l
      BY <2>2, <2>4
    <3> QED BY <2>1, <3>1
  <2> QED BY <2>1, <2>3, <2>4, Zenon DEF ErrorLeft
<1> QED BY <1>3, <1>4

\* Writing the entries that follow the written calls.
LEMMA WriteStep ==
    ASSUME out \in Seq(Nat), Increasing(out), error \in {"None", "Encoder", "Service"},
           NEW m \in Nat, NEW w \in Nat, NEW es \in Seq(QEntry), Follow(es, m, w), Write(es),
           Elements(out) \subseteq 1 .. w
    PROVE  Wrote(es, m, w)
<1> DEFINE given == {n \in w + 1 .. w + m : es[n - w].res \in {"some", "bad"}}
<1>1. PICK rs \in Seq(Nat) : rs = Responses(es) /\ Increasing(rs) /\ Elements(rs) = given
  <2> HIDE DEF given
  <2> QED BY ResponsesAre DEF given
<1>2. \A x \in given : x > w
  OBVIOUS
<1> HIDE DEF given
<1>3. out' = out \o rs /\ error' = ErrorAfter(es, error)
  BY <1>1 DEF Write
<1>4. PICK a \in Nat, b \in Nat : a = Len(out) /\ b = Len(rs) /\ DOMAIN out = 1 .. a /\ DOMAIN rs = 1 .. b
  OBVIOUS
<1>5. /\ out' \in Seq(Nat) /\ DOMAIN out' = 1 .. a + b
      /\ \A i \in 1 .. a : out'[i] = out[i]
      /\ \A i \in 1 .. b : out'[a + i] = rs[i]
  BY <1>3, <1>4
<1>6. /\ \A i \in 1 .. a : out[i] \in Nat /\ out[i] <= w
      /\ \A i \in 1 .. b : rs[i] \in Nat /\ rs[i] > w
  <2>1. \A i \in 1 .. a : out[i] \in Elements(out)
    BY <1>4 DEF Elements
  <2>2. \A i \in 1 .. b : rs[i] \in Nat /\ rs[i] \in given
    <3>1. \A i \in 1 .. b : rs[i] \in Nat
      BY <1>4
    <3>2. \A i \in 1 .. b : rs[i] \in Elements(rs)
      BY <1>4, Zenon DEF Elements
    <3> QED BY <1>1, <3>1, <3>2, Zenon
  <2> QED BY <1>2, <2>1, <2>2, SMTT(30)
<1>7. Increasing(out') /\ Elements(out') = Elements(out) \cup Elements(rs)
  <2>1. PICK c : c = out'
    OBVIOUS
  <2>2. Joined(out, a, rs, b, c, w)
    BY <1>4, <1>5, <1>6, <2>1, Zenon DEF Joined
  <2>3. Increasing(rs)
    BY <1>1
  <2>4. Increasing(c) /\ Elements(c) = Elements(out) \cup Elements(rs)
    BY <2>2, <2>3, IncreasingJoin
  <2> QED BY <2>1, <2>4, Zenon
<1>8. error' \in {"None", "Encoder", "Service"} /\ ErrorLeft(es, m, error, error')
  <2>1. DOMAIN es = 1 .. m
    BY DEF Follow
  <2>2. ErrorAfter(es, error) \in {"None", "Encoder", "Service"} /\ ErrorLeft(es, m, error, ErrorAfter(es, error))
    BY <2>1, ErrorAfterIs, Zenon
  <2> QED BY <1>3, <2>2, Zenon
<1> QED BY <1>1, <1>5, <1>7, <1>8, Zenon DEF Wrote, given

=============================================================================
