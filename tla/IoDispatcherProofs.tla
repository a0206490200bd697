------------------------ MODULE IoDispatcherProofs ------------------------
(***************************************************************************)
(* Proofs about the framed dispatcher of io.rs, for every range of         *)
(* response indexes and every bound: the response indexes stay right as    *)
(* they wrap, responses are written in request order, and the dispatcher   *)
(* stops drained, with the error it met.                                   *)
(***************************************************************************)
EXTENDS ResponseQueueProofs

\* The error at hand is one of the service's if there was one and no response after
\* it was refused, and only then.
ErrorKept ==
    /\ \A n \in 1 .. Written : hist[n] = "err" =>
         error = "Service" \/ \E j \in 1 .. Written : j > n /\ hist[j] = "bad"
    /\ ready_err => error = "Service" \/ \E j \in 1 .. Written : hist[j] = "bad"
    /\ error = "Service" => ready_err \/ \E n \in 1 .. Written : hist[n] = "err"

\* What the service will have been told once the item at hand is given to it.
Telling == IF item = "WBEnabled" THEN TRUE ELSE IF item = "WBDisabled" THEN FALSE ELSE told

\* How far the poll can be in each state of the dispatcher.
PollState ==
    /\ told \in BOOLEAN
    /\ pc \in {"idle", "pool", "loop", "call", "callflush", "flush", "done"}
    /\ st \in {"Processing", "Backpressure", "Stop", "Shutdown"}
    /\ st = "Shutdown" => queue = <<>> /\ pc \in {"idle", "pool", "loop", "done"}
    /\ pc = "done" => st = "Shutdown"
    /\ pc \in {"idle", "pool", "loop"} =>
         (st = "Processing" => told = FALSE) /\ (st = "Backpressure" => told = TRUE)
    /\ pc = "call" => (st = "Processing" => Telling = FALSE) /\ (st = "Backpressure" => Telling = TRUE)
    /\ pc = "callflush" => st # "Processing" /\ (st = "Backpressure" => Telling = TRUE)
    /\ pc = "flush" => st # "Processing" /\ (st = "Backpressure" => told = TRUE)

\* The inductive invariant.
IoInv == RespInv /\ ErrorKept /\ PollState

-----------------------------------------------------------------------------
(* The steps that leave the responses alone. *)

\* A step that leaves the responses alone, but for errors and the future in place.
RespStands ==
    /\ UNCHANGED <<base, queue, response, response_idx, tasks, out, hist>>
    /\ response_res' \in Outcome /\ error' \in {"None", "Encoder", "Service"}

\* It keeps RespInv.
LEMMA StandsRespInv ==
    ASSUME RespInv, RespStands
    PROVE  RespInv'
<1>1. RespTypeOK'
  BY DEF RespInv, RespTypeOK, RespStands
<1>2. QueueOfCalls' /\ OutOfCalls'
  BY DEF RespInv, QueueOfCalls, OutOfCalls, Written, RespStands
<1>3. IndexMatch' /\ OneTaskPerCall'
  BY DEF RespInv, IndexMatch, OneTaskPerCall, IdxOf, wrapping_add, RespStands
<1> QED BY <1>1, <1>2, <1>3 DEF RespInv

\* The results of calls as the abstract specification sees them.
Asked == \E o \in Outcome : hist' = Append(hist, o)

Answered ==
    \E n \in DOMAIN hist, v \in Results : hist[n] = "Pending" /\ hist' = [hist EXCEPT ![n] = v]

\* The step of the dispatcher's poll or of a response task that concerns responses.
RespStep ==
    /\ RespInv'
    /\ \/ RespStands
       \/ (Asked \/ Answered) /\ ErrorOfWritten

\* An error of the service stays when further results are written.
LEMMA KeepsError ==
    ASSUME RespInv, RespInv', ErrorKept, ErrorOfWritten, Asked \/ Answered, UNCHANGED ready_err
    PROVE  ErrorKept'
<1>1. hist \in Seq(Outcome) /\ Len(hist) \in Nat /\ Written \in Nat /\ Written <= Len(hist) /\ Written' \in Nat
  <2>1. hist \in Seq(Outcome) /\ queue \in Seq(QEntry) /\ Len(queue) <= Len(hist)
    BY DEF RespInv, RespTypeOK, QueueOfCalls
  <2>2. hist' \in Seq(Outcome) /\ queue' \in Seq(QEntry) /\ Len(queue') <= Len(hist')
    BY DEF RespInv, RespTypeOK, QueueOfCalls
  <2>3. Len(hist) \in Nat /\ Len(queue) \in Nat /\ Len(hist') \in Nat /\ Len(queue') \in Nat
    BY <2>1, <2>2
  <2> QED BY <2>1, <2>2, <2>3 DEF Written
<1>2. \A n \in 1 .. Written : n \in 1 .. Len(hist) /\ hist[n] # "Pending"
  <2>1. \A n \in 1 .. Written : n \in 1 .. Len(hist)
    BY <1>1
  <2> QED BY <2>1 DEF RespInv, QueueOfCalls
<1>3. \A n \in 1 .. Written : hist'[n] = hist[n]
  <2>1. ASSUME NEW o \in Outcome, hist' = Append(hist, o), NEW n \in 1 .. Len(hist)
        PROVE  hist'[n] = hist[n]
    BY <1>1, <2>1
  <2>2. ASSUME NEW q \in DOMAIN hist, NEW v \in Results, hist' = [hist EXCEPT ![q] = v], NEW n \in 1 .. Len(hist), n # q
        PROVE  hist'[n] = hist[n]
    BY <1>1, <2>2
  <2> QED BY <1>2, <2>1, <2>2 DEF Asked, Answered
<1>4. /\ \A n \in 1 .. Written : n \in 1 .. Written'
      /\ \A n \in Written + 1 .. Written' : n \in 1 .. Written'
      /\ \A n \in 1 .. Written' : n \in 1 .. Written \/ n \in Written + 1 .. Written'
      /\ \A n \in 1 .. Written, j \in Written + 1 .. Written' : j > n
  BY <1>1 DEF ErrorOfWritten
<1>5. \/ error' = error
      \/ error' = "Service" /\ \E n \in Written + 1 .. Written' : hist'[n] = "err"
      \/ error' = "Encoder" /\ \E n \in Written + 1 .. Written' : hist'[n] = "bad"
  BY Zenon DEF ErrorOfWritten
<1>6. ASSUME NEW n \in 1 .. Written', hist'[n] = "err"
      PROVE  error' = "Service" \/ \E j \in 1 .. Written' : j > n /\ hist'[j] = "bad"
  <2>1. CASE n \in Written + 1 .. Written'
    BY <1>4, <1>6, <2>1, Zenon DEF ErrorOfWritten
  <2>2. CASE n \in 1 .. Written
    <3>1. error = "Service" \/ \E j \in 1 .. Written : j > n /\ hist[j] = "bad"
      BY <1>3, <1>6, <2>2, Zenon DEF ErrorKept
    <3>2. CASE error = "Service"
      BY <1>4, <1>5, <2>2, <3>2, Zenon
    <3>3. CASE \E j \in 1 .. Written : j > n /\ hist[j] = "bad"
      BY <1>3, <1>4, <3>3, Zenon
    <3> QED BY <3>1, <3>2, <3>3
  <2> QED BY <1>4, <2>1, <2>2, Zenon
<1>7. ready_err' => error' = "Service" \/ \E j \in 1 .. Written' : hist'[j] = "bad"
  BY <1>3, <1>4, <1>5, Zenon DEF ErrorKept
<1>8. error' = "Service" => ready_err' \/ \E n \in 1 .. Written' : hist'[n] = "err"
  <2>1. "Encoder" # "Service"
    OBVIOUS
  <2> QED BY <1>3, <1>4, <1>5, <2>1, Zenon DEF ErrorKept
<1> QED BY <1>6, <1>7, <1>8, Zenon DEF ErrorKept

\* A step that has nothing to do with responses.
LEMMA QuietStep ==
    ASSUME IoInv, UNCHANGED <<resp, ready_err>>
    PROVE  RespStep /\ ErrorKept'
<1>1. RespInv /\ ErrorKept
  BY DEF IoInv
<1>2. RespStands
  BY <1>1 DEF resp, RespStands, RespInv, RespTypeOK
<1>3. RespInv'
  BY <1>1, <1>2, StandsRespInv
<1>4. ErrorKept'
  BY <1>1 DEF ErrorKept, resp, Written
<1> QED BY <1>2, <1>3, <1>4 DEF RespStep

\* The bound on what calls return leaves only results.
LEMMA ReturnedAreResults == MayReturn \subseteq Results
BY DEF MayReturn

\* The error that poll_service takes or leaves, and the future that can be polled.
LEMMA ErrorStep ==
    ASSUME IoInv, poll_service_error \/ response_done
    PROVE  RespStep /\ ErrorKept'
<1>1. RespInv /\ ErrorKept
  BY DEF IoInv
<1>2. CASE poll_service_error
  <2>1. /\ UNCHANGED <<base, queue, response, response_idx, response_res, tasks, out, hist>>
        /\ \/ error = "Encoder" /\ error' = "None" /\ UNCHANGED ready_err
           \/ UNCHANGED <<error, ready_err>>
           \/ error' = "Service" /\ ready_err'
    BY <1>2 DEF poll_service_error, Rest
  <2>2. RespStands
    BY <1>1, <2>1 DEF RespStands, RespInv, RespTypeOK
  <2>3. RespInv'
    BY <1>1, <2>2, StandsRespInv
  <2>4. ErrorKept'
    BY <1>1, <2>1 DEF ErrorKept, Written
  <2> QED BY <2>2, <2>3, <2>4 DEF RespStep
<1>3. CASE response_done
  <2>1. /\ UNCHANGED <<error, base, queue, response, response_idx, tasks, out, hist, ready_err>>
        /\ response_res' \in Results
    BY <1>3, ReturnedAreResults DEF response_done, dsp
  <2>2. RespStands
    BY <1>1, <2>1 DEF RespStands, RespInv, RespTypeOK, Outcome
  <2>3. RespInv'
    BY <1>1, <2>2, StandsRespInv
  <2>4. ErrorKept'
    BY <1>1, <2>1 DEF ErrorKept, Written
  <2> QED BY <2>2, <2>3, <2>4 DEF RespStep
<1> QED BY <1>2, <1>3

\* The steps of the poll between two calls of the service keep the queue, and what
\* the service was told agrees with the state when the loop goes on.
LEMMA LoopStep ==
    ASSUME PollState,
           \/ poll_pool \/ poll_service_error \/ poll_service_pending \/ poll_recv_decode
           \/ backpressure \/ poll_flush \/ stop \/ shutdown
    PROVE  PollState'
<1> USE DEF PollState
<1>1. CASE poll_pool
  BY <1>1 DEF poll_pool, dsp, resp
<1>2. CASE poll_service_error
  BY <1>2 DEF poll_service_error, Rest, CallPc, Telling
<1>3. CASE poll_service_pending
  BY <1>3 DEF poll_service_pending, Rest, CallPc, Telling, ReturnPending, dsp, resp
<1>4. CASE poll_recv_decode
  BY <1>4 DEF poll_recv_decode, Rest, Telling, ReturnPending, dsp, resp
<1>5. CASE backpressure
  BY <1>5 DEF backpressure, dsp, resp
<1>6. CASE poll_flush
  BY <1>6, SMTT(30) DEF poll_flush, Rest, Telling, ReturnPending, dsp, resp
<1>7. CASE stop
  BY <1>7 DEF stop, Drained, ReturnPending, dsp, resp
<1>8. CASE shutdown
  BY <1>8 DEF shutdown, dsp, resp
<1> QED BY <1>1, <1>2, <1>3, <1>4, <1>5, <1>6, <1>7, <1>8, ZenonT(30)

\* What else happens leaves the poll alone.
LEMMA OutsideStep ==
    ASSUME PollState,
           \/ response_done \/ recv_frame \/ io_signal \/ flushed \/ service_busy \/ service_free
           \/ shut_done
    PROVE  PollState'
<1>1. UNCHANGED <<pc, item, st, queue, told>>
  BY DEF response_done, recv_frame, io_signal, flushed, service_busy, service_free, shut_done, ioinner,
         dsp, resp
<1> QED BY <1>1 DEF PollState, Telling

\* The connection starts with nothing called.
LEMMA InitIoInv ==
    ASSUME Init
    PROVE  IoInv
<1>1. RespTypeOK
  BY IoAssumption DEF Init, RespTypeOK, Outcome
<1>2. Written = 0 /\ Len(queue) = 0 /\ Len(hist) = 0
  BY DEF Init, Written
<1>3. QueueOfCalls
  BY <1>2, IoAssumption DEF Init, QueueOfCalls
<1>4. IndexMatch /\ OneTaskPerCall
  BY DEF Init, IndexMatch, OneTaskPerCall
<1>5. OutOfCalls
  BY <1>2 DEF Init, OutOfCalls, Increasing, Elements
<1>6. ErrorKept
  BY <1>2 DEF Init, ErrorKept
<1>7. PollState
  BY Zenon DEF Init, PollState
<1> QED BY <1>1, <1>3, <1>4, <1>5, <1>6, <1>7, SMTT(30) DEF IoInv, RespInv

-----------------------------------------------------------------------------
(* The result of a call. *)

\* A result behind the front is stored in its place.
LEMMA StoreResult ==
    ASSUME queue \in Seq(QEntry), base \in 0 .. Wrap - 1, NEW i \in 1 .. Len(queue), i # 1, NEW e \in QEntry,
           queue # <<>> => queue[1].res = "Pending",
           queue' = [queue EXCEPT ![i] = e], UNCHANGED <<base, out, error>>
    PROVE  Pops(i, e, 0)
<1>1. /\ queue' \in Seq(QEntry) /\ Len(queue') = Len(queue)
      /\ \A j \in 1 .. Len(queue) : queue'[j] = IF j = i THEN e ELSE queue[j]
  BY ReplacedIs
<1>2. Len(queue) \in Nat /\ 1 \in 1 .. Len(queue)
  OBVIOUS
<1>3. queue'[1].res = "Pending"
  BY <1>1, <1>2
<1>4. base' = wrapping_add(base, 0)
  BY IoAssumption DEF wrapping_add
<1>5. /\ 0 \in 0 .. Len(queue) /\ (0 > 0 <=> i = 1) /\ Len(queue) - 0 = Len(queue)
      /\ \A j \in 1 .. Len(queue) : ~(j <= 0) /\ j + 0 = j
  BY <1>2
<1> QED BY <1>1, <1>3, <1>4, <1>5 DEF Pops

\* A result at the front is popped, with the k finished entries behind it.
PopsFront(e, k) ==
    /\ k = ReadyPrefix(Tail(queue))
    /\ queue' = SubSeq(queue, k + 2, Len(queue)) /\ base' = wrapping_add(base, k + 1)
    /\ Write(<<e>> \o SubSeq(queue, 2, k + 1))

\* That is what Pops says of it.
LEMMA PopResult ==
    ASSUME queue \in Seq(QEntry), queue # <<>>, NEW e, NEW k, PopsFront(e, k)
    PROVE  k + 1 \in Nat /\ Pops(1, e, k + 1)
<1>1. PICK n \in Nat : n = Len(queue) /\ n > 0
  OBVIOUS
<1>2. PICK t \in Seq(QEntry) : t = Tail(queue) /\ Len(t) = n - 1 /\ \A j \in 1 .. n - 1 : t[j] = queue[j + 1]
  <2>1. /\ Tail(queue) \in Seq(QEntry) /\ Len(Tail(queue)) = n - 1
        /\ \A j \in 1 .. n - 1 : Tail(queue)[j] = queue[j + 1]
    BY <1>1
  <2> QED BY <2>1, Zenon
<1>3. k \in 0 .. Len(t) /\ (\A j \in 1 .. k : t[j].res # "Pending") /\ (k < Len(t) => t[k + 1].res = "Pending")
  BY <1>2, ReadyPrefixIs, Zenon DEF PopsFront
<1>4. k \in 0 .. n - 1
  BY <1>2, <1>3
<1>5. /\ k + 2 \in 1 .. n + 1 /\ n \in 0 .. n /\ k + 2 <= n + 1 /\ n - (k + 2) + 1 = n - (k + 1)
      /\ k + 1 \in 0 .. n /\ k + 1 > 0 /\ k + 1 # 0 /\ k + 1 \in Nat
  BY <1>1, <1>4
<1>6. /\ \A j \in 1 .. n - (k + 1) : k + 2 + j - 1 = j + (k + 1) /\ j + (k + 1) # 1
      /\ \A j \in 1 .. n : j <= k + 1 /\ j # 1 => j - 1 \in 1 .. k /\ j - 1 \in 1 .. n - 1 /\ (j - 1) + 1 = j
  BY <1>1, <1>4
<1>7. /\ queue' \in Seq(QEntry) /\ Len(queue') = n - (k + 1)
      /\ \A j \in 1 .. n - (k + 1) : queue'[j] = queue[j + (k + 1)]
  <2>1. /\ SubSeq(queue, k + 2, n) \in Seq(QEntry) /\ Len(SubSeq(queue, k + 2, n)) = n - (k + 2) + 1
        /\ \A j \in 1 .. n - (k + 2) + 1 : SubSeq(queue, k + 2, n)[j] = queue[k + 2 + j - 1]
    BY <1>1, <1>5, SubSeqIs, SMTT(30)
  <2>2. queue' = SubSeq(queue, k + 2, n)
    BY <1>1 DEF PopsFront
  <2> QED BY <1>5, <1>6, <2>1, <2>2, Zenon
<1>8. \A j \in 1 .. n : j <= k + 1 /\ j # 1 => queue[j].res # "Pending"
  <2> SUFFICES ASSUME NEW j \in 1 .. n, j <= k + 1, j # 1
               PROVE  queue[j].res # "Pending"
    OBVIOUS
  <2>1. j - 1 \in 1 .. k /\ j - 1 \in 1 .. n - 1 /\ (j - 1) + 1 = j
    BY <1>6
  <2>2. t[j - 1] = queue[(j - 1) + 1] /\ t[j - 1].res # "Pending"
    BY <1>2, <1>3, <2>1, Zenon
  <2> QED BY <2>1, <2>2
<1>9. queue' # <<>> => queue'[1].res = "Pending"
  <2>1. ASSUME Len(queue') # 0
        PROVE  queue'[1].res = "Pending"
    <3>1. 1 \in 1 .. n - (k + 1) /\ k < n - 1 /\ k + 1 \in 1 .. n - 1
      BY <1>4, <1>7, <2>1
    <3>2. queue'[1] = queue[1 + (k + 1)] /\ t[k + 1] = queue[(k + 1) + 1] /\ 1 + (k + 1) = (k + 1) + 1
      BY <1>2, <1>4, <1>7, <3>1
    <3> QED BY <1>2, <1>3, <3>1, <3>2
  <2>2. Len(queue') = 0 => queue' = <<>>
    BY <1>7
  <2> QED BY <2>1, <2>2
<1>10. Pops(1, e, k + 1)
  BY <1>1, <1>5, <1>6, <1>7, <1>8, <1>9, SMTT(30) DEF Pops, PopsFront
<1> QED BY <1>5, <1>10

\* handle_result, called with the index of entry i, takes entry i's result there.
LEMMA HandleResult ==
    ASSUME RespTypeOK, QueueOfCalls, NEW i \in 1 .. Len(queue), NEW v \in Results,
           NEW e, e = [req |-> queue[i].req, res |-> v], handle_result(e, IdxOf(i))
    PROVE  \E d \in Nat : Pops(i, e, d)
<1>1. queue \in Seq(QEntry) /\ base \in 0 .. Wrap - 1
  BY DEF RespTypeOK
<1>2. e \in QEntry
  <2>1. queue[i] \in QEntry
    BY <1>1
  <2>2. queue[i].req \in Nat \ {0} /\ v \in Outcome
    BY <2>1 DEF QEntry, Outcome
  <2> QED BY <2>2 DEF QEntry
<1>3. wrapping_sub(IdxOf(i), base) = i - 1
  <2>1. i - 1 \in 0 .. Wrap - 1
    BY <1>1, IoAssumption DEF QueueOfCalls
  <2> QED BY <1>1, <2>1, IndexPlace DEF IdxOf
<1>4. CASE i # 1
  <2>1. queue' = [queue EXCEPT ![i] = e] /\ UNCHANGED <<base, out, error>>
    BY <1>3, <1>4 DEF handle_result
  <2>2. Pops(i, e, 0)
    BY <1>1, <1>2, <1>4, <2>1, StoreResult, ZenonT(30) DEF QueueOfCalls
  <2> QED BY <2>2
<1>5. CASE i = 1
  <2>1. PopsFront(e, ReadyPrefix(Tail(queue)))
    BY <1>3, <1>5 DEF handle_result, PopsFront
  <2>2. queue # <<>>
    BY <1>5
  <2>3. PICK d \in Nat : Pops(1, e, d)
    BY <1>1, <2>1, <2>2, PopResult, ZenonT(30)
  <2> QED BY <1>5, <2>3
<1> QED BY <1>4, <1>5

\* The result of an outstanding call keeps the queue and the written responses right.
LEMMA ResultQueue ==
    ASSUME RespInv, NEW i \in 1 .. Len(queue), NEW v \in Results, queue[i].res = "Pending",
           NEW e, e = [req |-> queue[i].req, res |-> v], NEW d \in Nat, Pops(i, e, d),
           hist' = [hist EXCEPT ![queue[i].req] = v]
    PROVE  QueueOfCalls' /\ OutOfCalls' /\ ErrorOfWritten
           /\ out' \in Seq(Nat) /\ error' \in {"None", "Encoder", "Service"}
<1>1. PICK w \in Nat : Counts(w, i, d) /\ Moved(w, i, v, e, d)
  BY ResultMoves, Zenon
<1>2. hist' \in Seq(Outcome) /\ e \in QEntry
  BY ResultMoves, Zenon
<1>3. QueueOfCalls'
  BY <1>1, MovedQueue, SMTT(30)
<1>4. OutOfCalls /\ out \in Seq(Nat) /\ error \in {"None", "Encoder", "Service"} /\ queue \in Seq(QEntry)
  BY DEF RespInv, RespTypeOK
<1>5. CASE d = 0
  <2>1. UNCHANGED <<out, error>>
    BY <1>5 DEF Pops
  <2>2. Counts(w, i, 0) /\ Moved(w, i, v, e, 0)
    BY <1>1, <1>5, SMTT(30)
  <2>3. OutOfCalls' /\ ErrorOfWritten
    BY <1>4, <2>1, <2>2, StoredOut, SMTT(30)
  <2> QED BY <1>3, <1>4, <2>1, <2>3, SMTT(30)
<1>6. CASE d # 0
  <2>1. d \in 1 .. Len(queue) /\ Write(<<e>> \o SubSeq(queue, 2, d))
    BY <1>6 DEF Pops
  <2>2. PICK es : es = <<e>> \o SubSeq(queue, 2, d)
    BY Zenon
  <2>3. es \in Seq(QEntry) /\ PoppedOf(queue, e, d, es)
    BY <1>2, <1>4, <2>1, <2>2, PoppedIs, ZenonT(30)
  <2>4. Follow(es, d, w) /\ \A j \in 1 .. d : es[j].res = hist'[w + j]
    BY <1>1, <1>6, <2>3, MovedFollow, SMTT(30)
  <2>5. Increasing(out) /\ Elements(out) \subseteq 1 .. w
    BY <1>1, <1>4, SMTT(30) DEF OutOfCalls, Counts
  <2>6. Write(es)
    BY <2>1, <2>2, SMTT(30)
  <2>7. Wrote(es, d, w)
    BY <1>4, <2>1, <2>3, <2>4, <2>5, <2>6, WriteStep, SMTT(30)
  <2>8. OutOfCalls' /\ ErrorOfWritten
    BY <1>1, <1>2, <1>4, <2>4, <2>7, PoppedOut, ZenonT(30)
  <2>9. out' \in Seq(Nat) /\ error' \in {"None", "Encoder", "Service"}
    BY <2>7 DEF Wrote
  <2> QED BY <1>3, <2>8, <2>9, SMTT(30)
<1> QED BY <1>5, <1>6

\* The result of an outstanding call, polled in place or spawned, keeps RespInv.
LEMMA ResultStep ==
    ASSUME RespInv, NEW i \in 1 .. Len(queue), NEW v \in Results, queue[i].res = "Pending",
           handle_result([req |-> queue[i].req, res |-> v], IdxOf(i)),
           hist' = [hist EXCEPT ![queue[i].req] = v],
           \/ /\ response = queue[i].req /\ response' = 0 /\ UNCHANGED tasks
           \/ /\ \E t \in tasks : t.req = queue[i].req /\ tasks' = tasks \ {t}
              /\ UNCHANGED response,
           UNCHANGED response_idx, response_res' \in Outcome
    PROVE  /\ RespInv' /\ ErrorOfWritten /\ Len(queue') <= Len(queue)
           /\ queue[i].req \in DOMAIN hist /\ hist[queue[i].req] = "Pending"
<1>1. PICK e : e = [req |-> queue[i].req, res |-> v]
  OBVIOUS
<1>2. RespTypeOK /\ QueueOfCalls
  BY DEF RespInv
<1>3. PICK d \in Nat : Pops(i, e, d)
  BY <1>1, <1>2, HandleResult, SMTT(30)
<1>4. /\ QueueOfCalls' /\ OutOfCalls' /\ ErrorOfWritten
      /\ base' \in 0 .. Wrap - 1 /\ queue' \in Seq(QEntry) /\ hist' \in Seq(Outcome)
      /\ out' \in Seq(Nat) /\ error' \in {"None", "Encoder", "Service"}
      /\ hist[queue[i].req] = "Pending" /\ queue[i].req \in DOMAIN hist
  <2>1. /\ QueueOfCalls' /\ OutOfCalls' /\ ErrorOfWritten
        /\ out' \in Seq(Nat) /\ error' \in {"None", "Encoder", "Service"}
    BY <1>1, <1>3, ResultQueue, Zenon
  <2>2. /\ base' \in 0 .. Wrap - 1 /\ hist' \in Seq(Outcome)
        /\ hist[queue[i].req] = "Pending" /\ queue[i].req \in DOMAIN hist
    BY <1>1, <1>3, ResultMoves, ZenonT(30)
  <2>3. queue' \in Seq(QEntry)
    BY <1>3, SMTT(30) DEF Pops
  <2> QED BY <2>1, <2>2, <2>3
<1>5. IndexMatch' /\ OneTaskPerCall'
  <2>1. IndexMatch /\ OneTaskPerCall /\ tasks \in SUBSET Task /\ i \in DOMAIN queue
    BY <1>2 DEF RespInv, RespTypeOK
  <2>2. e.res # "Pending"
    BY <1>1, NotPending
  <2>3. Shifted(i)
    BY <1>3, <2>2, PopsShifted
  <2>4. CASE response = queue[i].req /\ response' = 0 /\ UNCHANGED tasks
    BY <2>1, <2>3, <2>4, InPlaceIndex
  <2>5. ASSUME NEW t \in tasks, t.req = queue[i].req, tasks' = tasks \ {t}, UNCHANGED response
        PROVE  IndexMatch' /\ OneTaskPerCall'
    BY <2>1, <2>3, <2>5, TaskIndex, SMTT(30)
  <2> QED BY <2>4, <2>5
<1>6. /\ response' \in Nat /\ response_idx' \in 0 .. Wrap - 1 /\ response_res' \in Outcome
      /\ tasks' \in SUBSET Task
  BY <1>2 DEF RespTypeOK
<1>7. RespTypeOK'
  BY <1>4, <1>6 DEF RespTypeOK
<1>8. Len(queue') <= Len(queue)
  <2>1. Len(queue) \in Nat /\ Len(queue') = Len(queue) - d
    BY <1>2, <1>3 DEF Pops, RespTypeOK
  <2> QED BY <2>1
<1> QED BY <1>4, <1>5, <1>7, <1>8, ZenonT(30) DEF RespInv

-----------------------------------------------------------------------------
(* A call of the service. *)

\* A call of the service keeps RespInv: it finishes at once, is polled in place, or
\* is spawned.
LEMMA CallService ==
    ASSUME RespInv, Len(queue) < Wrap, NEW k, call_service(k)
    PROVE  /\ RespInv' /\ ErrorOfWritten
           /\ \E o \in Outcome : hist' = Append(hist, o)
<1> DEFINE r == Len(hist) + 1
<1>1. /\ response \in Nat /\ response_idx \in 0 .. Wrap - 1 /\ response_res \in Outcome
      /\ tasks \in SUBSET Task /\ out \in Seq(Nat) /\ error \in {"None", "Encoder", "Service"}
      /\ base \in 0 .. Wrap - 1 /\ hist \in Seq(Outcome)
  BY DEF RespInv, RespTypeOK
<1>2. IndexMatch /\ OneTaskPerCall /\ BackIdx \in 0 .. Wrap - 1
  BY BackIndex DEF RespInv
<1>3. r \in Nat \ {0} /\ response # r /\ \A t \in tasks : t.req # r
  BY <1>1, EarlierCalls
<1>4. "Pending" \in Outcome /\ \A v \in Results : v \in Outcome /\ v # "Pending"
  BY NotPending DEF Outcome
\* What the calls registered in the queue have in common.
<1>5. ASSUME NEW o \in Outcome, Registers(o), IndexMatch' /\ OneTaskPerCall',
             response' \in Nat /\ response_idx' \in 0 .. Wrap - 1 /\ response_res' \in Outcome,
             tasks' \in SUBSET Task
      PROVE  RespInv' /\ ErrorOfWritten
  <2>1. QueueOfCalls' /\ OutOfCalls' /\ ErrorOfWritten /\ queue' \in Seq(QEntry) /\ hist' \in Seq(Outcome)
    BY <1>5, RegistersCall
  <2>2. UNCHANGED <<base, out, error>>
    BY <1>5 DEF Registers
  <2>3. RespTypeOK'
    BY <1>1, <1>5, <2>1, <2>2 DEF RespTypeOK
  <2> QED BY <1>5, <2>1, <2>3 DEF RespInv
\* The call finishes at once with nothing before it.
<1>6. ASSUME NEW v \in Results, queue = <<>>, hist' = Append(hist, v), Write(<<[req |-> r, res |-> v]>>),
             UNCHANGED <<queue, response_idx, base, response, response_res, tasks>>
      PROVE  RespInv' /\ ErrorOfWritten
  <2>1. PICK w \in Nat : w = Len(hist) /\ w + 1 = r
    BY <1>1
  <2>2. PICK e \in QEntry : e = [req |-> r, res |-> v] /\ e.req = w + 1 /\ e.res = v
    <3>1. [req |-> r, res |-> v] \in QEntry
      BY <1>3, <1>4 DEF QEntry
    <3> QED BY <2>1, <3>1
  <2>3. PICK es \in Seq(QEntry) : es = <<e>> /\ DOMAIN es = 1 .. 1 /\ Len(es) = 1 /\ es[1] = e
    <3>1. /\ <<e>> \in Seq(QEntry) /\ DOMAIN <<e>> = 1 .. 1 /\ Len(<<e>>) = 1 /\ <<e>>[1] = e
      OBVIOUS
    <3> QED BY <3>1, Zenon
  <2>4. Follow(es, 1, w) /\ es[1].res = v
    BY <2>2, <2>3 DEF Follow
  <2>5. Increasing(out) /\ Elements(out) \subseteq 1 .. w
    BY <1>6, <2>1 DEF RespInv, OutOfCalls, Written
  <2>6. Write(es)
    BY <1>6, <2>2, <2>3
  <2>7. Wrote(es, 1, w)
    BY <1>1, <2>4, <2>5, <2>6, WriteStep, SMTT(30)
  <2>8. QueueOfCalls' /\ OutOfCalls' /\ ErrorOfWritten /\ hist' \in Seq(Outcome)
    BY <1>6, <2>1, <2>3, <2>4, <2>7, CallAtOnce, SMTT(30)
  <2>9. out' \in Seq(Nat) /\ error' \in {"None", "Encoder", "Service"}
    BY <2>7, SMTT(30) DEF Wrote
  <2>10. IndexMatch' /\ OneTaskPerCall'
    BY <1>2, <1>6 DEF IndexMatch, OneTaskPerCall, IdxOf, wrapping_add
  <2>11. RespTypeOK'
    BY <1>6, <2>8, <2>9 DEF RespInv, RespTypeOK
  <2> QED BY <2>8, <2>10, <2>11 DEF RespInv
\* The call finishes at once behind an unfinished one.
<1>7. ASSUME NEW v \in Results, response = 0, Registers(v), response_idx' = BackIdx,
             UNCHANGED <<response, response_res, tasks>>
      PROVE  RespInv' /\ ErrorOfWritten
  <2>1. PICK L : Registered(L, r, v)
    BY <1>4, <1>7, RegistersCall
  <2>2. IndexMatch' /\ OneTaskPerCall'
    BY <1>2, <1>4, <1>7, <2>1, CallBehind, SMTT(30)
  <2> QED BY <1>1, <1>2, <1>4, <1>5, <1>7, <2>2, SMTT(30)
\* The call is polled in place.
<1>8. ASSUME response = 0, Registers("Pending"), response' = r, response_idx' = BackIdx,
             response_res' = "Pending", UNCHANGED tasks
      PROVE  RespInv' /\ ErrorOfWritten
  <2>1. PICK L : Registered(L, r, "Pending")
    BY <1>4, <1>8, RegistersCall
  <2>2. IndexMatch' /\ OneTaskPerCall'
    BY <1>2, <1>3, <1>8, <2>1, CallInPlace, SMTT(30)
  <2> QED BY <1>1, <1>2, <1>3, <1>4, <1>5, <1>8, <2>2, SMTT(30)
\* The call is spawned.
<1>9. ASSUME Registers("Pending"), tasks' = tasks \cup {[req |-> r, idx |-> BackIdx]},
             UNCHANGED <<response, response_idx, response_res>>
      PROVE  RespInv' /\ ErrorOfWritten
  <2>1. PICK L : Registered(L, r, "Pending")
    BY <1>4, <1>9, RegistersCall
  <2>2. PICK new \in Task : new = [req |-> r, idx |-> BackIdx]
    BY <1>2, <1>3, Zenon DEF Task
  <2>3. IndexMatch' /\ OneTaskPerCall'
    BY <1>2, <1>3, <1>9, <2>1, <2>2, CallSpawned, SMTT(30)
  <2> QED BY <1>1, <1>4, <1>5, <1>9, <2>2, <2>3, SMTT(30)
<1>10. \/ \E v \in Results :
             /\ hist' = Append(hist, v) /\ queue = <<>> /\ Write(<<[req |-> r, res |-> v]>>)
             /\ UNCHANGED <<queue, response_idx, base, response, response_res, tasks>>
       \/ \E v \in Results :
             /\ response = 0 /\ Registers(v) /\ response_idx' = BackIdx
             /\ UNCHANGED <<response, response_res, tasks>>
       \/ /\ response = 0 /\ Registers("Pending") /\ response' = r /\ response_idx' = BackIdx
          /\ response_res' = "Pending" /\ UNCHANGED tasks
       \/ /\ Registers("Pending") /\ tasks' = tasks \cup {[req |-> r, idx |-> BackIdx]}
          /\ UNCHANGED <<response, response_idx, response_res>>
  BY ReturnedAreResults, Zenon DEF call_service, Registers
<1>11. RespInv' /\ ErrorOfWritten
  BY <1>6, <1>7, <1>8, <1>9, <1>10, ZenonT(30)
<1>12. \E o \in Outcome : hist' = Append(hist, o)
  BY <1>4, <1>10, Zenon DEF Registers
<1> QED BY <1>11, <1>12

-----------------------------------------------------------------------------
(* The steps of the dispatcher. *)

\* The poll's first step handles the future in place if it has finished.
LEMMA PollStep ==
    ASSUME IoInv, poll
    PROVE  RespStep /\ ErrorKept' /\ PollState'
<1>1. RespInv /\ ErrorKept /\ PollState
  BY DEF IoInv
<1>2. /\ pc = "idle" /\ pc' = "pool" /\ UNCHANGED <<item, st, ready_err, io_err, told>>
  BY DEF poll, dsp
<1>3. CASE response # 0 /\ response_res # "Pending"
  <2>1. PICK i \in 1 .. Len(queue) : queue[i] = [req |-> response, res |-> "Pending"] /\ response_idx = IdxOf(i)
    <3>1. queue \in Seq(QEntry)
      BY <1>1 DEF RespInv, RespTypeOK
    <3>2. DOMAIN queue = 1 .. Len(queue)
      BY <3>1
    <3> QED BY <1>1, <1>3, <3>2 DEF RespInv, IndexMatch
  <2>2. queue[i].req = response /\ queue[i].res = "Pending" /\ response_res \in Results /\ Len(queue) # 0
    <3>1. response_res \in Outcome /\ Len(queue) \in Nat
      BY <1>1 DEF RespInv, RespTypeOK
    <3> QED BY <1>3, <2>1, <3>1 DEF Outcome
  <2>3. /\ handle_result([req |-> response, res |-> response_res], response_idx)
        /\ hist' = [hist EXCEPT ![response] = response_res] /\ response' = 0
        /\ response_res' \in Outcome /\ UNCHANGED <<response_idx, tasks>>
    BY <1>3 DEF poll, Outcome
  <2>4. /\ RespInv' /\ ErrorOfWritten
        /\ response \in DOMAIN hist /\ hist[response] = "Pending"
    BY <1>1, <2>1, <2>2, <2>3, ResultStep, Zenon
  <2>5. Answered
    BY <2>2, <2>3, <2>4, Zenon DEF Answered
  <2>6. ErrorKept'
    BY <1>1, <1>2, <2>4, <2>5, KeepsError, SMTT(30)
  <2>7. st # "Shutdown"
    <3>1. queue # <<>>
      BY <2>2
    <3> QED BY <1>1, <3>1 DEF PollState
  <2>8. PollState'
    BY <1>1, <1>2, <2>7 DEF PollState
  <2> QED BY <2>4, <2>5, <2>6, <2>8, SMTT(30) DEF RespStep
<1>4. CASE ~(response # 0 /\ response_res # "Pending")
  <2>1. UNCHANGED resp
    BY <1>4 DEF poll
  <2>2. RespStands
    BY <1>1, <2>1 DEF resp, RespStands, RespInv, RespTypeOK
  <2>3. RespInv'
    BY <1>1, <2>2, StandsRespInv
  <2>4. ErrorKept'
    BY <1>1, <1>2, <2>1 DEF ErrorKept, resp, Written
  <2>5. PollState'
    BY <1>1, <1>2, <2>1 DEF PollState, resp
  <2> QED BY <2>2, <2>3, <2>4, <2>5, SMTT(30) DEF RespStep
<1> QED BY <1>3, <1>4

\* A spawned response task ends.
LEMMA TaskStep ==
    ASSUME IoInv, NEW t \in tasks, task_done(t)
    PROVE  RespStep /\ ErrorKept' /\ PollState'
<1>1. RespInv /\ ErrorKept /\ PollState
  BY DEF IoInv
<1>2. UNCHANGED <<pc, item, st, ready_err, io_err, told>>
  BY DEF task_done, dsp
<1>3. PICK i \in 1 .. Len(queue) : queue[i] = [req |-> t.req, res |-> "Pending"] /\ t.idx = IdxOf(i)
  <2>1. queue \in Seq(QEntry)
    BY <1>1 DEF RespInv, RespTypeOK
  <2>2. DOMAIN queue = 1 .. Len(queue)
    BY <2>1
  <2> QED BY <1>1, <2>2 DEF RespInv, IndexMatch
<1>4. PICK v \in Results : /\ handle_result([req |-> t.req, res |-> v], t.idx)
                          /\ hist' = [hist EXCEPT ![t.req] = v]
  BY ReturnedAreResults, Zenon DEF task_done
<1>5. tasks' = tasks \ {t} /\ UNCHANGED <<response, response_idx>> /\ response_res' \in Outcome
  BY <1>1 DEF task_done, RespInv, RespTypeOK
<1>6. queue[i].req = t.req /\ queue[i].res = "Pending"
  <2>1. queue[i] = [req |-> t.req, res |-> "Pending"]
    BY <1>3
  <2> QED BY <2>1
<1>7. /\ RespInv' /\ ErrorOfWritten
      /\ t.req \in DOMAIN hist /\ hist[t.req] = "Pending"
  BY <1>1, <1>3, <1>4, <1>5, <1>6, ResultStep, ZenonT(30)
<1>8. Answered
  BY <1>4, <1>7, Zenon DEF Answered
<1>9. ErrorKept'
  BY <1>1, <1>2, <1>7, <1>8, KeepsError
<1>10. queue # <<>>
  <2>1. Len(queue) \in Nat
    BY <1>1 DEF RespInv, RespTypeOK
  <2>2. Len(queue) # 0
    BY <2>1
  <2> QED BY <2>2
<1>11. PollState'
  BY <1>1, <1>2, <1>10 DEF PollState, Telling
<1> QED BY <1>7, <1>8, <1>9, <1>11 DEF RespStep

\* The item at hand is given to the service.
LEMMA DispatchStep ==
    ASSUME IoInv, dispatch
    PROVE  RespStep /\ ErrorKept' /\ PollState'
<1>1. RespInv /\ ErrorKept /\ PollState
  BY DEF IoInv
<1>2. /\ UNCHANGED <<st, ready_err, io_err>> /\ Len(queue) < Wrap /\ call_service(item)
      /\ pc \in {"call", "callflush"} /\ pc' = IF pc = "call" THEN "loop" ELSE "flush"
  BY DEF dispatch, dsp
<1>3. RespInv' /\ ErrorOfWritten /\ Asked
  BY <1>1, <1>2, CallService DEF Asked
<1>4. ErrorKept'
  BY <1>1, <1>2, <1>3, KeepsError, SMTT(30)
<1>5. told' = Telling
  BY <1>2 DEF call_service, Telling
<1>6. Telling \in BOOLEAN
  BY <1>1, Zenon DEF Telling, PollState
<1>7. PollState'
  BY <1>1, <1>2, <1>5, <1>6 DEF PollState
<1> QED BY <1>3, <1>4, <1>7 DEF RespStep

\* Every step keeps the invariant, and what it does to the responses is a call, the
\* result of a call, or nothing.
LEMMA NextIoInv ==
    ASSUME IoInv, [Next]_vars
    PROVE  IoInv' /\ RespStep
<1> SUFFICES RespStep /\ ErrorKept' /\ PollState'
  BY DEF IoInv, RespStep
<1>1. PollState
  BY DEF IoInv
<1>2. CASE poll
  BY <1>2, PollStep
<1>3. ASSUME NEW t \in tasks, task_done(t)
      PROVE  RespStep /\ ErrorKept' /\ PollState'
  BY <1>3, TaskStep
<1>4. CASE dispatch
  BY <1>4, DispatchStep
<1>5. CASE poll_service_error
  BY <1>1, <1>5, ErrorStep, LoopStep
<1>6. CASE response_done
  BY <1>1, <1>6, ErrorStep, OutsideStep
<1>7. CASE poll_pool \/ poll_service_pending \/ poll_recv_decode \/ backpressure \/ poll_flush \/ stop \/ shutdown
  <2>1. UNCHANGED <<resp, ready_err>>
    BY <1>7, Zenon DEF poll_pool, poll_service_pending, poll_recv_decode, backpressure, poll_flush, stop, shutdown,
                Rest, ReturnPending, dsp, resp
  <2> QED BY <1>1, <1>7, <2>1, QuietStep, LoopStep
<1>8. CASE recv_frame \/ io_signal \/ flushed \/ service_busy \/ service_free \/ shut_done
  <2>1. UNCHANGED <<resp, ready_err>>
    BY <1>8 DEF recv_frame, io_signal, flushed, service_busy, service_free, shut_done, ioinner, dsp
  <2> QED BY <1>1, <1>8, <2>1, QuietStep, OutsideStep, SMTT(30)
<1>9. CASE UNCHANGED vars
  <2>1. UNCHANGED <<resp, ready_err>> /\ UNCHANGED <<pc, item, st, queue, told>>
    BY <1>9 DEF vars, resp
  <2>2. PollState'
    BY <1>1, <2>1 DEF PollState, Telling
  <2> QED BY <2>1, <2>2, QuietStep
<1> QED BY <1>2, <1>3, <1>4, <1>5, <1>6, <1>7, <1>8, <1>9, SMTT(30) DEF Next, Polling

\* The inductive invariant of the dispatcher.
LEMMA IoInvariance == Spec => []IoInv
<1>1. Init => IoInv
  BY InitIoInv
<1>2. IoInv /\ [Next]_vars => IoInv'
  BY NextIoInv
<1> QED BY <1>1, <1>2, PTL DEF Spec

-----------------------------------------------------------------------------
(* The theorems. *)

\* Each unfinished entry of the queue belongs to one outstanding call that knows its
\* index, and each outstanding call has its entry, for every range of indexes and
\* however often they wrap (io.rs handle_result, call_service).
THEOREM IoIndexMatch == Spec => []IndexMatch
<1>1. IoInv => IndexMatch
  BY SMTT(30) DEF IoInv, RespInv
<1> QED BY <1>1, IoInvariance, PTL

\* The dispatcher shuts down only when no service call is outstanding (io.rs, the
\* Stop state waits for an empty queue).
THEOREM IoDrainedAtShutdown == Spec => []DrainedAtShutdown
<1>1. IoInv => DrainedAtShutdown
  <2> SUFFICES ASSUME IoInv, st = "Shutdown"
               PROVE  queue = <<>> /\ tasks = {} /\ response = 0
    BY DEF DrainedAtShutdown
  <2>1. queue = <<>>
    BY DEF IoInv, PollState
  <2>2. DOMAIN queue = {}
    BY <2>1
  <2>3. IndexMatch
    BY DEF IoInv, RespInv
  <2> QED BY <2>1, <2>2, <2>3 DEF IndexMatch
<1> QED BY <1>1, IoInvariance, PTL

\* The service knows of write back-pressure exactly when the dispatcher waits for the
\* flush (io.rs, the Backpressure state).
THEOREM IoBackpressureTold == Spec => []BackpressureTold
<1>1. IoInv => BackpressureTold
  BY DEF IoInv, PollState, BackpressureTold
<1> QED BY <1>1, IoInvariance, PTL

\* The future returns an error of the service unless a later response was refused by
\* the encoder, and no error of the service that did not happen, in whatever order calls
\* finish (io.rs, DispatcherState::error is one slot, written as the queue is drained).
THEOREM IoErrorReported == Spec => []ErrorReported
<1>1. IoInv => ErrorReported
  <2> SUFFICES ASSUME IoInv, pc = "done"
               PROVE  ErrorReported
    BY DEF ErrorReported
  <2>1. queue = <<>>
    BY DEF IoInv, PollState
  <2>2. hist \in Seq(Outcome)
    BY DEF IoInv, RespInv, RespTypeOK
  <2>3. Written = Len(hist) /\ DOMAIN hist = 1 .. Len(hist)
    BY <2>1, <2>2 DEF Written
  <2>4. ErrorKept /\ DOMAIN hist = 1 .. Written
    BY <2>3 DEF IoInv
  <2> QED BY <2>4, Zenon DEF ErrorKept, ErrorReported
<1> QED BY <1>1, IoInvariance, PTL

\* The finished calls are those before the first unfinished one.
LEMMA FinishedIs ==
    ASSUME NEW rs \in Seq(Outcome), NEW n \in 0 .. Len(rs),
           \A i \in 1 .. n : rs[i] # "Pending",
           n < Len(rs) => rs[n + 1] = "Pending"
    PROVE  Order!Finished(rs) = n
<1> DEFINE P(m) == /\ \A i \in 1 .. m : rs[i] # "Pending"
                   /\ m < Len(rs) => rs[m + 1] = "Pending"
<1>1. P(n)
  OBVIOUS
<1>2. ASSUME NEW m \in 0 .. Len(rs), P(m)
      PROVE  m = n
  <2>1. Len(rs) \in Nat
    OBVIOUS
  <2>2. CASE m < n
    BY <1>2, <2>1, <2>2
  <2>3. CASE n < m
    BY <1>2, <2>1, <2>3
  <2> QED BY <2>1, <2>2, <2>3
<1>3. Order!Finished(rs) = CHOOSE m \in 0 .. Len(rs) : P(m)
  BY SMTT(30) DEF Order!Finished
<1> HIDE DEF P
<1> QED BY <1>1, <1>2, <1>3

\* What the invariant says of the encoder is what the abstract specification asks.
LEMMA InCallOrderIs ==
    ASSUME NEW rs \in Seq(Outcome), NEW hs \in Seq(Nat), NEW n \in 0 .. Len(rs),
           \A i \in 1 .. n : rs[i] # "Pending",
           n < Len(rs) => rs[n + 1] = "Pending",
           Increasing(hs),
           Elements(hs) = {i \in 1 .. n : rs[i] \in {"some", "bad"}}
    PROVE  Order!InCallOrder(hs, rs)
<1>1. Order!Finished(rs) = n
  BY FinishedIs
<1>2. \A j \in DOMAIN hs : hs[j] \in 1 .. Len(rs)
  <2>1. \A j \in DOMAIN hs : hs[j] \in 1 .. n
    BY DEF Elements
  <2>2. Len(rs) \in Nat
    OBVIOUS
  <2> QED BY <2>1, <2>2, SMTT(30)
<1>3. hs \in Seq(1 .. Len(rs))
  BY <1>2, SMTT(30)
<1> QED BY <1>1, <1>3 DEF Order!InCallOrder, Increasing, Elements

\* Responses reach the encoder in request order, each once and as soon as all earlier
\* calls have finished: every step of the dispatcher and of the response tasks is a
\* call, the end of a call, or a stutter of ResponseOrder (io.rs handle_result,
\* call_service).
THEOREM IoInOrder == Spec => InOrder
<1>1. Init => Order!ROInit
  BY DEF Init, Order!ROInit
<1>2. IoInv /\ [Next]_vars => [Order!RONext]_(Order!ro_vars)
  <2> SUFFICES ASSUME IoInv, [Next]_vars
               PROVE  Order!RONext \/ UNCHANGED <<hist, out>>
    BY DEF Order!ro_vars
  <2>1. RespStep /\ RespInv'
    BY NextIoInv DEF RespStep
  <2>2. CASE RespStands
    BY <2>2 DEF RespStands
  <2>3. CASE Asked \/ Answered
    <3>1. Order!Ask \/ Order!Finish
      BY <2>3 DEF Asked, Answered, Outcome, Order!Ask, Order!Finish
    <3>2. PICK rs, hs, q, n : rs = hist' /\ hs = out' /\ q = queue' /\ n = Written'
      OBVIOUS
    <3>3. rs \in Seq(Outcome) /\ hs \in Seq(Nat) /\ q \in Seq(QEntry)
      BY <2>1, <3>2, SMTT(30) DEF RespInv, RespTypeOK
    <3>4. n = Len(rs) - Len(q) /\ Len(q) <= Len(rs)
      BY <2>1, <3>2 DEF RespInv, QueueOfCalls, Written
    <3>5. Len(rs) \in Nat /\ Len(q) \in Nat
      BY <3>3
    <3>6. n \in 0 .. Len(rs)
      BY <3>4, <3>5, SMTT(30)
    <3>7. /\ \A i \in 1 .. n : rs[i] # "Pending"
          /\ \A i \in 1 .. Len(q) : q[i] = [req |-> n + i, res |-> rs[n + i]]
          /\ q # <<>> => q[1].res = "Pending"
      BY <2>1, <3>2, SMTT(30) DEF RespInv, QueueOfCalls
    <3>8. n < Len(rs) => rs[n + 1] = "Pending"
      <4> SUFFICES ASSUME n < Len(rs)
                   PROVE  rs[n + 1] = "Pending"
        OBVIOUS
      <4>1. 1 \in 1 .. Len(q) /\ Len(q) # 0
        BY <3>4, <3>5
      <4>2. q # <<>>
        BY <4>1, SMTT(30)
      <4>3. q[1] = [req |-> n + 1, res |-> rs[n + 1]] /\ q[1].res = "Pending"
        BY <3>7, <4>1, <4>2, SMTT(30)
      <4> QED BY <4>3
    <3>9. /\ Increasing(hs)
          /\ Elements(hs) = {i \in 1 .. n : rs[i] \in {"some", "bad"}}
      BY <2>1, <3>2, SMTT(30) DEF RespInv, OutOfCalls, Increasing, Elements
    <3>10. Order!InCallOrder(hs, rs)
      BY <3>3, <3>6, <3>7, <3>8, <3>9, InCallOrderIs, Zenon
    <3> QED BY <3>1, <3>2, <3>10 DEF Order!RONext
  <2> QED BY <2>1, <2>2, <2>3 DEF RespStep
<1> QED BY <1>1, <1>2, IoInvariance, PTL DEF Spec, InOrder, Order!ROSpec
=============================================================================
