---------------------------- MODULE IoDispatcher ----------------------------
(***************************************************************************)
(* The framed transport dispatcher, io.rs: one future per connection that  *)
(* decodes frames, calls the service, writes responses in request order,   *)
(* watches write back-pressure and errors, and drains and shuts down.      *)
(*                                                                         *)
(* The dispatcher runs only between the start of a poll and the return of  *)
(* Pending (pc # "idle"); response tasks, the service and the io act in    *)
(* between, and the next poll needs a wake-up (woken).                     *)
(***************************************************************************)
EXTENDS Integers, Sequences, FiniteSets

CONSTANTS
    Wrap,       \* modulus of the response indexes (usize wraps)
    Results,    \* what service calls return
    Signals,    \* what the io and the service may do
    MaxFrames,  \* bound on frames received
    MaxQueue,   \* bound on frames and unfinished responses at a time
    MaxCalls,   \* bound on service calls repeated by wake-ups under back-pressure
    MaxEvents,  \* bound on the other events
    MaxBad      \* bound on responses that the encoder refuses

AllResults == {"some", "none", "err", "bad"}
AllSignals == {"stop", "timeout", "gone", "full", "notready", "svcerr", "decode", "pool"}
ItemKinds == {"Item", "EncoderError", "KeepAliveTimeout", "DecoderError", "Disconnect",
              "WBEnabled", "WBDisabled"}

ASSUME IoAssumption ==
    /\ Wrap \in Nat \ {0, 1}
    /\ Results \subseteq AllResults
    /\ Signals \subseteq AllSignals
    /\ MaxFrames \in Nat
    /\ MaxQueue \in Nat
    /\ MaxCalls \in Nat
    /\ MaxEvents \in Nat
    /\ MaxBad \in Nat

VARIABLES
    pc,            \* where the poll is: idle, pool, loop, call, callflush, flush or done
    item,          \* the item the service is about to be called with
    woken,         \* the dispatcher's task is scheduled
    st,            \* IoDispatcherState
    ready_err,     \* Flags::READY_ERR
    io_err,        \* Flags::IO_ERR
    error,         \* DispatcherState::error
    base,          \* index of the front of the queue
    queue,         \* responses not yet written, in request order
    response,      \* request of the future polled in place, 0 if none
    response_idx,
    response_res,  \* what that future will return when polled
    tasks,         \* spawned response tasks: request and index
    io,            \* signals raised by the io
    frames,        \* frames in the read buffer
    svc,           \* what service.poll_ready answers
    shut,          \* io shutdown, then service shutdown: up, closing, down
    told,          \* last back-pressure notice given to the service
    out,           \* requests whose response was given to the encoder
    hist,          \* result of each service call, in call order
    budget         \* frames and events so far

dsp == <<st, ready_err, io_err>>
resp == <<error, base, queue, response, response_idx, response_res, tasks, out, hist>>
env == <<io, frames, svc, shut, budget>>
vars == <<pc, item, woken, st, ready_err, io_err, error, base, queue, response, response_idx,
          response_res, tasks, io, frames, svc, shut, told, out, hist, budget>>

wrapping_add(a, b) == IF a + b >= Wrap THEN a + b - Wrap ELSE a + b
wrapping_sub(a, b) == IF a >= b THEN a - b ELSE a - b + Wrap

Entry == [req : Nat \ {0}, res : AllResults \cup {"Pending"}]
Task == [req : Nat \ {0}, idx : 0 .. Wrap - 1]

TypeOK ==
    /\ pc \in {"idle", "pool", "loop", "call", "callflush", "flush", "done"}
    /\ item \in ItemKinds
    /\ woken \in BOOLEAN
    /\ st \in {"Processing", "Backpressure", "Stop", "Shutdown"}
    /\ ready_err \in BOOLEAN /\ io_err \in BOOLEAN
    /\ error \in {"None", "Encoder", "Service"}
    /\ base \in 0 .. Wrap - 1
    /\ queue \in Seq(Entry)
    /\ response \in Nat
    /\ response_idx \in 0 .. Wrap - 1
    /\ response_res \in AllResults \cup {"Pending"}
    /\ tasks \in SUBSET Task
    /\ io \in SUBSET {"stop", "timeout", "gone", "full"}
    /\ frames \in Nat
    /\ svc \in {"ready", "pending", "error"}
    /\ shut \in {"up", "io", "iodown", "svc", "svcdown"}
    /\ told \in BOOLEAN
    /\ out \in Seq(Nat)
    /\ hist \in Seq(AllResults \cup {"Pending"})
    /\ budget \in [frames : 0 .. MaxFrames, events : 0 .. MaxEvents]

Init ==
    /\ pc = "idle" /\ item = "Item" /\ woken = TRUE
    /\ st = "Processing" /\ ready_err = FALSE /\ io_err = FALSE
    /\ error = "None" /\ base = 0 /\ queue = <<>>
    /\ response = 0 /\ response_idx = 0 /\ response_res = "Pending" /\ tasks = {}
    /\ io = {} /\ frames = 0 /\ svc = "ready" /\ shut = "up"
    /\ told = FALSE /\ out = <<>> /\ hist = <<>>
    /\ budget = [frames |-> 0, events |-> 0]

-----------------------------------------------------------------------------
(* Responses. *)

\* The requests of a sequence of finished entries that carry a response, in its order.
Responses(es) ==
    LET has == {i \in DOMAIN es : es[i].res \in {"some", "bad"}}
        order == CHOOSE s \in UNION {[1 .. n -> has] : n \in 0 .. Len(es)} :
                     /\ \A j, k \in DOMAIN s : j < k => s[j] < s[k]
                     /\ {s[j] : j \in DOMAIN s} = has
    IN  [j \in DOMAIN order |-> es[order[j]].req]

\* Mutant: a later result resets the error.
ErrorAfter_reset(es, err) == IF es[Len(es)].res = "err" THEN "Service" ELSE "None"

\* The error left behind by writing finished entries in order: the last one.
ErrorAfter(es, err) ==
    LET failed == {i \in DOMAIN es : es[i].res \in {"err", "bad"}}
    IN  IF failed = {} THEN err
        ELSE LET l == CHOOSE i \in failed : \A j \in failed : j <= i
             IN  IF es[l].res = "err" THEN "Service" ELSE "Encoder"

\* Write finished entries: give responses to the encoder, keep an error.
Write(es) == out' = out \o Responses(es) /\ error' = ErrorAfter(es, error)

\* Mutant: only the front is written.
ReadyPrefix_none(q) == 0

\* Length of the longest prefix of q whose entries are Ready.
ReadyPrefix(q) ==
    CHOOSE n \in 0 .. Len(q) :
        /\ \A i \in 1 .. n : q[i].res # "Pending"
        /\ n < Len(q) => q[n + 1].res = "Pending"

\* The result of the request at index ridx: written with every finished successor
\* when it is at the front, stored in its place otherwise.
handle_result(e, ridx) ==
    LET idx == wrapping_sub(ridx, base)
        k == ReadyPrefix(Tail(queue))
    IN  IF idx = 0
        THEN /\ queue' = SubSeq(queue, k + 2, Len(queue))
             /\ base' = wrapping_add(base, k + 1)
             /\ Write(<<e>> \o SubSeq(queue, 2, k + 1))
        ELSE /\ queue' = [queue EXCEPT ![idx + 1] = e]
             /\ UNCHANGED <<base, out, error>>

\* Mutant: the index is taken after the push.
BackIdx_late == wrapping_add(base, Len(queue) + 1)

\* The back of the queue, where the next call is registered.
BackIdx == wrapping_add(base, Len(queue))

\* What a call may return, within the bound.
MayReturn ==
    IF Cardinality({i \in DOMAIN hist : hist[i] = "bad"}) < MaxBad /\ response_res # "bad"
    THEN Results ELSE Results \ {"bad"}

\* Call the service with an item. The first outstanding future is polled in place,
\* once at once; further ones are spawned.
call_service(k) ==
    LET r == Len(hist) + 1
        pending == [req |-> r, res |-> "Pending"]
    IN  /\ told' = IF k = "WBEnabled" THEN TRUE ELSE IF k = "WBDisabled" THEN FALSE ELSE told
        /\ \/ /\ response = 0
              /\ \E v \in MayReturn :
                   /\ hist' = Append(hist, v)
                   /\ IF queue = <<>>
                      THEN Write(<<[req |-> r, res |-> v]>>) /\ UNCHANGED <<queue, response_idx>>
                      ELSE /\ queue' = Append(queue, [req |-> r, res |-> v])
                           /\ response_idx' = BackIdx
                           /\ UNCHANGED <<out, error>>
              /\ UNCHANGED <<base, response, response_res, tasks>>
           \/ /\ response = 0
              /\ response' = r
              /\ response_idx' = BackIdx
              /\ response_res' = "Pending"
              /\ queue' = Append(queue, pending)
              /\ hist' = Append(hist, "Pending")
              /\ UNCHANGED <<base, tasks, out, error>>
           \/ /\ response # 0
              /\ tasks' = tasks \cup {[req |-> r, idx |-> BackIdx]}
              /\ queue' = Append(queue, pending)
              /\ hist' = Append(hist, "Pending")
              /\ UNCHANGED <<base, response, response_idx, response_res, out, error>>

-----------------------------------------------------------------------------
(* The dispatcher's poll. *)

\* Start of poll: a finished in-place future is handled.
poll ==
    /\ pc = "idle" /\ woken
    /\ pc' = "pool" /\ woken' = FALSE
    /\ IF response # 0 /\ response_res # "Pending"
       THEN /\ handle_result([req |-> response, res |-> response_res], response_idx)
            /\ hist' = [hist EXCEPT ![response] = response_res]
            /\ response' = 0 /\ response_res' = "Pending"
            /\ UNCHANGED <<response_idx, tasks>>
       ELSE UNCHANGED resp
    /\ UNCHANGED <<item, dsp, env, told>>

Event == budget.events < MaxEvents /\ budget' = [budget EXCEPT !.events = @ + 1]

\* Memory pool pressure: return and wait for the pool.
poll_pool ==
    /\ pc = "pool"
    /\ \/ pc' = "loop" /\ UNCHANGED <<woken, budget>>
       \/ "pool" \in Signals /\ Event /\ pc' = "idle" /\ woken' = TRUE
    /\ UNCHANGED <<item, dsp, resp, io, frames, svc, shut, told>>

\* The poll returns Pending.
ReturnPending == pc' = "idle" /\ UNCHANGED <<item, woken, dsp, resp, env, told>>

\* Everything the loop leaves alone when it only picks what to do next.
Rest == UNCHANGED <<woken, io_err, base, queue, response, response_idx, response_res, tasks,
                    out, hist, svc, shut, budget, told>>

\* poll_service while the service answers poll_ready with an error recorded: an
\* encoder error becomes an item, a service error stops the dispatcher.
\* In Backpressure an item is followed by the flush, whatever st became.
CallPc == IF st = "Backpressure" THEN "callflush" ELSE "call"

poll_service_error ==
    /\ pc = "loop" /\ st \in {"Processing", "Backpressure"}
    /\ \/ /\ svc = "ready" /\ error = "Encoder"
          /\ error' = "None" /\ item' = "EncoderError" /\ pc' = CallPc
          /\ UNCHANGED ready_err
       \/ /\ svc = "ready" /\ error = "Service"
          /\ UNCHANGED <<pc, item, error, ready_err>>
       \/ /\ svc = "error"
          /\ error' = "Service" /\ ready_err' = TRUE
          /\ UNCHANGED <<pc, item>>
    /\ st' = "Stop"
    /\ Rest /\ UNCHANGED <<io, frames>>

\* poll_service while the service is not ready: reading pauses, the io is watched.
poll_service_pending ==
    /\ pc = "loop" /\ st \in {"Processing", "Backpressure"} /\ svc = "pending"
    /\ \/ io = {} /\ ReturnPending
       \/ /\ \/ /\ "timeout" \in io /\ io' = io \ {"timeout"}
                /\ st' = "Stop" /\ item' = "KeepAliveTimeout" /\ pc' = CallPc
             \/ /\ "stop" \in io /\ io' = io \ {"stop"}
                /\ st' = "Stop" /\ UNCHANGED <<item, pc>>
             \/ /\ "gone" \in io /\ UNCHANGED io
                /\ st' = "Stop" /\ item' = "Disconnect" /\ pc' = CallPc
             \/ /\ "full" \in io /\ UNCHANGED io
                /\ st' = "Backpressure" /\ item' = "WBEnabled" /\ pc' = CallPc
          /\ Rest /\ UNCHANGED <<error, ready_err, frames>>

\* Processing with the service ready: decode a frame, or learn what the io has.
\* A stale timer is ignored by handle_timeout.
poll_recv_decode ==
    /\ pc = "loop" /\ st = "Processing" /\ svc = "ready" /\ error = "None"
    /\ \/ frames = 0 /\ io = {} /\ ReturnPending
       \/ /\ \/ /\ frames > 0 /\ frames' = frames - 1
                /\ item' = "Item" /\ pc' = "call" /\ UNCHANGED <<io, st>>
             \/ /\ frames > 0 /\ "decode" \in Signals /\ frames' = frames - 1
                /\ st' = "Stop" /\ item' = "DecoderError" /\ pc' = "call" /\ UNCHANGED io
             \/ /\ frames = 0 /\ UNCHANGED frames
                /\ \/ /\ "stop" \in io /\ io' = io \ {"stop"}
                      /\ st' = "Stop" /\ UNCHANGED <<item, pc>>
                   \/ /\ "timeout" \in io /\ io' = io \ {"timeout"}
                      /\ UNCHANGED <<st, item, pc>>
                   \/ /\ "timeout" \in io /\ io' = io \ {"timeout"}
                      /\ st' = "Stop" /\ item' = "KeepAliveTimeout" /\ pc' = "call"
                   \/ /\ "full" \in io /\ UNCHANGED io
                      /\ st' = "Backpressure" /\ item' = "WBEnabled" /\ pc' = "call"
                   \/ /\ "gone" \in io /\ UNCHANGED io
                      /\ st' = "Stop" /\ item' = "Disconnect" /\ pc' = "call"
          /\ Rest /\ UNCHANGED <<error, ready_err>>

\* The item found is given to the service. The queue is in memory: it is shorter
\* than the range of its indexes.
dispatch ==
    /\ pc \in {"call", "callflush"}
    /\ Len(queue) < Wrap
    /\ call_service(item)
    /\ pc' = IF pc = "call" THEN "loop" ELSE "flush"
    /\ item' = "Item"
    /\ UNCHANGED <<woken, dsp, env>>

\* Backpressure with the service ready goes straight to the flush.
backpressure ==
    /\ pc = "loop" /\ st = "Backpressure" /\ svc = "ready" /\ error = "None"
    /\ pc' = "flush"
    /\ UNCHANGED <<item, woken, dsp, resp, env, told>>

\* Mutant: the service is not told that back-pressure is over.
poll_flush_silent ==
    /\ pc = "flush"
    /\ \/ "full" \in io /\ "gone" \notin io /\ ReturnPending
       \/ /\ \/ "gone" \in io /\ st' = "Stop"
             \/ io \cap {"gone", "full"} = {} /\ st' = "Processing"
          /\ pc' = "loop"
          /\ Rest /\ UNCHANGED <<item, io, frames, error, ready_err>>

\* poll_flush: when the buffer has drained the dispatcher goes on processing.
poll_flush ==
    /\ pc = "flush"
    /\ \/ "full" \in io /\ "gone" \notin io /\ ReturnPending
       \/ /\ \/ "gone" \in io /\ st' = "Stop" /\ item' = "Disconnect"
             \/ io \cap {"gone", "full"} = {} /\ st' = "Processing" /\ item' = "WBDisabled"
          /\ pc' = "call"
          /\ Rest /\ UNCHANGED <<io, frames, error, ready_err>>

\* Mutant: only the future polled in place is waited for.
Drained_inplace == response = 0

Drained == queue = <<>>

\* Stop: wait until every response is written, then shut the io down. An io error
\* only stops the watch on the io.
stop ==
    /\ pc = "loop" /\ st = "Stop"
    /\ \/ /\ Drained /\ (shut = "iodown" \/ "gone" \in io)
          /\ st' = "Shutdown"
          /\ UNCHANGED <<pc, item, woken, ready_err, io_err, resp, env, told>>
       \/ /\ Drained /\ ~(shut = "iodown" \/ "gone" \in io)
          /\ shut' = "io" /\ pc' = "idle"
          /\ UNCHANGED <<item, woken, dsp, resp, io, frames, svc, budget, told>>
       \/ /\ ~Drained /\ ~io_err /\ io_err' = TRUE
          /\ \/ "gone" \in io /\ UNCHANGED io
             \/ \E x \in {"stop", "timeout"} : x \in io /\ io' = io \ {x}
          /\ UNCHANGED <<pc, item, woken, st, ready_err, resp, frames, svc, shut, budget, told>>
       \/ /\ ~Drained /\ (io_err \/ io \cap {"gone", "stop", "timeout"} = {})
          /\ ReturnPending

\* Shutdown: shut the service down and finish.
shutdown ==
    /\ pc = "loop" /\ st = "Shutdown"
    /\ \/ shut = "svcdown" /\ pc' = "done" /\ UNCHANGED shut
       \/ shut # "svcdown" /\ pc' = "idle" /\ shut' = "svc"
    /\ UNCHANGED <<item, woken, dsp, resp, io, frames, svc, budget, told>>

-----------------------------------------------------------------------------
(* Everything else, while the dispatcher is not being polled. *)

Outside == pc = "idle"

\* With a full buffer and a busy service each wake-up in Backpressure calls the
\* service again, and each call that ends is a wake-up: beyond the bound calls end
\* after the buffer is flushed or the service is free.
MayEnd == Len(hist) < MaxCalls \/ svc # "pending" \/ "full" \notin io

\* Mutant: the dispatcher is left asleep.
Wakes_never(t) == FALSE

Wakes(t) == t.idx = base /\ queue' = <<>>

\* A spawned response task ends and wakes the dispatcher if the queue is empty.
task_done(t) ==
    /\ Outside /\ MayEnd
    /\ \E v \in MayReturn :
        /\ handle_result([req |-> t.req, res |-> v], t.idx)
        /\ hist' = [hist EXCEPT ![t.req] = v]
    /\ tasks' = tasks \ {t}
    /\ woken' = (woken \/ Wakes(t))
    /\ UNCHANGED <<pc, item, dsp, response, response_idx, response_res, env, told>>

\* The in-place future can make progress: the dispatcher is woken to poll it.
response_done ==
    /\ Outside /\ MayEnd
    /\ response # 0 /\ response_res = "Pending"
    /\ response_res' \in MayReturn
    /\ woken' = TRUE
    /\ UNCHANGED <<pc, item, dsp, error, base, queue, response, response_idx, tasks, out, hist,
                   env, told>>

ioinner == <<pc, item, dsp, resp, told>>

recv_frame ==
    /\ Outside
    /\ "gone" \notin io /\ budget.frames < MaxFrames /\ frames + Len(queue) < MaxQueue
    /\ budget' = [budget EXCEPT !.frames = @ + 1]
    /\ frames' = frames + 1
    /\ woken' = TRUE
    /\ UNCHANGED <<ioinner, io, svc, shut>>

\* The sink closes the connection, a timer fires, the peer leaves, or the write
\* buffer fills up.
io_signal ==
    /\ Outside /\ Event
    /\ \E x \in (Signals \cap {"stop", "timeout", "gone", "full"}) \ io : io' = io \cup {x}
    /\ woken' = TRUE
    /\ UNCHANGED <<ioinner, frames, svc, shut>>

flushed ==
    /\ Outside
    /\ "full" \in io /\ io' = io \ {"full"}
    /\ woken' = TRUE
    /\ UNCHANGED <<ioinner, frames, svc, shut, budget>>

service_busy ==
    /\ Outside /\ Event
    /\ svc = "ready"
    /\ \/ "notready" \in Signals /\ svc' = "pending"
       \/ "svcerr" \in Signals /\ svc' = "error"
    /\ woken' = TRUE
    /\ UNCHANGED <<ioinner, io, frames, shut>>

service_free ==
    /\ Outside
    /\ svc = "pending" /\ svc' = "ready"
    /\ woken' = TRUE
    /\ UNCHANGED <<ioinner, io, frames, shut, budget>>

shut_done ==
    /\ Outside
    /\ \/ shut = "io" /\ shut' = "iodown"
       \/ shut = "svc" /\ shut' = "svcdown"
    /\ woken' = TRUE
    /\ UNCHANGED <<ioinner, io, frames, svc, budget>>

Polling ==
    \/ poll \/ poll_pool \/ poll_service_error \/ poll_service_pending \/ poll_recv_decode
    \/ dispatch \/ backpressure \/ poll_flush \/ stop \/ shutdown

Next ==
    \/ Polling
    \/ \E t \in tasks : task_done(t)
    \/ response_done \/ recv_frame \/ io_signal \/ flushed \/ service_busy \/ service_free
    \/ shut_done

Spec == Init /\ [][Next]_vars

\* A woken dispatcher is polled and runs, service calls end, a busy service
\* becomes ready, buffers are flushed, and shutdowns complete.
Fairness ==
    /\ WF_vars(Polling)
    /\ WF_vars(\E t \in tasks : task_done(t))
    /\ WF_vars(response_done) /\ WF_vars(service_free) /\ WF_vars(flushed) /\ WF_vars(shut_done)

FairSpec == Spec /\ Fairness

-----------------------------------------------------------------------------
(* Properties. *)

\* Index of the i-th entry of the queue.
IdxOf(i) == wrapping_add(base, i - 1)

\* Each unfinished entry of the queue belongs to one outstanding call, which knows
\* its index, and each outstanding call has its entry: handle_result never indexes
\* outside of the queue, never pops another request's entry, and never overwrites
\* a stored result, also when indexes wrap.
IndexMatch ==
    /\ \A i \in DOMAIN queue : queue[i].res = "Pending" =>
         \/ response = queue[i].req /\ response_idx = IdxOf(i)
         \/ [req |-> queue[i].req, idx |-> IdxOf(i)] \in tasks
    /\ response # 0 =>
         \E i \in DOMAIN queue : queue[i] = [req |-> response, res |-> "Pending"] /\ response_idx = IdxOf(i)
    /\ \A t \in tasks :
         \E i \in DOMAIN queue : queue[i] = [req |-> t.req, res |-> "Pending"] /\ t.idx = IdxOf(i)

\* Responses reach the encoder in request order, each once, and as soon as all
\* earlier calls have finished, in whatever order the calls finish.
Order == INSTANCE ResponseOrder WITH results <- hist, handed <- out
InOrder == Order!ROSpec

\* The dispatcher shuts down only when no service call is outstanding: no response
\* is computed after the io was closed.
DrainedAtShutdown == st = "Shutdown" => queue = <<>> /\ tasks = {} /\ response = 0

\* The service knows of write back-pressure exactly when the dispatcher waits for
\* the flush: requests are not held back for ever, nor let through.
BackpressureTold ==
    pc \in {"idle", "pool", "loop"} =>
        /\ st = "Processing" => ~told
        /\ st = "Backpressure" => told

\* A service error ends the connection, also when no frame arrives any more
\* (handle_result wakes the dispatcher only when the queue becomes empty), unless an
\* encoder error takes its place. And a dispatcher that waits in Stop writes its
\* responses, closes the io, shuts the service down and ends, whatever the io does
\* meanwhile.
StopEnds ==
    /\ error = "Service" ~> pc = "done" \/ error = "Encoder"
    /\ st = "Stop" /\ pc \in {"idle", "loop"} ~> pc = "done"

\* The dispatcher's future returns an error of the service, unless the response of a
\* later call was refused by the encoder, which has the only slot for errors: results
\* of earlier calls do not take its place, though they may come after it, and nothing
\* else does while the responses are drained. An error of poll_ready has no call; any
\* response refused in the drain replaces it. Without an error of the service the
\* future returns none.
ErrorReported ==
    pc = "done" =>
        /\ \A i \in DOMAIN hist : hist[i] = "err" =>
              error = "Service" \/ \E j \in DOMAIN hist : j > i /\ hist[j] = "bad"
        /\ ready_err => error = "Service" \/ \E j \in DOMAIN hist : hist[j] = "bad"
        /\ error = "Service" => ready_err \/ \E i \in DOMAIN hist : hist[i] = "err"

\* "stopping dispatcher" (io.rs, the traces of poll_service): a dispatcher that
\* stops does not read on. The flush of Backpressure sets the state whatever it was.
StopIsFinal == [][(st \in {"Stop", "Shutdown"}) => (st' \in {"Stop", "Shutdown"})]_vars
=============================================================================
