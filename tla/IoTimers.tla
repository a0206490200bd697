------------------------------ MODULE IoTimers ------------------------------
(***************************************************************************)
(* The timers of the framed dispatcher, io.rs: one io timer serves as      *)
(* keep-alive timer between frames and as read timer while a frame is      *)
(* incomplete; flags tell which. The rest of the dispatcher is reduced to  *)
(* what touches the timers: decoding, a busy service, write back-pressure. *)
(*                                                                         *)
(* One tick is one second. The timer's expiry is a mark on the io          *)
(* (fired) that stays until the dispatcher is told of it.                  *)
(***************************************************************************)
EXTENDS Integers

CONSTANTS
    KeepAlive,    \* keepalive_timeout, 0 for none
    ReadTimeout,  \* frame_read_rate: timeout, 0 when disabled
    MaxTimeout,   \* frame_read_rate: max_timeout, 0 for none
    Rate,         \* frame_read_rate: rate
    Chunks,       \* numbers of bytes that arrive at a time
    Header,       \* bytes of a fixed header, consumed before its frame is complete
    MaxBuf,       \* bound on bytes received and not decoded
    Width,        \* 2^32, modulus of the byte counters
    Events        \* what else happens: full, busy, pool

ASSUME TimersAssumption ==
    /\ {KeepAlive, ReadTimeout, MaxTimeout, Rate, Header, MaxBuf} \subseteq Nat
    /\ Chunks \subseteq Nat \ {0}
    /\ Width \in Nat /\ Width > MaxBuf /\ Width > Rate
    /\ Events \subseteq {"full", "busy", "pool"}

VARIABLES
    pc,            \* idle, or in the loop of poll
    st,            \* Processing, Backpressure, or Stop with an item given to the service
    item,          \* that item: none, KeepAliveTimeout, ReadTimeout
    ka_timeout, read_timeout,                           \* Flags
    read_remains, read_remains_prev, read_max_timeout,
    timer,         \* seconds until the io timer expires, 0 if it does not run
    fired,         \* the io timer has expired
    buf,           \* bytes in the read buffer
    header,        \* the header of the incomplete frame was consumed
    full, busy,    \* write back-pressure, service not ready
    unseen,        \* bytes of the frame received since update_timer was last told, which
                   \* its header stops to be when it is consumed
    got,           \* bytes it was told of in this period of the read timer
    told,          \* whether it was told of the buffer in this period
    missed,        \* which periods of this timer passed without: none, the last, or earlier
    periods,       \* how often this read timer was extended
    verdict        \* for the last period judged: got, told, missed and the outcome

flags == <<ka_timeout, read_timeout>>
rates == <<read_remains, read_remains_prev, read_max_timeout>>
world == <<full, busy>>
period == <<got, told, missed, periods>>
vars == <<pc, st, item, ka_timeout, read_timeout, read_remains, read_remains_prev,
          read_max_timeout, timer, fired, buf, header, full, busy, unseen, got, told, missed,
          periods, verdict>>

Missed == {"none", "last", "earlier"}

TypeOK ==
    /\ pc \in {"idle", "loop"}
    /\ st \in {"Processing", "Backpressure", "Stop"}
    /\ item \in {"none", "KeepAliveTimeout", "ReadTimeout"}
    /\ ka_timeout \in BOOLEAN /\ read_timeout \in BOOLEAN
    /\ read_remains \in 0 .. MaxBuf /\ read_remains_prev \in 0 .. MaxBuf
    /\ read_max_timeout \in 0 .. MaxTimeout
    /\ timer \in 0 .. KeepAlive + ReadTimeout
    /\ fired \in BOOLEAN /\ header \in BOOLEAN /\ full \in BOOLEAN /\ busy \in BOOLEAN
    /\ buf \in 0 .. MaxBuf
    /\ unseen \in -Header .. MaxBuf /\ got \in -Header .. MaxBuf
    /\ told \in BOOLEAN /\ missed \in Missed /\ periods \in Nat
    /\ verdict \in [got : -Header .. MaxBuf, told : BOOLEAN, missed : Missed,
                    is : {"none", "extended", "slow", "max"}]

Init ==
    /\ pc = "loop" /\ st = "Processing" /\ item = "none"
    /\ ka_timeout = FALSE /\ read_timeout = FALSE
    /\ read_remains = 0 /\ read_remains_prev = 0 /\ read_max_timeout = 0
    /\ timer = 0 /\ fired = FALSE
    /\ buf = 0 /\ header = FALSE /\ full = FALSE /\ busy = FALSE
    /\ unseen = 0 /\ got = 0 /\ told = FALSE /\ missed = "none" /\ periods = 0
    /\ verdict = [got |-> 0, told |-> FALSE, missed |-> "none", is |-> "none"]

-----------------------------------------------------------------------------
(* update_timer and handle_timeout. *)

\* A decoded frame: timers are not needed, the io timer runs on unheeded.
update_timer_item ==
    /\ read_remains' = 0
    /\ ka_timeout' = FALSE /\ read_timeout' = FALSE
    /\ UNCHANGED <<read_remains_prev, read_max_timeout, timer>>

\* Mutants: keep-alive is not started; the read timer is not.
update_timer_no_ka(remains) ==
    \/ /\ read_timeout /\ read_remains' = remains
       /\ UNCHANGED <<flags, read_remains_prev, read_max_timeout, timer>>
    \/ /\ ~read_timeout /\ ((read_remains = 0 /\ remains = 0) \/ ReadTimeout = 0)
       /\ UNCHANGED <<flags, rates, timer>>
    \/ /\ ~read_timeout /\ ~(read_remains = 0 /\ remains = 0) /\ ReadTimeout # 0
       /\ read_timeout' = TRUE /\ UNCHANGED ka_timeout
       /\ read_remains' = remains /\ read_remains_prev' = 0 /\ read_max_timeout' = MaxTimeout
       /\ timer' = ReadTimeout

\* No frame, and so many bytes of one.
update_timer(remains) ==
    \/ /\ read_timeout
       /\ read_remains' = remains
       /\ UNCHANGED <<flags, read_remains_prev, read_max_timeout, timer>>
    \/ /\ ~read_timeout /\ read_remains = 0 /\ remains = 0
       /\ ka_timeout' = (ka_timeout \/ KeepAlive # 0)
       /\ timer' = IF KeepAlive # 0 /\ ~ka_timeout THEN KeepAlive ELSE timer
       /\ UNCHANGED <<read_timeout, rates>>
    \/ /\ ~read_timeout /\ ~(read_remains = 0 /\ remains = 0)
       /\ IF ReadTimeout = 0 THEN UNCHANGED <<flags, rates, timer>>
          ELSE /\ read_timeout' = TRUE /\ UNCHANGED ka_timeout
               /\ read_remains' = remains /\ read_remains_prev' = 0
               /\ read_max_timeout' = MaxTimeout
               /\ timer' = ReadTimeout

Stopped(x) == st' = "Stop" /\ item' = x

\* Nothing is known yet of the periods of the next read timer.
NoPeriod == got' = 0 /\ told' = FALSE /\ missed' = "none" /\ periods' = 0

NextPeriod ==
    /\ got' = 0 /\ told' = FALSE /\ periods' = periods + 1
    /\ missed' = IF ~told THEN "last" ELSE IF missed = "none" THEN "none" ELSE "earlier"

Verdict(is) == [got |-> got, told |-> told, missed |-> missed, is |-> is]

\* Mutant: what earlier periods received counts again.
total_all == read_remains

\* The bytes received since the last period, as an unsigned difference; the code
\* caps it at u16::MAX, above every rate.
total == IF read_remains >= read_remains_prev THEN read_remains - read_remains_prev
         ELSE read_remains - read_remains_prev + Width

\* Mutant: max_timeout is not used up.
left_all == read_max_timeout

\* What is left of max_timeout after one more period.
left == IF read_max_timeout > ReadTimeout THEN read_max_timeout - ReadTimeout ELSE 0

handle_timeout ==
    \/ /\ read_timeout
       /\ LET extend == total > Rate /\ (MaxTimeout = 0 \/ left # 0)
          IN  /\ IF total > Rate
                 THEN /\ read_remains_prev' = read_remains /\ read_remains' = 0
                      /\ read_max_timeout' = IF MaxTimeout = 0 THEN read_max_timeout ELSE left
                 ELSE UNCHANGED rates
              /\ IF extend THEN timer' = ReadTimeout /\ NextPeriod /\ UNCHANGED <<st, item>>
                           ELSE Stopped("ReadTimeout") /\ UNCHANGED <<timer, period>>
              /\ verdict' = Verdict(IF extend THEN "extended"
                                     ELSE IF total > Rate THEN "max" ELSE "slow")
    \/ /\ ~read_timeout /\ ka_timeout
       /\ Stopped("KeepAliveTimeout")
       /\ UNCHANGED <<rates, timer, period, verdict>>
    \/ /\ ~read_timeout /\ ~ka_timeout
       /\ UNCHANGED <<st, item, rates, timer, period, verdict>>

-----------------------------------------------------------------------------
(* The poll. *)

\* The dispatcher is polled: something happened, or for no reason.
poll ==
    /\ pc = "idle" /\ st # "Stop" /\ pc' = "loop"
    /\ UNCHANGED <<st, item, flags, rates, timer, fired, buf, header, world, unseen, period, verdict>>

\* Mutant: the flags stay.
TimersRemoved_flags == timer' = 0 /\ NoPeriod /\ unseen' = buf /\ UNCHANGED flags

\* The next read timer measures the incomplete frame anew.
TimersRemoved ==
    /\ ka_timeout' = FALSE /\ read_timeout' = FALSE /\ timer' = 0
    /\ NoPeriod /\ unseen' = buf

\* The memory pool is under pressure: timers are removed and reading is paused.
poll_pool ==
    /\ pc = "idle" /\ st # "Stop" /\ "pool" \in Events
    /\ TimersRemoved
    /\ UNCHANGED <<pc, st, item, rates, fired, buf, header, world, verdict>>

\* The service is not ready: timers are removed; an expiry that is already marked,
\* or back-pressure, is found by poll_read_pause. In Backpressure the flush follows
\* the notice of the expiry: if nothing is left to flush the dispatcher goes on.
poll_read_pause ==
    /\ pc = "loop" /\ st # "Stop" /\ busy
    /\ TimersRemoved
    /\ \/ /\ fired /\ fired' = FALSE
          /\ IF st = "Backpressure" /\ ~full
             THEN st' = "Processing" /\ UNCHANGED <<pc, item>>
             ELSE /\ Stopped("KeepAliveTimeout")
                  /\ pc' = IF st = "Backpressure" THEN "idle" ELSE pc
       \/ /\ ~fired /\ pc' = "idle" /\ st' = IF full THEN "Backpressure" ELSE st
          /\ UNCHANGED <<fired, item>>
    /\ UNCHANGED <<rates, buf, header, world, verdict>>

\* The service writes when it is called, and may fill the buffer.
Called == full' = full \/ ("full" \in Events /\ full' = TRUE)

Decoding == pc = "loop" /\ st = "Processing" /\ ~busy

\* A frame is decoded and the service is called.
decode_item ==
    /\ Decoding
    /\ buf > 0 /\ buf' \in 0 .. buf - 1 /\ header' = FALSE
    /\ update_timer_item
    /\ NoPeriod /\ unseen' = buf'
    /\ Called
    /\ UNCHANGED <<pc, st, item, fired, busy, verdict>>

\* The buffer holds no complete frame; its header is consumed.
decode_none ==
    /\ Decoding
    /\ IF ~header /\ buf >= Header
       THEN header' = TRUE /\ buf' = buf - Header
       ELSE UNCHANGED <<buf, header>>
    /\ \/ /\ ~fired /\ ~full
          /\ update_timer(buf')
          /\ got' = got + unseen + buf' - buf /\ unseen' = 0 /\ told' = TRUE
          /\ pc' = "idle" /\ UNCHANGED <<st, item, fired, missed, periods, verdict>>
       \/ /\ fired /\ fired' = FALSE
          /\ handle_timeout /\ unseen' = unseen + buf' - buf
          /\ UNCHANGED <<pc, flags>>
       \/ /\ full /\ st' = "Backpressure"
          /\ unseen' = unseen + buf' - buf
          /\ UNCHANGED <<pc, item, flags, rates, timer, fired, period, verdict>>
    /\ UNCHANGED world

\* Back-pressure: nothing is decoded until the buffer is flushed.
backpressure ==
    /\ pc = "loop" /\ st = "Backpressure" /\ ~busy
    /\ IF full THEN pc' = "idle" /\ UNCHANGED <<st, full>>
               ELSE st' = "Processing" /\ Called /\ UNCHANGED pc
    /\ UNCHANGED <<item, flags, rates, timer, fired, buf, header, busy, unseen, period, verdict>>

-----------------------------------------------------------------------------
(* The io, the peer and the service. *)

Outside == pc = "idle" /\ st # "Stop" /\ UNCHANGED <<pc, st, item, flags, rates, header, period, verdict>>

recv ==
    /\ Outside
    /\ \E n \in Chunks : buf + n <= MaxBuf /\ buf' = buf + n /\ unseen' = unseen + n
    /\ UNCHANGED <<timer, fired, world>>

tick ==
    /\ Outside
    /\ timer > 0 /\ timer' = timer - 1 /\ fired' = (fired \/ timer = 1)
    /\ UNCHANGED <<buf, world, unseen>>

write_buffer ==
    /\ Outside
    /\ "full" \in Events /\ full' = ~full
    /\ UNCHANGED <<timer, fired, buf, busy, unseen>>

service ==
    /\ Outside
    /\ "busy" \in Events /\ busy' = ~busy
    /\ UNCHANGED <<timer, fired, buf, full, unseen>>

Polling == poll \/ poll_pool \/ poll_read_pause \/ decode_item \/ decode_none \/ backpressure
Next == Polling \/ recv \/ tick \/ write_buffer \/ service

Spec == Init /\ [][Next]_vars

\* Time passes, however often the dispatcher is polled, and a poll ends.
FairSpec == Spec /\ SF_vars(tick) /\ WF_vars(Polling)

-----------------------------------------------------------------------------
(* Properties. *)

\* A set flag is backed by a running timer or a marked expiry: a connection that
\* relies on a timer has one (start_timer, stop_timer and the flags agree).
FlagsHaveTimer == ka_timeout \/ read_timeout => timer > 0 \/ fired \/ item # "none"

\* A period of the read timer counts as kept exactly when more than rate bytes of the
\* frame were received in it, also when the timer was removed and started again in
\* the middle of a frame (handle_timeout). That is said of a rate that no incomplete
\* header exceeds, and as long as the dispatcher has looked at the buffer in each
\* period. In the first one that passes in Backpressure alone read_remains is still 0,
\* the unsigned difference wraps and the period counts as kept (a debug build panics);
\* a second one in a row does not.
ExtendedForRate ==
    /\ Header <= Rate + 1 /\ verdict.told /\ verdict.missed = "none" =>
         (verdict.is # "slow" <=> verdict.got > Rate)
    /\ ~verdict.told /\ verdict.missed = "last" => verdict.is # "extended"

\* A read timer is extended only while max_timeout has not passed, also for a peer
\* that keeps the rate (read_max_timeout; "But no more than `max_timeout`"): the last
\* of its periods begins before max_timeout, and may end after it.
MaxTimeoutKept == MaxTimeout # 0 /\ periods > 0 => periods * ReadTimeout < MaxTimeout

Undisturbed == <>[](~busy /\ ~full) /\ <>[][~poll_pool]_vars

\* The connection of a peer that falls silent ends, by the keep-alive timer or, when
\* frame_read_rate is set, by the read timer (update_timer starts one of them whatever
\* is in the buffer), unless the service or the io keep interrupting.
SilentPeerEnds ==
    KeepAlive # 0 /\ ReadTimeout # 0 /\ Undisturbed /\ <>[][~recv]_vars => <>(st = "Stop")
=============================================================================
