------------------------------ MODULE SinkLoop ------------------------------
(***************************************************************************)
(* `pgsink sync` as a process: the follow loop (Runner.Loop) that starts a *)
(* pass when its timer fires or the daemon's event stream nudges it, and   *)
(* the goroutine that keeps that stream connected (startWaker, Waker.Run). *)
(* They share one channel of capacity one.  What a pass does is TableSync; *)
(* here it is one step that takes a while and ends well or badly.          *)
(***************************************************************************)
EXTENDS Naturals

CONSTANTS
    MinBackoff, MaxBackoff,  \* the loop's retry delay, first and last
    WakerMax,                \* the waker's retry delay, 1 at first, WakerMax at most
    Interval,                \* sync.interval
    MaxFaults,               \* bound: passes that fail
    MaxEvents                \* bound: changes the daemon makes

ASSUME LoopAssumption ==
    /\ MinBackoff \in Nat \ {0} /\ MaxBackoff \in Nat /\ MinBackoff <= MaxBackoff
    /\ WakerMax \in Nat \ {0} /\ Interval \in Nat
    /\ MaxFaults \in Nat /\ MaxEvents \in Nat

VARIABLES
    once,       \* sync --once
    cancelled,  \* has ctx ended? SIGINT or SIGTERM
    \* Runner.Loop
    at,         \* where the loop is
    timer,      \* "set", "fired" (a value waits in timer.C) or "off"
    wait,       \* what the timer was last set to
    backoff,
    \* The channel between the two goroutines.
    signal,     \* does ch hold a token?
    \* startWaker and Waker.Run; "off" with no source.wake, and once it returned
    waker,
    retry,      \* the waker's own backoff
    stream,     \* events the daemon has sent down the stream, not yet scanned
    \* What a reader wants to know of the run so far.
    events,     \* changes made by the daemon
    faults,     \* passes that failed
    fails,      \* failed passes since the last good one
    stale,      \* has the daemon changed something no good pass began after?
    late,       \* ... since the pass in flight began?
    heard       \* has the waker sent since the last pass began?

loopVars  == <<at, timer, wait, backoff>>
wakerVars == <<waker, retry, stream>>
history   == <<events, faults, fails, stale, late, heard>>
vars      == <<once, cancelled, loopVars, signal, wakerVars, history>>

LoopTypeOK ==
    /\ once \in BOOLEAN /\ cancelled \in BOOLEAN
    /\ at \in {"select", "drain", "sync", "over"}
    /\ timer \in {"set", "fired", "off"}
    /\ wait \in Nat /\ backoff \in MinBackoff..MaxBackoff
    /\ signal \in BOOLEAN
    /\ waker \in {"dial", "read", "sleep", "off"}
    /\ retry \in 1..WakerMax /\ stream \in 0..events
    /\ events \in 0..MaxEvents /\ faults \in 0..MaxFaults /\ fails \in 0..faults
    /\ stale \in BOOLEAN /\ late \in BOOLEAN /\ heard \in BOOLEAN

LoopInit ==
    /\ once \in BOOLEAN /\ cancelled = FALSE
    /\ at = "select" /\ timer = "set" /\ wait = 0 /\ backoff = MinBackoff
    /\ signal = FALSE
    /\ waker \in {"dial", "off"} /\ (once => waker = "off")
    /\ retry = 1 /\ stream = 0
    /\ events = 0 /\ faults = 0 /\ fails = 0
    /\ stale = TRUE /\ late = FALSE /\ heard = FALSE

(***************************************************************************)
(* Runner.Loop.                                                            *)
(***************************************************************************)
Doubled(d, cap) == IF 2 * d > cap THEN cap ELSE 2 * d

(* timer.Reset: a value left in timer.C from an earlier setting is gone. *)
Reset(d) == timer' = "set" /\ wait' = d

(* The runtime's part: the timer may fire while a pass is running. *)
TimerFires ==
    /\ timer = "set" /\ timer' = "fired"
    /\ UNCHANGED <<once, cancelled, at, wait, backoff, signal, wakerVars, history>>

BeginSync == at' = "sync" /\ late' = FALSE /\ heard' = FALSE

(* select picks any of the cases that are ready. *)
TakeDone ==
    /\ at = "select" /\ cancelled
    /\ at' = "over"
    /\ UNCHANGED <<once, cancelled, timer, wait, backoff, signal, wakerVars, history>>

TakeTimer ==
    /\ at = "select" /\ timer = "fired"
    /\ timer' = "off"
    /\ BeginSync
    /\ UNCHANGED <<once, cancelled, wait, backoff, signal, wakerVars, events, faults, fails, stale>>

TakeWake ==
    /\ at = "select" /\ signal
    /\ signal' = FALSE
    /\ at' = "drain"
    /\ UNCHANGED <<once, cancelled, timer, wait, backoff, wakerVars, history>>

(* The waker may send between any two receives of drain. *)
DrainOne ==
    /\ at = "drain" /\ signal
    /\ signal' = FALSE
    /\ UNCHANGED <<once, cancelled, loopVars, wakerVars, history>>

DrainDone ==
    /\ at = "drain" /\ ~signal
    /\ BeginSync
    /\ UNCHANGED <<once, cancelled, timer, wait, backoff, signal, wakerVars, events, faults, fails, stale>>

(* Mutant: the channel drained after the pass instead of before it. *)
SucceedAndDrain ==
    /\ at = "sync"
    /\ backoff' = MinBackoff /\ fails' = 0
    /\ stale' = late
    /\ signal' = FALSE
    /\ IF once THEN at' = "over" /\ UNCHANGED <<timer, wait>> ELSE at' = "select" /\ Reset(Interval)
    /\ UNCHANGED <<once, cancelled, wakerVars, events, faults, late, heard>>

(* Mutant: a good pass that leaves the backoff where the failures took it. *)
SucceedWarily ==
    /\ at = "sync"
    /\ fails' = 0
    /\ stale' = late
    /\ IF once THEN at' = "over" /\ UNCHANGED <<timer, wait>> ELSE at' = "select" /\ Reset(Interval)
    /\ UNCHANGED <<once, cancelled, backoff, signal, wakerVars, events, faults, late, heard>>

PassSucceeds ==
    /\ at = "sync"
    /\ backoff' = MinBackoff /\ fails' = 0
    /\ stale' = late
    /\ IF once THEN at' = "over" /\ UNCHANGED <<timer, wait>> ELSE at' = "select" /\ Reset(Interval)
    /\ UNCHANGED <<once, cancelled, signal, wakerVars, events, faults, late, heard>>

(* Mutant: doubling without the cap. *)
PassFailsUncapped ==
    /\ at = "sync" /\ faults < MaxFaults
    /\ faults' = faults + 1 /\ fails' = fails + 1
    /\ Reset(backoff)
    /\ backoff' = 2 * backoff
    /\ at' = "select"
    /\ UNCHANGED <<once, cancelled, signal, wakerVars, events, stale, late, heard>>

(* Mutant: retrying at once on the next nudge or interval, no timer set. *)
PassFailsUntimed ==
    /\ at = "sync" /\ faults < MaxFaults
    /\ faults' = faults + 1 /\ fails' = fails + 1
    /\ backoff' = Doubled(backoff, MaxBackoff)
    /\ at' = "select"
    /\ UNCHANGED <<once, cancelled, timer, wait, signal, wakerVars, events, stale, late, heard>>

(* The command's OnError always asks for a retry, under --once too. *)
PassFails ==
    /\ at = "sync" /\ faults < MaxFaults
    /\ faults' = faults + 1 /\ fails' = fails + 1
    /\ Reset(backoff)
    /\ backoff' = Doubled(backoff, MaxBackoff)
    /\ at' = "select"
    /\ UNCHANGED <<once, cancelled, signal, wakerVars, events, stale, late, heard>>

(* context.Canceled: ctx has ended under the pass. *)
PassCancelled ==
    /\ at = "sync" /\ cancelled
    /\ at' = "over"
    /\ UNCHANGED <<once, cancelled, timer, wait, backoff, signal, wakerVars, history>>

(* context.DeadlineExceeded, which ctx never returns, having no deadline:  *)
(* it comes from a connection to the target that took too long to open.    *)
PassTimesOut ==
    /\ at = "sync" /\ faults < MaxFaults
    /\ faults' = faults + 1 /\ fails' = fails + 1
    /\ at' = "over"
    /\ UNCHANGED <<once, cancelled, timer, wait, backoff, signal, wakerVars, events, stale, late, heard>>

PassEnds == PassSucceeds \/ PassFails \/ PassCancelled \/ PassTimesOut

Waiting == TakeDone \/ TakeTimer \/ TakeWake \/ DrainOne \/ DrainDone

LoopStep == Waiting \/ PassEnds

(***************************************************************************)
(* startWaker and Waker.Run.                                               *)
(***************************************************************************)
Connect ==
    /\ waker = "dial" /\ ~cancelled
    /\ waker' = "read" /\ stream' = 0
    /\ UNCHANGED <<once, cancelled, loopVars, signal, retry, history>>

(* One event, one send that never blocks: a full channel is left as it is. *)
Nudge ==
    /\ waker = "read" /\ ~cancelled /\ stream > 0
    /\ stream' = stream - 1
    /\ signal' = TRUE /\ heard' = TRUE
    /\ UNCHANGED <<once, cancelled, loopVars, waker, retry, events, faults, fails, stale, late>>

(* The dial fails, the answer is not 200, or the stream breaks: whatever   *)
(* it still held is lost.                                                  *)
RunFails ==
    /\ waker \in {"dial", "read"} /\ ~cancelled
    /\ waker' = "sleep" /\ stream' = 0
    /\ UNCHANGED <<once, cancelled, loopVars, signal, retry, history>>

WakerRetries ==
    /\ waker = "sleep"
    /\ retry' = Doubled(retry, WakerMax)
    /\ waker' = "dial"
    /\ UNCHANGED <<once, cancelled, loopVars, signal, stream, history>>

(* The daemon closes the stream: Run returns nil, the waker dials at once. *)
RunEnds ==
    /\ waker = "read" /\ ~cancelled /\ stream = 0
    /\ retry' = 1
    /\ waker' = "dial"
    /\ UNCHANGED <<once, cancelled, loopVars, signal, stream, history>>

(* Mutant: a waker that notices the end of ctx only between events. *)
WakerStopsLate ==
    /\ waker = "read" /\ stream > 0 /\ cancelled
    /\ waker' = "off" /\ stream' = 0
    /\ UNCHANGED <<once, cancelled, loopVars, signal, retry, history>>

(* ctx ends the request, the read or the sleep, and then the goroutine. *)
WakerStops ==
    /\ waker # "off" /\ cancelled
    /\ waker' = "off" /\ stream' = 0
    /\ UNCHANGED <<once, cancelled, loopVars, signal, retry, history>>

WakerStep == Connect \/ Nudge \/ RunFails \/ WakerRetries \/ RunEnds \/ WakerStops

(***************************************************************************)
(* Around them.                                                            *)
(***************************************************************************)

(* The daemon commits a change, and tells whoever is connected, or nobody: *)
(* the stream promises nothing.                                            *)
Change ==
    /\ events < MaxEvents
    /\ events' = events + 1
    /\ stale' = TRUE
    /\ late' = (late \/ at = "sync")
    /\ \/ waker = "read" /\ stream' = stream + 1
       \/ UNCHANGED stream
    /\ UNCHANGED <<once, cancelled, loopVars, signal, waker, retry, faults, fails, heard>>

Interrupt ==
    /\ ~cancelled /\ cancelled' = TRUE
    /\ UNCHANGED <<once, loopVars, signal, wakerVars, history>>

LoopNext == TimerFires \/ LoopStep \/ WakerStep \/ Change \/ Interrupt

LoopSpec == LoopInit /\ [][LoopNext]_vars

(* A timer that is set fires; the loop's goroutine runs, and a pass ends.  *)
(* select is random over the cases that are ready, so ctx.Done is not      *)
(* passed over forever.  Of the waker only that the end of ctx ends it:    *)
(* the daemon may be down, or accept a connection and never answer.        *)
FairLoop ==
    /\ LoopSpec
    /\ WF_vars(TimerFires) /\ WF_vars(LoopStep) /\ SF_vars(TakeDone)
    /\ WF_vars(WakerStops)

(***************************************************************************)
(* Properties.                                                             *)
(***************************************************************************)

(* No nudge is lost: an event heard after the last pass began has left its *)
(* token in the channel, or the loop is draining it and a pass is about to *)
(* begin.  The send drops the token when one is pending and drain throws   *)
(* tokens away; this is why neither loses anything (Run, Loop, drain).     *)
NudgeKept == heard => signal \/ at \in {"drain", "over"}

(* After the n-th failed pass in a row the loop has set its timer to the   *)
(* n-th delay of the doubling sequence, never more than the cap, however   *)
(* the passes before were started (Loop).  A nudge may still begin a pass  *)
(* before the timer fires: the delay bounds the wait, not the rate.        *)
DelayAfter(n) == LET d == MinBackoff * 2^(n - 1) IN IF d > MaxBackoff THEN MaxBackoff ELSE d

WaitsItsTurn == at = "select" /\ fails > 0 => wait = DelayAfter(fails)

(* When ctx ends, so do the loop and the waker, wherever they are. *)
ShutsDown == cancelled ~> (at = "over" /\ waker = "off")

(* loop.go:32-35: "A failed pass does not stop the loop ... a transient    *)
(* error - the target briefly unreachable - should cost a pass, not the    *)
(* process."  A connection that times out is reported as DeadlineExceeded  *)
(* and ends the loop, with no error, while ctx is alive.                   *)
FailedPassKeepsLoop == at = "over" => cancelled \/ once
=============================================================================
