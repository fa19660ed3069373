------------------------------ MODULE EpWriter ------------------------------
(***************************************************************************)
(* The report path of dualsense-ffsd (kbm-mapper-ff/files/main.c).         *)
(*                                                                         *)
(* Two threads and the USB host.  The main thread runs the epoll loop: on  *)
(* every 1 ms timer tick it builds a report and leaves it in the one-slot  *)
(* mailbox of struct ep_writer; between ticks it answers ep0 requests.     *)
(* The writer thread sleeps on a condition variable, takes the report out  *)
(* of the mailbox and hands it to write(ep_in), which blocks until the     *)
(* host reads the packet or the endpoint goes away.  On SIGTERM the main   *)
(* thread unbinds the UDC, stops and joins the writer and only then closes *)
(* the descriptors.                                                        *)
(*                                                                         *)
(* A report is identified by the number of the tick that built it.  Its    *)
(* bytes are kept as two halves, so that a memcpy is two steps and a       *)
(* reader running between them would see a torn report.                    *)
(***************************************************************************)
EXTENDS Naturals

CONSTANT MaxTicks     \* bound: reports built in one run of the daemon

ASSUME MaxTicksAssumption == MaxTicks \in Nat \ {0}

Halves == {1, 2}

VARIABLES
  mpc,          \* where the main thread is
  batch,        \* events epoll_wait returned and the loop has not yet handled
  stopped,      \* set by on_signal
  timer,        \* the timerfd has expired and was not read
  ticks,        \* reports built so far; also the id of the newest one
  wpc,          \* where the writer thread is
  mu,           \* owner of ep_writer.mu
  report,       \* ep_writer.report
  hasPending,   \* ep_writer.has_pending
  stop,         \* ep_writer.stop
  local,        \* the writer's own copy
  epInOpen,     \* the main thread has not closed ep_in
  enabled,      \* the host configured us: endpoints accept transfers
  bound,        \* the gadget is bound to the UDC
  urb,          \* the IN transfer: none, queued at the controller, completed
  setup,        \* an ep0 request the daemon has not answered
  received      \* the last report the host read

mainVars   == <<mpc, batch, stopped, timer, ticks, setup>>
boxVars    == <<report, hasPending, stop>>
usbVars    == <<enabled, bound, urb, received>>
vars == <<mainVars, wpc, mu, boxVars, local, epInOpen, usbVars>>

MainPc   == {"test", "wait", "dispatch", "lock", "copy1", "copy2", "set",
             "signal", "unlock", "unbind", "stop_lock", "stop_set",
             "stop_signal", "stop_unlock", "join", "close", "exit"}
WriterPc == {"lock", "check", "sleep", "waiting", "woken", "take1", "take2",
             "unlock", "write", "inflight", "unlock_stop", "done"}

NoReport == [h \in Halves |-> 0]

Init ==
  /\ mpc = "test" /\ batch = {} /\ stopped = FALSE
  /\ timer = FALSE /\ ticks = 0 /\ setup = FALSE
  /\ wpc = "lock" /\ mu = "free"
  /\ report = NoReport /\ hasPending = FALSE /\ stop = FALSE
  /\ local = NoReport /\ epInOpen = TRUE
  /\ enabled = FALSE /\ bound = TRUE /\ urb = "none" /\ received = NoReport
-----------------------------------------------------------------------------
(* The main loop.                                                          *)

MainGoto(from, to) == mpc = from /\ mpc' = to

\* while (!stopped): the flag is read here and nowhere else.
TestStopped ==
  /\ MainGoto("test", IF stopped THEN "unbind" ELSE "wait")
  /\ UNCHANGED <<batch, stopped, timer, ticks, setup, wpc, mu, boxVars, local,
                 epInOpen, usbVars>>

Ready == (IF timer THEN {"tfd"} ELSE {}) \cup (IF setup THEN {"ep0"} ELSE {})

\* epoll_wait returns every descriptor that is ready: the array has room for
\* all of them.
EpollWait ==
  /\ MainGoto("wait", "dispatch")
  /\ Ready # {}
  /\ batch' = Ready
  /\ UNCHANGED <<stopped, timer, ticks, setup, wpc, mu, boxVars, local,
                 epInOpen, usbVars>>

BatchDone ==
  /\ MainGoto("dispatch", "test")
  /\ batch = {}
  /\ UNCHANGED <<batch, stopped, timer, ticks, setup, wpc, mu, boxVars, local,
                 epInOpen, usbVars>>

\* Timer tick: read the timerfd, build the next report, start submitting it.
\* Past the bound the timer still fires and the loop still runs, but no
\* further report is modelled.
HandleTick ==
  /\ "tfd" \in batch
  /\ MainGoto("dispatch", IF ticks < MaxTicks THEN "lock" ELSE "dispatch")
  /\ batch' = batch \ {"tfd"}
  /\ timer' = FALSE
  /\ ticks' = IF ticks < MaxTicks THEN ticks + 1 ELSE ticks
  /\ UNCHANGED <<stopped, setup, wpc, mu, boxVars, local, epInOpen, usbVars>>

\* ep0 event: the request is read and answered on this thread.
HandleEp0 ==
  /\ "ep0" \in batch
  /\ MainGoto("dispatch", "dispatch")
  /\ batch' = batch \ {"ep0"}
  /\ setup' = FALSE
  /\ UNCHANGED <<stopped, timer, ticks, wpc, mu, boxVars, local, epInOpen,
                 usbVars>>
-----------------------------------------------------------------------------
(* ep_writer_submit.                                                       *)

MainLock(from, to) ==
  /\ MainGoto(from, to)
  /\ mu = "free"
  /\ mu' = "main"
  /\ UNCHANGED <<batch, stopped, timer, ticks, setup, wpc, boxVars, local,
                 epInOpen, usbVars>>

MainUnlock(from, to) ==
  /\ MainGoto(from, to)
  /\ mu' = "free"
  /\ UNCHANGED <<batch, stopped, timer, ticks, setup, wpc, boxVars, local,
                 epInOpen, usbVars>>

\* pthread_cond_signal: wakes the writer if it sleeps, else has no effect.
CondSignal(from, to) ==
  /\ MainGoto(from, to)
  /\ wpc' = IF wpc = "waiting" THEN "woken" ELSE wpc
  /\ UNCHANGED <<batch, stopped, timer, ticks, setup, mu, boxVars, local,
                 epInOpen, usbVars>>

\* Variant of SubmitLock: the mailbox is written without the mutex.
SubmitNoLock ==
  /\ MainGoto("lock", "copy1")
  /\ UNCHANGED <<batch, stopped, timer, ticks, setup, wpc, mu, boxVars, local,
                 epInOpen, usbVars>>

SubmitLock == MainLock("lock", "copy1")

SubmitCopy(h, from, to) ==
  /\ MainGoto(from, to)
  /\ report' = [report EXCEPT ![h] = ticks]
  /\ UNCHANGED <<batch, stopped, timer, ticks, setup, wpc, mu, hasPending,
                 stop, local, epInOpen, usbVars>>

SubmitSet ==
  /\ MainGoto("set", "signal")
  /\ hasPending' = TRUE
  /\ UNCHANGED <<batch, stopped, timer, ticks, setup, wpc, mu, report, stop,
                 local, epInOpen, usbVars>>

\* Variant of SubmitSignal: has_pending is set and nobody is woken.
SubmitNoSignal ==
  /\ MainGoto("signal", "unlock")
  /\ UNCHANGED <<batch, stopped, timer, ticks, setup, wpc, mu, boxVars, local,
                 epInOpen, usbVars>>

SubmitSignal == CondSignal("signal", "unlock")
SubmitUnlock == MainUnlock("unlock", "dispatch")

Submit ==
  \/ SubmitLock
  \/ SubmitCopy(1, "copy1", "copy2")
  \/ SubmitCopy(2, "copy2", "set")
  \/ SubmitSet
  \/ SubmitSignal
  \/ SubmitUnlock
-----------------------------------------------------------------------------
(* Shutdown: unbind, ep_writer_stop, close.                                *)

\* Endpoints go away: a queued transfer completes with ESHUTDOWN.
AbortTransfer == urb' = IF urb = "queued" THEN "completed" ELSE urb

\* Variant of UnbindUdc: the writer is stopped with the gadget still bound.
SkipUnbind ==
  /\ MainGoto("unbind", "stop_lock")
  /\ UNCHANGED <<batch, stopped, timer, ticks, setup, wpc, mu, boxVars, local,
                 epInOpen, usbVars>>

UnbindUdc ==
  /\ MainGoto("unbind", "stop_lock")
  /\ bound' = FALSE
  /\ enabled' = FALSE
  /\ AbortTransfer
  /\ UNCHANGED <<batch, stopped, timer, ticks, setup, wpc, mu, boxVars, local,
                 epInOpen, received>>

StopLock == MainLock("stop_lock", "stop_set")

StopSet ==
  /\ MainGoto("stop_set", "stop_signal")
  /\ stop' = TRUE
  /\ UNCHANGED <<batch, stopped, timer, ticks, setup, wpc, mu, report,
                 hasPending, local, epInOpen, usbVars>>

StopSignal == CondSignal("stop_signal", "stop_unlock")
StopUnlock == MainUnlock("stop_unlock", "join")

\* Variant of Join: close the descriptors without waiting for the thread.
SkipJoin ==
  /\ MainGoto("join", "close")
  /\ UNCHANGED <<batch, stopped, timer, ticks, setup, wpc, mu, boxVars, local,
                 epInOpen, usbVars>>

Join ==
  /\ MainGoto("join", "close")
  /\ wpc = "done"
  /\ UNCHANGED <<batch, stopped, timer, ticks, setup, wpc, mu, boxVars, local,
                 epInOpen, usbVars>>

CloseFds ==
  /\ MainGoto("close", "exit")
  /\ epInOpen' = FALSE
  /\ UNCHANGED <<batch, stopped, timer, ticks, setup, wpc, mu, boxVars, local,
                 usbVars>>

Shutdown ==
  \/ UnbindUdc
  \/ StopLock
  \/ StopSet
  \/ StopSignal
  \/ StopUnlock
  \/ Join
  \/ CloseFds

MainThread ==
  \/ TestStopped
  \/ EpollWait
  \/ BatchDone
  \/ HandleTick
  \/ HandleEp0
  \/ Submit
  \/ Shutdown
-----------------------------------------------------------------------------
(* ep_writer_loop.                                                         *)

WriterGoto(from, to) == wpc = from /\ wpc' = to

WriterLock(from) ==
  /\ WriterGoto(from, "check")
  /\ mu = "free"
  /\ mu' = "writer"
  /\ UNCHANGED <<mainVars, boxVars, local, epInOpen, usbVars>>

\* stop wins over a pending report.
CheckStop ==
  /\ WriterGoto("check", "unlock_stop")
  /\ stop
  /\ UNCHANGED <<mainVars, mu, boxVars, local, epInOpen, usbVars>>

CheckPending ==
  /\ WriterGoto("check", "take1")
  /\ hasPending /\ ~stop
  /\ UNCHANGED <<mainVars, mu, boxVars, local, epInOpen, usbVars>>

CheckEmpty ==
  /\ WriterGoto("check", "sleep")
  /\ ~hasPending /\ ~stop
  /\ UNCHANGED <<mainVars, mu, boxVars, local, epInOpen, usbVars>>

\* pthread_cond_wait releases the mutex and sleeps in one step; the flags were
\* read before it.
CondWait ==
  /\ WriterGoto("sleep", "waiting")
  /\ mu' = "free"
  /\ UNCHANGED <<mainVars, boxVars, local, epInOpen, usbVars>>

\* POSIX lets pthread_cond_wait return without a signal.
SpuriousWakeup ==
  /\ WriterGoto("waiting", "woken")
  /\ UNCHANGED <<mainVars, mu, boxVars, local, epInOpen, usbVars>>

TakeFirst ==
  /\ WriterGoto("take1", "take2")
  /\ local' = [local EXCEPT ![1] = report[1]]
  /\ UNCHANGED <<mainVars, mu, boxVars, epInOpen, usbVars>>

\* Variant of TakeSecond: has_pending stays set.
TakeKeepPending ==
  /\ WriterGoto("take2", "unlock")
  /\ local' = [local EXCEPT ![2] = report[2]]
  /\ UNCHANGED <<mainVars, mu, boxVars, epInOpen, usbVars>>

\* The second half of the memcpy, and has_pending = false.
TakeSecond ==
  /\ WriterGoto("take2", "unlock")
  /\ local' = [local EXCEPT ![2] = report[2]]
  /\ hasPending' = FALSE
  /\ UNCHANGED <<mainVars, mu, report, stop, epInOpen, usbVars>>

\* Variant of WriterUnlock: the mutex is held across the blocking write.
WriterUnlockLate(from, to) ==
  /\ WriterGoto(from, to)
  /\ mu' = IF from = "unlock" THEN mu ELSE "free"
  /\ UNCHANGED <<mainVars, boxVars, local, epInOpen, usbVars>>

\* Variant of WriterUnlock: the early exit of the loop forgets to unlock.
WriterUnlockNotAtStop(from, to) ==
  /\ WriterGoto(from, to)
  /\ mu' = IF to = "done" THEN mu ELSE "free"
  /\ UNCHANGED <<mainVars, boxVars, local, epInOpen, usbVars>>

WriterUnlock(from, to) ==
  /\ WriterGoto(from, to)
  /\ mu' = "free"
  /\ UNCHANGED <<mainVars, boxVars, local, epInOpen, usbVars>>

\* write(ep_in): queues the transfer when the endpoint is enabled.
WriteQueued ==
  /\ WriterGoto("write", "inflight")
  /\ enabled
  /\ urb' = "queued"
  /\ UNCHANGED <<mainVars, mu, boxVars, local, epInOpen, enabled, bound,
                 received>>

\* O_NONBLOCK only matters here: an endpoint that is not enabled gives EAGAIN
\* and the report is dropped.
WriteRefused ==
  /\ WriterGoto("write", "lock")
  /\ ~enabled
  /\ UNCHANGED <<mainVars, mu, boxVars, local, epInOpen, usbVars>>

\* Variant of WriteReturns: has_pending is cleared after the write, without
\* looking at what was submitted meanwhile.
WriteReturnsClears ==
  /\ WriterGoto("inflight", "lock")
  /\ urb = "completed"
  /\ urb' = "none"
  /\ hasPending' = FALSE
  /\ UNCHANGED <<mainVars, mu, report, stop, local, epInOpen, enabled, bound,
                 received>>

WriteReturns ==
  /\ WriterGoto("inflight", "lock")
  /\ urb = "completed"
  /\ urb' = "none"
  /\ UNCHANGED <<mainVars, mu, boxVars, local, epInOpen, enabled, bound,
                 received>>

WriterAcquire == WriterLock("lock") \/ WriterLock("woken")

WriterThread ==
  \/ WriterAcquire
  \/ CheckStop
  \/ CheckPending
  \/ CheckEmpty
  \/ CondWait
  \/ TakeFirst
  \/ TakeSecond
  \/ WriterUnlock("unlock", "write")
  \/ WriterUnlock("unlock_stop", "done")
  \/ WriteQueued
  \/ WriteRefused
  \/ WriteReturns
-----------------------------------------------------------------------------
(* The environment: kernel timer, signals, the USB host.                   *)

TimerExpires ==
  /\ ~timer /\ mpc # "exit"
  /\ timer' = TRUE
  /\ UNCHANGED <<mpc, batch, stopped, ticks, setup, wpc, mu, boxVars, local,
                 epInOpen, usbVars>>

\* A signal interrupts epoll_wait, unless it lands between the test of the
\* flag and the system call: then the loop sleeps on with the flag set.
OnSignal ==
  /\ ~stopped /\ mpc # "exit"
  /\ stopped' = TRUE
  /\ mpc' \in {mpc} \cup (IF mpc = "wait" THEN {"test"} ELSE {})
  /\ UNCHANGED <<batch, timer, ticks, setup, wpc, mu, boxVars, local,
                 epInOpen, usbVars>>

HostConfigures ==
  /\ bound /\ ~enabled
  /\ enabled' = TRUE
  /\ UNCHANGED <<mainVars, wpc, mu, boxVars, local, epInOpen, bound, urb,
                 received>>

\* Bus reset, suspend or cable pulled: FUNCTIONFS_DISABLE.
HostDisables ==
  /\ enabled
  /\ enabled' = FALSE
  /\ AbortTransfer
  /\ UNCHANGED <<mainVars, wpc, mu, boxVars, local, epInOpen, bound, received>>

HostPolls ==
  /\ enabled
  /\ urb = "queued"
  /\ urb' = "completed"
  /\ received' = local
  /\ UNCHANGED <<mainVars, wpc, mu, boxVars, local, epInOpen, enabled, bound>>

HostSetup ==
  /\ bound /\ ~setup
  /\ setup' = TRUE
  /\ UNCHANGED <<mpc, batch, stopped, timer, ticks, wpc, mu, boxVars, local,
                 epInOpen, usbVars>>

Host == HostConfigures \/ HostDisables \/ HostPolls \/ HostSetup

\* The process is gone.
Terminated == mpc = "exit" /\ UNCHANGED vars

Next ==
  \/ MainThread
  \/ WriterThread
  \/ SpuriousWakeup
  \/ TimerExpires
  \/ OnSignal
  \/ Host
  \/ Terminated

SafeSpec == Init /\ [][Next]_vars

\* Scheduling.  A thread that can step does; the mutex is held only for a few
\* instructions, so a thread that wants it gets it; the 1 ms timer fires.  A
\* spurious wakeup is never owed, nor is anything the host does.
MainFairness ==
  /\ WF_vars(MainThread)
  /\ SF_vars(SubmitLock)
  /\ SF_vars(StopLock)
WriterFairness == WF_vars(WriterThread) /\ SF_vars(WriterAcquire)
DaemonFairness == MainFairness /\ WriterFairness /\ WF_vars(TimerExpires)

Spec == SafeSpec /\ DaemonFairness
-----------------------------------------------------------------------------
(* Properties.                                                             *)

DataOK ==
  /\ mpc \in MainPc /\ wpc \in WriterPc
  /\ batch \subseteq {"tfd", "ep0"}
  /\ ticks \in 0 .. MaxTicks
  /\ mu \in {"free", "main", "writer"}
  /\ report \in [Halves -> 0 .. ticks]
  /\ local \in [Halves -> 0 .. ticks]
  /\ received \in [Halves -> 0 .. ticks]
  /\ urb \in {"none", "queued", "completed"}

FlagsOK ==
  /\ stopped \in BOOLEAN /\ timer \in BOOLEAN /\ setup \in BOOLEAN
  /\ hasPending \in BOOLEAN /\ stop \in BOOLEAN
  /\ epInOpen \in BOOLEAN /\ enabled \in BOOLEAN /\ bound \in BOOLEAN

\* Places between lock and unlock, per thread.
MainCS == {"copy1", "copy2", "set", "signal", "unlock",
           "stop_set", "stop_signal", "stop_unlock"}
WriterCS == {"check", "sleep", "take1", "take2", "unlock", "unlock_stop"}

MutexInv ==
  /\ mu = "main" <=> mpc \in MainCS
  /\ mu = "writer" <=> wpc \in WriterCS

\* Type invariant.  Every half of a report is the number of a tick that
\* happened, in the mailbox, in the writer's copy and at the host; and
\* ep_writer.mu is owned by a thread exactly between its lock and its unlock,
\* on every way out of the two critical sections of the writer.
TypeOK == DataOK /\ FlagsOK /\ MutexInv

\* The host never reads a report half of which belongs to one tick and half to
\* another: the two memcpys of ep_writer_submit and ep_writer_loop never run
\* in the same window.
NoTornReport == received[1] = received[2]

\* The writer never sleeps through work: if it is in pthread_cond_wait while a
\* report is pending or stop is set, the main thread is just about to signal.
\* This holds for either order of "set the flag" and "go to sleep".
NoLostWakeup ==
  wpc = "waiting" =>
    /\ hasPending => mpc = "signal"
    /\ stop => mpc = "stop_signal"

\* "Stop the writer thread BEFORE closing ep_in so it doesn't keep submitting
\* into a closed fd": while the writer can still reach write(ep_in), or is
\* inside it, the main thread has not closed the descriptor.
NoWriteToClosedFd == wpc # "done" => epInOpen

\* The mailbox, the writer and the endpoint together are a latest-value
\* channel: a report counts as put when the mailbox shows all of it, as taken
\* when has_pending is cleared, as in flight until the host reads it or the
\* kernel gives it up.
Channel == INSTANCE LatestReport WITH
  newest <- IF \/ mpc \in {"lock", "copy1", "copy2"}
               \/ mpc = "set" /\ ~hasPending
              THEN ticks - 1 ELSE ticks,
  slot <- IF hasPending THEN report[2] ELSE 0,
  flying <- IF wpc \in {"unlock", "write"} \/ urb = "queued"
              THEN local[1] ELSE 0,
  received <- received[1]
Implements == Channel!Spec

\* SIGTERM ends the daemon even when the host has stopped polling and the
\* writer sits in write(ep_in): unbinding the UDC comes before the join.
ShutdownCompletes == stopped ~> mpc = "exit"

\* An ep0 request is answered even when the host has stopped polling ep1: the
\* main loop is never behind the writer's blocking write.
SetupAnswered == setup ~> (~setup \/ stopped)

\* A report left in the mailbox reaches the host, or a newer one does, unless
\* the endpoint goes down or the daemon is stopped: for a host that keeps
\* polling an enabled endpoint, which nothing in the daemon can force.
NewestDelivered ==
  WF_vars(HostPolls) =>
    \A k \in 1 .. MaxTicks :
      (hasPending /\ report[2] = k) ~> (received[1] >= k \/ ~enabled \/ stopped)
=============================================================================
