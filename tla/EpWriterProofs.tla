--------------------------- MODULE EpWriterProofs ---------------------------
(***************************************************************************)
(* Proofs about the report path: the types, the mutual exclusion of the    *)
(* two threads, and from it the safety properties of EpWriter, for every   *)
(* number of ticks; then that EpWriter implements LatestReport.            *)
(***************************************************************************)
EXTENDS EpWriter, TLAPS

\* Where each copy of a report is whole.
WholeInv ==
  /\ mpc # "copy2" => report[1] = report[2]
  /\ mpc \in {"copy2", "set"} => report[1] = ticks
  /\ wpc # "take2" => local[1] = local[2]
  /\ wpc = "take2" => local[1] = report[1]
  /\ NoTornReport

\* What the writer holds once it decided to take a report.
TakeInv ==
  /\ mpc \in {"lock", "copy1", "copy2", "set", "signal"} => ticks # 0
  /\ hasPending => report[2] # 0
  /\ wpc \in {"take1", "take2"} => hasPending
  /\ wpc \in {"unlock", "write", "inflight"} => local[1] # 0
  /\ urb # "none" <=> wpc = "inflight"

SleepInv ==
  /\ wpc = "sleep" => ~hasPending /\ ~stop
  /\ NoLostWakeup

StopInv ==
  /\ mpc \in {"close", "exit"} => wpc = "done"
  /\ ~epInOpen => mpc = "exit"

IInv == TypeOK /\ WholeInv /\ TakeInv /\ SleepInv /\ StopInv
-----------------------------------------------------------------------------
(* Every step keeps the sets the data range over. *)
LEMMA DataStep == DataOK /\ [Next]_vars => DataOK'
<1> SUFFICES ASSUME DataOK, [Next]_vars PROVE DataOK'
  OBVIOUS
<1> USE DEF DataOK, MainPc, WriterPc, MainGoto, WriterGoto, mainVars, boxVars,
            usbVars
<1>1. CASE TestStopped \/ EpollWait \/ BatchDone
  BY <1>1 DEF TestStopped, EpollWait, BatchDone, Ready
<1>2. CASE HandleTick
  BY <1>2, MaxTicksAssumption DEF HandleTick
<1>3. CASE HandleEp0
  BY <1>3 DEF HandleEp0
<1>4. CASE SubmitLock \/ SubmitSet \/ SubmitSignal \/ SubmitUnlock
  BY <1>4 DEF SubmitLock, SubmitSet, SubmitSignal, SubmitUnlock, MainLock,
                MainUnlock, CondSignal
<1>5. CASE SubmitCopy(1, "copy1", "copy2") \/ SubmitCopy(2, "copy2", "set")
  <2>1. /\ UNCHANGED <<batch, ticks, wpc, mu, local, received, urb>>
        /\ mpc' \in MainPc
    BY <1>5 DEF SubmitCopy
  <2>2. report' \in [Halves -> 0 .. ticks]
    <3>1. ticks \in 0 .. ticks
      OBVIOUS
    <3>2. PICK h \in Halves : report' = [report EXCEPT ![h] = ticks]
      BY <1>5 DEF SubmitCopy, Halves
    <3> QED
      BY <3>1, <3>2
  <2> QED
    BY <2>1, <2>2
<1>6. CASE Shutdown
  BY <1>6, ZenonT(30) DEF Shutdown, UnbindUdc, AbortTransfer, StopLock, StopSet,
                StopSignal, StopUnlock, Join, CloseFds, MainLock, MainUnlock,
                CondSignal
<1>7. CASE WriterAcquire \/ WriterUnlock("unlock", "write")
               \/ WriterUnlock("unlock_stop", "done")
  BY <1>7 DEF WriterAcquire, WriterLock, WriterUnlock
<1>8. CASE CheckStop \/ CheckPending \/ CheckEmpty \/ CondWait
               \/ SpuriousWakeup
  BY <1>8 DEF CheckStop, CheckPending, CheckEmpty, CondWait, SpuriousWakeup
<1>9. CASE TakeFirst \/ TakeSecond
  BY <1>9 DEF TakeFirst, TakeSecond, Halves
<1>10. CASE WriteQueued \/ WriteRefused \/ WriteReturns
  BY <1>10 DEF WriteQueued, WriteRefused, WriteReturns
<1>11. CASE TimerExpires \/ OnSignal
  BY <1>11, ZenonT(30) DEF TimerExpires, OnSignal
<1>12. CASE Host
  <2>1. CASE HostPolls
    BY <2>1 DEF HostPolls
  <2>2. CASE HostDisables
    BY <2>2 DEF HostDisables, AbortTransfer
  <2>3. CASE HostConfigures \/ HostSetup
    BY <2>3, ZenonT(30) DEF HostConfigures, HostSetup
  <2> QED
    BY <1>12, <2>1, <2>2, <2>3 DEF Host
<1>13. CASE UNCHANGED vars
  BY <1>13 DEF vars
<1> QED
  BY <1>1, <1>2, <1>3, <1>4, <1>5, <1>6, <1>7,
     <1>8, <1>9, <1>10, <1>11, <1>12, <1>13
  DEF Next, MainThread, Submit, WriterThread, Terminated

(* Every step keeps the flags Boolean. *)
LEMMA FlagsStep == FlagsOK /\ [Next]_vars => FlagsOK'
<1> SUFFICES ASSUME FlagsOK, [Next]_vars PROVE FlagsOK'
  OBVIOUS
<1> USE DEF FlagsOK, MainGoto, WriterGoto, mainVars, boxVars, usbVars
<1>1. CASE TestStopped \/ EpollWait \/ BatchDone
  BY <1>1, Zenon DEF TestStopped, EpollWait, BatchDone, Ready
<1>2. CASE HandleTick
  BY <1>2, Zenon DEF HandleTick
<1>3. CASE HandleEp0
  BY <1>3, Zenon DEF HandleEp0
<1>4. CASE SubmitLock \/ SubmitSet \/ SubmitSignal \/ SubmitUnlock
  BY <1>4, Zenon DEF SubmitLock, SubmitSet, SubmitSignal, SubmitUnlock, MainLock,
                MainUnlock, CondSignal
<1>5. CASE SubmitCopy(1, "copy1", "copy2") \/ SubmitCopy(2, "copy2", "set")
  BY <1>5, Zenon DEF SubmitCopy, Halves
<1>6. CASE Shutdown
  BY <1>6, Zenon DEF Shutdown, UnbindUdc, AbortTransfer, StopLock, StopSet,
                StopSignal, StopUnlock, Join, CloseFds, MainLock, MainUnlock,
                CondSignal
<1>7. CASE WriterAcquire \/ WriterUnlock("unlock", "write")
               \/ WriterUnlock("unlock_stop", "done")
  BY <1>7, Zenon DEF WriterAcquire, WriterLock, WriterUnlock
<1>8. CASE CheckStop \/ CheckPending \/ CheckEmpty \/ CondWait
               \/ SpuriousWakeup
  BY <1>8, Zenon DEF CheckStop, CheckPending, CheckEmpty, CondWait, SpuriousWakeup
<1>9. CASE TakeFirst \/ TakeSecond
  BY <1>9, Zenon DEF TakeFirst, TakeSecond, Halves
<1>10. CASE WriteQueued \/ WriteRefused \/ WriteReturns
  BY <1>10, Zenon DEF WriteQueued, WriteRefused, WriteReturns
<1>11. CASE TimerExpires \/ OnSignal
  BY <1>11, Zenon DEF TimerExpires, OnSignal
<1>12. CASE Host
  BY <1>12, Zenon DEF Host, HostConfigures, HostDisables, HostPolls, HostSetup,
                AbortTransfer
<1>13. CASE UNCHANGED vars
  BY <1>13, Zenon DEF vars
<1> QED
  BY <1>1, <1>2, <1>3, <1>4, <1>5, <1>6, <1>7,
     <1>8, <1>9, <1>10, <1>11, <1>12, <1>13
  DEF Next, MainThread, Submit, WriterThread, Terminated

\* The places most leaves below go through.
USE DEF MainGoto, WriterGoto, mainVars, boxVars, usbVars

(* A thread enters its critical section only with the mutex free. *)
LEMMA MutexStep == MutexInv /\ [Next]_vars => MutexInv'
<1> SUFFICES ASSUME MutexInv, [Next]_vars PROVE MutexInv'
  OBVIOUS
<1> USE DEF MutexInv, MainCS, WriterCS
<1>1. CASE TestStopped \/ EpollWait \/ BatchDone \/ HandleTick \/ HandleEp0
  BY <1>1 DEF TestStopped, EpollWait, BatchDone, HandleTick, HandleEp0
<1>2. CASE Submit
  BY <1>2 DEF Submit, SubmitLock, SubmitCopy, SubmitSet, SubmitSignal,
              SubmitUnlock, MainLock, MainUnlock, CondSignal
<1>3. CASE Shutdown
  BY <1>3 DEF Shutdown, UnbindUdc, StopLock, StopSet, StopSignal, StopUnlock,
              Join, CloseFds, MainLock, MainUnlock, CondSignal
<1>4. CASE WriterThread \/ SpuriousWakeup
  BY <1>4 DEF WriterThread, WriterAcquire, WriterLock, CheckStop,
              CheckPending, CheckEmpty, CondWait, SpuriousWakeup,
              TakeFirst, TakeSecond, WriterUnlock, WriteQueued, WriteRefused, WriteReturns
<1>5. CASE TimerExpires \/ OnSignal
  BY <1>5 DEF TimerExpires, OnSignal
<1>6. CASE Host
  BY <1>6 DEF Host, HostConfigures, HostDisables, HostPolls, HostSetup
<1>7. CASE UNCHANGED vars
  BY <1>7 DEF vars
<1> QED
  BY <1>1, <1>2, <1>3, <1>4, <1>5, <1>6, <1>7 DEF Next, MainThread, Terminated

LEMMA InitTypes == Init => TypeOK
<1>1. Init => DataOK
  BY MaxTicksAssumption DEF Init, DataOK, MainPc, WriterPc, NoReport, Halves
<1>2. Init => FlagsOK
  BY Zenon DEF Init, FlagsOK
<1>3. Init => MutexInv
  BY DEF Init, MutexInv, MainCS, WriterCS
<1> QED
  BY <1>1, <1>2, <1>3 DEF TypeOK

(***************************************************************************)
(* Types: the report numbers in the mailbox, in the writer's copy and at   *)
(* the host stay those of ticks that happened, and ep_writer.mu is owned   *)
(* by a thread exactly inside its critical section (main.c 484-529,        *)
(* 633-728).                                                               *)
(***************************************************************************)
THEOREM TypeCorrect == SafeSpec => []TypeOK
<1>1. TypeOK /\ [Next]_vars => TypeOK'
  BY DataStep, FlagsStep, MutexStep DEF TypeOK
<1> QED
  BY InitTypes, <1>1, PTL DEF SafeSpec

-----------------------------------------------------------------------------
(* The inductive invariant.  Each part is preserved by every step; a part  *)
(* needs the types and the mutual exclusion of the threads, and little     *)
(* else.                                                                   *)

\* The writer goes to sleep only with nothing to do, and stays asleep only
\* until the main thread's signal.
LEMMA SleepStep ==
  MutexInv /\ SleepInv /\ [Next]_vars => SleepInv'
<1> SUFFICES ASSUME MutexInv, SleepInv, [Next]_vars PROVE SleepInv'
  OBVIOUS
<1> USE DEF SleepInv, NoLostWakeup, MutexInv, MainCS, WriterCS
<1>1. CASE TestStopped \/ EpollWait \/ BatchDone \/ HandleTick \/ HandleEp0
  BY <1>1 DEF TestStopped, EpollWait, BatchDone, HandleTick, HandleEp0
<1>2. CASE Submit
  BY <1>2 DEF Submit, SubmitLock, SubmitCopy, SubmitSet, SubmitSignal,
              SubmitUnlock, MainLock, MainUnlock, CondSignal
<1>3. CASE Shutdown
  BY <1>3 DEF Shutdown, UnbindUdc, AbortTransfer, StopLock, StopSet, StopSignal,
              StopUnlock, Join, CloseFds, MainLock, MainUnlock, CondSignal
<1>4. CASE WriterThread \/ SpuriousWakeup
  BY <1>4 DEF WriterThread, WriterAcquire, WriterLock, CheckStop,
              CheckPending, CheckEmpty, CondWait, SpuriousWakeup,
              TakeFirst, TakeSecond, WriterUnlock, WriteQueued, WriteRefused,
              WriteReturns
<1>5. CASE TimerExpires \/ OnSignal
  BY <1>5 DEF TimerExpires, OnSignal
<1>6. CASE Host
  BY <1>6 DEF Host, HostConfigures, HostDisables, HostPolls, HostSetup,
              AbortTransfer
<1>7. CASE UNCHANGED vars
  BY <1>7 DEF vars
<1> QED
  BY <1>1, <1>2, <1>3, <1>4, <1>5, <1>6, <1>7 DEF Next, MainThread, Terminated

\* The descriptor outlives the writer.
LEMMA StopStep ==
  MutexInv /\ StopInv /\ [Next]_vars => StopInv'
<1> SUFFICES ASSUME MutexInv, StopInv, [Next]_vars PROVE StopInv'
  OBVIOUS
<1> USE DEF StopInv, MutexInv, MainCS, WriterCS
<1>1. CASE TestStopped \/ EpollWait \/ BatchDone \/ HandleTick \/ HandleEp0
  BY <1>1 DEF TestStopped, EpollWait, BatchDone, HandleTick, HandleEp0
<1>2. CASE Submit
  BY <1>2 DEF Submit, SubmitLock, SubmitCopy, SubmitSet, SubmitSignal,
              SubmitUnlock, MainLock, MainUnlock, CondSignal
<1>3. CASE Shutdown
  BY <1>3 DEF Shutdown, UnbindUdc, AbortTransfer, StopLock, StopSet, StopSignal,
              StopUnlock, Join, CloseFds, MainLock, MainUnlock, CondSignal
<1>4. CASE WriterThread \/ SpuriousWakeup
  BY <1>4 DEF WriterThread, WriterAcquire, WriterLock, CheckStop,
              CheckPending, CheckEmpty, CondWait, SpuriousWakeup,
              TakeFirst, TakeSecond, WriterUnlock, WriteQueued, WriteRefused,
              WriteReturns
<1>5. CASE TimerExpires \/ OnSignal
  BY <1>5 DEF TimerExpires, OnSignal
<1>6. CASE Host
  BY <1>6 DEF Host, HostConfigures, HostDisables, HostPolls, HostSetup,
              AbortTransfer
<1>7. CASE UNCHANGED vars
  BY <1>7 DEF vars
<1> QED
  BY <1>1, <1>2, <1>3, <1>4, <1>5, <1>6, <1>7 DEF Next, MainThread, Terminated

\* Copies are torn only inside the critical section that makes them.
LEMMA WholeStep ==
  DataOK /\ MutexInv /\ TakeInv /\ WholeInv /\ [Next]_vars => WholeInv'
<1> SUFFICES ASSUME DataOK, MutexInv, TakeInv, WholeInv, [Next]_vars
             PROVE  WholeInv'
  OBVIOUS
<1> USE DEF WholeInv, NoTornReport, DataOK, MutexInv, MainCS, WriterCS, Halves
<1>1. CASE TestStopped \/ EpollWait \/ BatchDone \/ HandleTick \/ HandleEp0
  BY <1>1 DEF TestStopped, EpollWait, BatchDone, HandleTick, HandleEp0
<1>2. CASE Submit
  <2>1. CASE SubmitCopy(1, "copy1", "copy2")
    BY <2>1 DEF SubmitCopy
  <2>2. CASE SubmitCopy(2, "copy2", "set")
    <3>1. report'[2] = ticks /\ report'[1] = report[1]
      BY <2>2 DEF SubmitCopy
    <3>2. report[1] = ticks
      BY <2>2 DEF SubmitCopy
    <3> QED
      BY <2>2, <3>1, <3>2 DEF SubmitCopy
  <2>3. CASE SubmitLock \/ SubmitSet \/ SubmitSignal \/ SubmitUnlock
    BY <2>3 DEF SubmitLock, SubmitSet, SubmitSignal, SubmitUnlock, MainLock,
                MainUnlock, CondSignal
  <2> QED
    BY <1>2, <2>1, <2>2, <2>3 DEF Submit
<1>3. CASE Shutdown
  BY <1>3 DEF Shutdown, UnbindUdc, AbortTransfer, StopLock, StopSet, StopSignal,
              StopUnlock, Join, CloseFds, MainLock, MainUnlock, CondSignal
<1>4. CASE WriterThread \/ SpuriousWakeup
  BY <1>4 DEF WriterThread, WriterAcquire, WriterLock, CheckStop,
              CheckPending, CheckEmpty, CondWait, SpuriousWakeup,
              TakeFirst, TakeSecond, WriterUnlock, WriteQueued, WriteRefused,
              WriteReturns
<1>5. CASE TimerExpires \/ OnSignal
  BY <1>5 DEF TimerExpires, OnSignal
<1>6. CASE Host
  <2>1. CASE HostPolls
    BY <2>1 DEF HostPolls, TakeInv
  <2>2. CASE HostConfigures \/ HostDisables \/ HostSetup
    BY <2>2 DEF HostConfigures, HostDisables, HostSetup, AbortTransfer
  <2> QED
    BY <1>6, <2>1, <2>2 DEF Host
<1>7. CASE UNCHANGED vars
  BY <1>7 DEF vars
<1> QED
  BY <1>1, <1>2, <1>3, <1>4, <1>5, <1>6, <1>7 DEF Next, MainThread, Terminated

\* What is pending, taken or in flight is a report of a tick.
LEMMA TakeStep ==
  DataOK /\ MutexInv /\ WholeInv /\ TakeInv /\ [Next]_vars => TakeInv'
<1> SUFFICES ASSUME DataOK, MutexInv, WholeInv, TakeInv, [Next]_vars
             PROVE  TakeInv'
  OBVIOUS
<1> USE DEF TakeInv, DataOK, MutexInv, MainCS, WriterCS, Halves
<1>1. CASE TestStopped \/ EpollWait \/ BatchDone \/ HandleTick \/ HandleEp0
  BY <1>1 DEF TestStopped, EpollWait, BatchDone, HandleTick, HandleEp0
<1>2. CASE Submit
  BY <1>2 DEF Submit, SubmitLock, SubmitCopy, SubmitSet, SubmitSignal,
              SubmitUnlock, MainLock, MainUnlock, CondSignal, WholeInv
<1>3. CASE Shutdown
  BY <1>3 DEF Shutdown, UnbindUdc, AbortTransfer, StopLock, StopSet, StopSignal,
              StopUnlock, Join, CloseFds, MainLock, MainUnlock, CondSignal
<1>4. CASE WriterThread \/ SpuriousWakeup
  <2>1. CASE TakeFirst
    BY <2>1 DEF TakeFirst
  <2>2. CASE TakeSecond
    <3>1. mpc # "copy2" /\ mpc # "copy1" /\ mpc # "set"
      BY <2>2 DEF TakeSecond
    <3>2. local'[1] # 0
      BY <2>2, <3>1 DEF TakeSecond, WholeInv
    <3> QED
      BY <2>2, <3>1, <3>2 DEF TakeSecond
  <2>3. CASE WriteQueued \/ WriteRefused \/ WriteReturns
    BY <2>3 DEF WriteQueued, WriteRefused, WriteReturns
  <2>4. CASE \/ WriterAcquire \/ CheckStop \/ CheckPending \/ CheckEmpty
             \/ CondWait \/ SpuriousWakeup
             \/ WriterUnlock("unlock", "write")
             \/ WriterUnlock("unlock_stop", "done")
    BY <2>4 DEF WriterAcquire, WriterLock, CheckStop, CheckPending,
                CheckEmpty, CondWait, SpuriousWakeup, WriterUnlock
  <2> QED
    BY <1>4, <2>1, <2>2, <2>3, <2>4 DEF WriterThread
<1>5. CASE TimerExpires \/ OnSignal
  BY <1>5 DEF TimerExpires, OnSignal
<1>6. CASE Host
  BY <1>6 DEF Host, HostConfigures, HostDisables, HostPolls, HostSetup,
              AbortTransfer
<1>7. CASE UNCHANGED vars
  BY <1>7 DEF vars
<1> QED
  BY <1>1, <1>2, <1>3, <1>4, <1>5, <1>6, <1>7 DEF Next, MainThread, Terminated

(***************************************************************************)
(* IInv is an invariant: the induction the properties below share.         *)
(***************************************************************************)
THEOREM Invariance == SafeSpec => []IInv
<1>1. Init => IInv
  <2>1. Init => WholeInv /\ TakeInv /\ SleepInv /\ StopInv
    BY DEF Init, WholeInv, NoTornReport, TakeInv,
           SleepInv, NoLostWakeup, StopInv, NoReport, Halves
  <2> QED
    BY InitTypes, <2>1 DEF IInv
<1>2. IInv /\ [Next]_vars => IInv'
  BY DataStep, FlagsStep, MutexStep, SleepStep, StopStep, WholeStep, TakeStep
  DEF IInv, TypeOK
<1> QED
  BY <1>1, <1>2, PTL DEF SafeSpec

(***************************************************************************)
(* The host never reads a torn report: the memcpys of ep_writer_submit     *)
(* (515) and ep_writer_loop (492) exclude each other.                      *)
(***************************************************************************)
THEOREM NeverTorn == SafeSpec => []NoTornReport
<1>1. IInv => NoTornReport
  BY DEF IInv, WholeInv
<1> QED
  BY <1>1, Invariance, PTL

(***************************************************************************)
(* The writer never sleeps through a report or the stop flag (489-491).    *)
(***************************************************************************)
THEOREM NeverSleepsThroughWork == SafeSpec => []NoLostWakeup
<1>1. IInv => NoLostWakeup
  BY DEF IInv, SleepInv
<1> QED
  BY <1>1, Invariance, PTL

(***************************************************************************)
(* ep_in is closed only after the writer thread has ended (724-728, 738).  *)
(***************************************************************************)
THEOREM FdOutlivesWriter == SafeSpec => []NoWriteToClosedFd
<1>1. IInv => NoWriteToClosedFd
  BY DEF IInv, StopInv, NoWriteToClosedFd
<1> QED
  BY <1>1, Invariance, PTL
-----------------------------------------------------------------------------
(***************************************************************************)
(* The report path implements the latest-value channel.  Put is the end of *)
(* the memcpy when a report was still pending and the setting of           *)
(* has_pending when none was; Take is the clearing of has_pending; Deliver *)
(* is the host's poll; Drop is a transfer aborted by the kernel or refused *)
(* with EAGAIN.  Every other step is a stutter.                            *)
(***************************************************************************)
LEMMA StepRefinement ==
  IInv /\ [Next]_vars => [Channel!Next]_(Channel!vars)
<1> SUFFICES ASSUME IInv, [Next]_vars PROVE Channel!Next \/ UNCHANGED Channel!vars
  OBVIOUS
<1> USE DEF IInv, TypeOK, DataOK, Channel!vars
<1>1. CASE TestStopped \/ EpollWait \/ BatchDone \/ HandleTick \/ HandleEp0
  <2> UNCHANGED Channel!vars
    BY <1>1 DEF TestStopped, EpollWait, BatchDone, HandleTick, HandleEp0
  <2> QED
    OBVIOUS
<1>2. CASE SubmitCopy(2, "copy2", "set")
  <2>1. CASE hasPending
    <3> Channel!Put
      BY <1>2, <2>1 DEF SubmitCopy, Halves, Channel!Put
    <3> QED
      BY DEF Channel!Next
  <2>2. CASE ~hasPending
    BY <1>2, <2>2 DEF SubmitCopy
  <2> QED
    BY <2>1, <2>2
<1>3. CASE SubmitSet
  <2>1. report[2] = ticks
    BY <1>3 DEF SubmitSet, WholeInv
  <2>2. CASE hasPending
    BY <1>3, <2>2 DEF SubmitSet
  <2>3. CASE ~hasPending
    <3> Channel!Put
      BY <1>3, <2>1, <2>3 DEF SubmitSet, Channel!Put
    <3> QED
      BY DEF Channel!Next
  <2> QED
    BY <2>2, <2>3
<1>4. CASE SubmitCopy(1, "copy1", "copy2")
  BY <1>4 DEF SubmitCopy, Halves
<1>5. CASE SubmitLock \/ SubmitSignal \/ SubmitUnlock
  BY <1>5 DEF SubmitLock, SubmitSignal, SubmitUnlock, MainLock, MainUnlock,
              CondSignal
<1>6. CASE UnbindUdc
  <2>1. CASE urb = "queued"
    <3> Channel!Drop
      BY <1>6, <2>1 DEF UnbindUdc, AbortTransfer, TakeInv, Channel!Drop
    <3> QED
      BY DEF Channel!Next
  <2>2. CASE urb # "queued"
    BY <1>6, <2>2 DEF UnbindUdc, AbortTransfer
  <2> QED
    BY <2>1, <2>2
<1>7. CASE StopLock \/ StopSet \/ StopSignal \/ StopUnlock \/ Join \/ CloseFds
  BY <1>7 DEF StopLock, StopSet, StopSignal, StopUnlock, Join, CloseFds,
              MainLock, MainUnlock, CondSignal
<1>8. CASE TakeSecond
  <2> Channel!Take
    BY <1>8 DEF TakeSecond, TakeInv, WholeInv, MutexInv, MainCS, WriterCS,
                Halves, Channel!Take
  <2> QED
    BY DEF Channel!Next
<1>9. CASE TakeFirst
  BY <1>9 DEF TakeFirst, TakeInv
<1>10. CASE WriteRefused
  <2> Channel!Drop
    BY <1>10 DEF WriteRefused, TakeInv, Channel!Drop
  <2> QED
    BY DEF Channel!Next
<1>11. CASE WriteQueued \/ WriteReturns
  BY <1>11 DEF WriteQueued, WriteReturns, TakeInv
<1>12. CASE \/ WriterAcquire \/ CheckStop \/ CheckPending \/ CheckEmpty
            \/ CondWait \/ SpuriousWakeup
            \/ WriterUnlock("unlock", "write")
            \/ WriterUnlock("unlock_stop", "done")
  BY <1>12 DEF WriterAcquire, WriterLock, CheckStop, CheckPending, CheckEmpty,
               CondWait, SpuriousWakeup, WriterUnlock
<1>13. CASE TimerExpires \/ OnSignal
  BY <1>13 DEF TimerExpires, OnSignal
<1>14. CASE HostPolls
  <2> Channel!Deliver
    BY <1>14 DEF HostPolls, TakeInv, Channel!Deliver
  <2> QED
    BY DEF Channel!Next
<1>15. CASE HostDisables
  <2>1. CASE urb = "queued"
    <3> Channel!Drop
      BY <1>15, <2>1 DEF HostDisables, AbortTransfer, TakeInv, Channel!Drop
    <3> QED
      BY DEF Channel!Next
  <2>2. CASE urb # "queued"
    BY <1>15, <2>2 DEF HostDisables, AbortTransfer
  <2> QED
    BY <2>1, <2>2
<1>16. CASE HostConfigures \/ HostSetup
  BY <1>16 DEF HostConfigures, HostSetup
<1>17. CASE UNCHANGED vars
  BY <1>17 DEF vars
<1> QED
  BY <1>1, <1>2, <1>3, <1>4, <1>5, <1>6, <1>7, <1>8, <1>9, <1>10, <1>11,
     <1>12, <1>13, <1>14, <1>15, <1>16, <1>17
  DEF Next, MainThread, Submit, Shutdown, WriterThread, Host, Terminated

(***************************************************************************)
(* What the host reads: never the same report twice, never an older one    *)
(* after a newer one, never one that was overwritten before it was taken.  *)
(***************************************************************************)
THEOREM Refinement == SafeSpec => Implements
<1>1. Init => Channel!Init
  BY DEF Init, Channel!Init, NoReport, Halves
<1> QED
  BY <1>1, StepRefinement, Invariance, PTL DEF SafeSpec, Implements, Channel!Spec
=============================================================================
