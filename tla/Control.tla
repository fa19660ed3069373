------------------------------ MODULE Control ------------------------------
(***************************************************************************)
(* Control transfers: ep0 of dualsense-ffsd (handle_setup and its helpers  *)
(* in kbm-mapper-ff/files/main.c, feature_reports.c, ffs_descriptors.h).   *)
(*                                                                         *)
(* The main thread reads a SETUP event, picks one transfer to make on ep0, *)
(* and blocks in it until the host has taken or sent the data.  FunctionFS *)
(* remembers whether the setup it handed out is still to be answered; the  *)
(* host may meanwhile have given up and begun another transfer.  A         *)
(* transfer in the direction the host did not ask for stalls ep0.          *)
(***************************************************************************)
EXTENDS Naturals, FiniteSets

CONSTANTS
  Requests,     \* bound: what the host asks, [dir, type, req, value, id, len]
  MaxTransfers  \* bound: control transfers the host begins

VARIABLES
  ask,      \* the transfer the host is in: at most one, [n, what]
  asked,    \* transfers begun so far; the number of the newest
  outcome,  \* how the last one ended: at most one, [n, by, what, end, len]
  setup,    \* ffs->ev.setup, with its number
  queued,   \* a SETUP event waits to be read
  state,    \* ffs->setup_state
  at,       \* where the main thread is
  held,     \* the setup it handles
  moving,   \* bytes of the transfer it has queued
  over      \* stopped

host        == <<ask, asked, outcome>>
ffs         == <<setup, queued, state>>
daemon0     == <<at, held, moving>>
controlVars == <<host, ffs, daemon0, over>>

None0 == [n |-> 0]

ASSUME TransfersAssumption == MaxTransfers \in Nat
ASSUME RequestsAssumption ==
  \A r \in Requests : r.dir \in {"in", "out"} /\ r.len \in Nat

ControlInit ==
  /\ ask = {} /\ asked = 0 /\ outcome = {}
  /\ setup = None0 /\ queued = FALSE /\ state = "none"
  /\ at = "wait" /\ held = None0 /\ moving = 0
  /\ over = FALSE
-----------------------------------------------------------------------------
(* handle_setup.                                                           *)

ReportDescriptorSize == 273
HidDescriptorSize    == 9
ReportSize           == 64

\* feature_reports[].
Stub == [i05 |-> 41, i08 |-> 48, i09 |-> 20, i0a |-> 27, i20 |-> 64, i21 |-> 5,
         i22 |-> 64, i80 |-> 64, i81 |-> 64, i82 |-> 10, i83 |-> 64, i84 |-> 64,
         i85 |-> 3, ia0 |-> 2, ie0 |-> 64, if0 |-> 64, if1 |-> 64, if2 |-> 64,
         if4 |-> 64, if5 |-> 4]

Send(n)    == [dir |-> "in", len |-> n]
Receive(n) == [dir |-> "out", len |-> n]

Standard(r, req) == r.type = "standard" /\ r.req = req
Class(r, req)    == r.type = "class" /\ r.req = req

\* Variant of Transfer: the bytes of a report do not count its id.
TransferShort(r) ==
  CASE r.dir = "in" /\ Class(r, "GET_REPORT") /\ r.value = "feature"
         /\ r.id \in DOMAIN Stub -> Send(Stub[r.id] - 1)
    [] OTHER -> [dir |-> r.dir, len |-> 0]

\* The one transfer that answers a request.  What is not known gets an empty
\* one in the direction of the request.
Transfer(r) ==
  CASE r.dir = "in" /\ Standard(r, "GET_DESCRIPTOR") /\ r.value = "report" ->
         Send(ReportDescriptorSize)
    [] r.dir = "in" /\ Standard(r, "GET_DESCRIPTOR") /\ r.value = "hid" ->
         Send(HidDescriptorSize)
    [] r.dir = "in" /\ Class(r, "GET_REPORT") /\ r.value = "feature"
         /\ r.id \in DOMAIN Stub -> Send(Stub[r.id])
    [] r.dir = "in" /\ Class(r, "GET_REPORT") /\ r.value # "feature" ->
         Send(ReportSize)
    [] r.dir = "out" /\ Class(r, "SET_REPORT") -> Receive(256)
    [] Class(r, "SET_IDLE") \/ Class(r, "SET_PROTOCOL") -> Receive(0)
    [] r.dir = "in" /\ (Class(r, "GET_IDLE") \/ Class(r, "GET_PROTOCOL")) ->
         Send(1)
    [] OTHER -> [dir |-> r.dir, len |-> 0]

Least(m, n) == IF m < n THEN m ELSE n

Ends(end, by, len) ==
  /\ outcome' = {[n |-> a.n, by |-> by, what |-> a.what, end |-> end,
                  len |-> len] : a \in ask}
  /\ ask' = {}
  /\ UNCHANGED asked
-----------------------------------------------------------------------------
(* The main thread.                                                        *)

ReadSetup ==
  /\ at = "wait" /\ ~over /\ state = "none" /\ queued
  /\ queued' = FALSE /\ state' = "pending"
  /\ at' = "handle" /\ held' = setup
  /\ UNCHANGED <<host, setup, moving, over>>

\* The call on ep0 comes too late.
AnswerCancelled ==
  /\ at = "handle" /\ state = "cancelled"
  /\ state' = "none" /\ at' = "wait"
  /\ UNCHANGED <<host, setup, queued, held, moving, over>>

\* The wrong direction: FunctionFS stalls ep0.
AnswerStalls ==
  /\ at = "handle" /\ state = "pending"
  /\ Transfer(held.what).dir # held.what.dir
  /\ Ends("stall", held.n, 0)
  /\ state' = "none" /\ at' = "wait"
  /\ UNCHANGED <<setup, queued, held, moving, over>>

\* Variant of AnswerQueued: SET_IDLE returns without a call on ep0.
AnswerForgotten ==
  /\ at = "handle" /\ state = "pending"
  /\ Transfer(held.what).dir = held.what.dir
  /\ moving' = Least(Transfer(held.what).len, held.what.len)
  /\ at' = IF held.what.req = "SET_IDLE" THEN "wait" ELSE "queued"
  /\ UNCHANGED <<host, ffs, held, over>>

\* read or write on ep0, at most wLength bytes: the thread sleeps in it.
AnswerQueued ==
  /\ at = "handle" /\ state = "pending"
  /\ Transfer(held.what).dir = held.what.dir
  /\ moving' = Least(Transfer(held.what).len, held.what.len)
  /\ at' = "queued"
  /\ UNCHANGED <<host, ffs, held, over>>

\* The transfer was aborted under the sleeping thread.
AnswerAborted ==
  /\ at = "aborted"
  /\ at' = "wait" /\ state' = "none"
  /\ UNCHANGED <<host, setup, queued, held, moving, over>>

LoopEnds ==
  /\ at = "wait" /\ over
  /\ at' = "exit"
  /\ UNCHANGED <<host, ffs, held, moving, over>>

MainLoop ==
  \/ ReadSetup
  \/ AnswerCancelled
  \/ AnswerStalls
  \/ AnswerQueued
  \/ AnswerAborted
  \/ LoopEnds

\* The signal wakes a thread that sleeps on ep0; one that is about to sleep
\* there goes to sleep.
ControlOnSignal ==
  /\ ~over
  /\ over' = TRUE
  /\ at' = IF at = "queued" THEN "wait" ELSE at
  /\ UNCHANGED <<host, ffs, held, moving>>
-----------------------------------------------------------------------------
(* The host and the controller.                                            *)

\* What FunctionFS does to a setup that is not answered when another event
\* comes, and the controller to the transfer queued for it.
Abort ==
  /\ state' = IF state = "pending" THEN "cancelled" ELSE state
  /\ at' = IF at = "queued" THEN "aborted" ELSE at

HostAsks ==
  /\ ask = {} /\ asked < MaxTransfers /\ at # "exit"
  /\ asked' = asked + 1
  /\ \E r \in Requests : ask' = {[n |-> asked', what |-> r]}
  /\ setup' \in ask' /\ queued' = TRUE
  /\ Abort
  /\ UNCHANGED <<outcome, held, moving, over>>

\* The host moves the data of its transfer, and the status stage ends it.
HostCompletes ==
  /\ ask # {} /\ at = "queued"
  /\ Ends("done", held.n, moving)
  /\ at' = "wait" /\ state' = "none"
  /\ UNCHANGED <<setup, queued, held, moving, over>>

\* A timeout at the host: nobody tells the device.
HostGivesUp ==
  /\ ask # {}
  /\ Ends("lost", 0, 0)
  /\ UNCHANGED <<ffs, daemon0, over>>

\* Bus reset: what was queued is discarded.
HostResets ==
  /\ asked > 0
  /\ Ends("lost", 0, 0)
  /\ queued' = FALSE
  /\ Abort
  /\ UNCHANGED <<setup, held, moving, over>>

\* A host that left the device in the middle of a transfer resets it.
HostRecovers == ask = {} /\ at = "queued" /\ HostResets

ControlHost == HostAsks \/ HostCompletes \/ HostGivesUp \/ HostResets

ControlEnded == at = "exit" /\ UNCHANGED controlVars

ControlNext == MainLoop \/ ControlOnSignal \/ ControlHost \/ ControlEnded

\* The daemon runs; the host moves the data it asked for, and resets a device
\* that it left in the middle of a transfer.
ControlFairness ==
  /\ WF_controlVars(MainLoop)
  /\ WF_controlVars(HostCompletes) /\ WF_controlVars(HostRecovers)

ControlSpec == ControlInit /\ [][ControlNext]_controlVars /\ ControlFairness
-----------------------------------------------------------------------------
(* Properties.                                                             *)

ControlTypeOK ==
  /\ at \in {"wait", "handle", "queued", "aborted", "exit"}
  /\ state \in {"none", "pending", "cancelled"}
  /\ Cardinality(ask) <= 1 /\ Cardinality(outcome) <= 1
  /\ \A a \in ask : a.n = asked
  /\ at \in {"handle", "queued"} => state # "none"

\* The bytes of the feature reports, the id included, as the items of the
\* report descriptor declare them.  0xF2 is left out: it declares 16 bytes,
\* and the stub has 64, although feature_reports.h says that the sizes match.
Declared == [i05 |-> 41, i08 |-> 48, i09 |-> 20, i0a |-> 27, i20 |-> 64,
             i21 |-> 5, i22 |-> 64, i80 |-> 64, i81 |-> 64, i82 |-> 10,
             i83 |-> 64, i84 |-> 64, i85 |-> 3, ia0 |-> 2, ie0 |-> 64,
             if0 |-> 64, if1 |-> 64, if4 |-> 64, if5 |-> 4]

\* What a HID driver counts on.  No report of the descriptor is longer than
\* the 256 bytes handle_setup reads of one.
Expected(r) ==
  CASE r.dir = "in" /\ Standard(r, "GET_DESCRIPTOR") /\ r.value = "report" -> {273}
    [] r.dir = "in" /\ Standard(r, "GET_DESCRIPTOR") /\ r.value = "hid" -> {9}
    [] r.dir = "in" /\ Class(r, "GET_REPORT") /\ r.value = "feature"
         /\ r.id \in DOMAIN Declared -> {Declared[r.id]}
    [] r.dir = "in" /\ Class(r, "GET_REPORT") /\ r.value = "input" -> {64}
    [] r.dir = "out" /\ Class(r, "SET_REPORT") /\ r.len <= 256 -> {r.len}
    [] r.dir = "out" /\ Class(r, "SET_IDLE") -> {0}
    [] OTHER -> {}

\* A control transfer that ends well carries the answer to the request it
\* began with, not to one the host gave up before, and as many bytes as the
\* descriptors announce or the host asked for, whichever is less.
HostGetsWhatItAsked ==
  \A o \in outcome : o.end # "lost" =>
    /\ o.by = o.n
    /\ \A n \in Expected(o.what) : o.end = "done" /\ o.len = Least(n, o.what.len)

\* No request of such a host is left hanging, and no signal is lost for good
\* behind one.
RequestsEnd ==
  /\ []<>(ask = {} \/ over)
  /\ <>[](over => at = "exit")
=============================================================================
