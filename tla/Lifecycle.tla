----------------------------- MODULE Lifecycle -----------------------------
(***************************************************************************)
(* main.c: the main thread (main, _loop), the beat thread it creates, joins *)
(* and creates again, the two flags they share with the signal handler, and *)
(* the resources both threads use: the two rings, the OSC stream and the    *)
(* FTDI device.                                                             *)
(*                                                                         *)
(* done and reconnect are atomic_bools; every load and store of them is a  *)
(* step.  A signal is delivered to either thread, which does nothing else  *)
(* until the handler returns.  What is received, scheduled and transmitted *)
(* is left to other modules: here a frame either goes out or fails.        *)
(***************************************************************************)
EXTENDS Naturals

CONSTANTS
  AutoReconnect,  \* option -A
  MaxSignals      \* bound: signals delivered in a behaviour

ASSUME AutoReconnectAssumption == AutoReconnect \in BOOLEAN
ASSUME MaxSignalsAssumption == MaxSignals \in Nat

VARIABLES
  done, reconnect,    \* the flags
  pc,                 \* where the main thread is
  beat,               \* where the beat thread is, "none" when there is none
  handler,            \* where _sig is on each thread, "none" when it is not running
  rx, tx,             \* app->rb: a pointer that is null, live, or stale (freed)
  stream,             \* its descriptors: zero (static storage), -1, or open
  ftdi,               \* the libftdi context
  signals,            \* signals delivered so far
  \* history
  early,              \* the current beat thread ended before main stored done
  wrong               \* releases of what was not held

flags == <<done, reconnect>>
rings == <<rx, tx>>
resources == <<rx, tx, stream, ftdi, wrong>>
vars == <<done, reconnect, pc, beat, handler, rx, tx, stream, ftdi, signals, early, wrong>>

Threads == {"main", "beat"}
Polling == pc \in {"check", "poll"}
Created == pc \in {"arm", "check", "poll", "join"}

MainPlaces ==
  {"new rx", "new tx", "open stream", "osc failed",
   "ftdi init", "ftdi open", "ftdi setup", "failure_close", "failure_deinit",
   "ftdi failed", "create", "create failed", "arm", "check", "poll",
   "join", "sched_deinit", "ftdi_deinit", "osc_deinit",
   "returned", "sleep", "exited"}
BeatPlaces ==
  IF Created THEN {"check", "sleep", "drain", "xmit", "failed", "ended"} ELSE {"none"}

TypeOK ==
  /\ done \in BOOLEAN /\ reconnect \in BOOLEAN
  /\ pc \in MainPlaces
  /\ beat \in BeatPlaces
  /\ handler \in [Threads -> {"none", "reconnect", "done"}]
  /\ rx \in {"null", "live", "stale"} /\ tx \in {"null", "live", "stale"}
  /\ stream \in {"zero", "closed", "open"}
  /\ ftdi \in {"none", "context", "open"}
  /\ signals \in 0..MaxSignals
  /\ early \in BOOLEAN
  /\ wrong \subseteq {"rx", "tx", "stream"}

(* main has parsed its options and installed the handlers. *)
Init ==
  /\ done = FALSE /\ reconnect = AutoReconnect
  /\ pc = "new rx" /\ beat = "none"
  /\ handler = [t \in Threads |-> "none"]
  /\ rx = "null" /\ tx = "null" /\ stream = "zero" /\ ftdi = "none"
  /\ signals = 0 /\ early = FALSE /\ wrong = {}
-----------------------------------------------------------------------------
(* The signal handler *)

Running(t) == IF t = "main" THEN pc # "exited" ELSE beat \notin {"none", "ended"}

Signal(t) ==
  /\ signals < MaxSignals
  /\ Running(t) /\ handler[t] = "none"
  /\ handler' = [handler EXCEPT ![t] = "reconnect"]
  /\ signals' = signals + 1
  /\ UNCHANGED <<flags, pc, beat, resources, early>>

SigStoreReconnect(t) ==
  /\ handler[t] = "reconnect"
  /\ reconnect' = FALSE
  /\ handler' = [handler EXCEPT ![t] = "done"]
  /\ UNCHANGED <<done, pc, beat, resources, signals, early>>

SigStoreDone(t) ==
  /\ handler[t] = "done"
  /\ done' = TRUE
  /\ handler' = [handler EXCEPT ![t] = "none"]
  /\ UNCHANGED <<reconnect, pc, beat, resources, signals, early>>

Sig(t) == SigStoreReconnect(t) \/ SigStoreDone(t)
-----------------------------------------------------------------------------
(* The main thread *)

MainAt(here) == pc = here /\ handler["main"] = "none"
Goto(there) == pc' = there

(* varchunk_free tests the pointer against NULL; nothing sets it back to   *)
(* NULL once freed.  lv2_osc_stream_deinit closes descriptors >= 0.        *)
Freed(ring) == IF ring = "null" THEN "null" ELSE "stale"

OscRelease ==
  /\ stream' = "closed"
  /\ rx' = Freed(rx) /\ tx' = Freed(tx)
  /\ wrong' = wrong \cup (IF rx = "stale" THEN {"rx"} ELSE {})
                    \cup (IF tx = "stale" THEN {"tx"} ELSE {})
                    \cup (IF stream = "zero" THEN {"stream"} ELSE {})

NewRx ==
  /\ MainAt("new rx")
  /\ \/ rx' = "live" /\ Goto("new tx")
     \/ rx' = "null" /\ Goto("osc failed")
  /\ UNCHANGED <<flags, beat, handler, tx, stream, ftdi, signals, early, wrong>>

NewTx ==
  /\ MainAt("new tx")
  /\ \/ tx' = "live" /\ Goto("open stream")
     \/ tx' = "null" /\ Goto("osc failed")
  /\ UNCHANGED <<flags, beat, handler, rx, stream, ftdi, signals, early, wrong>>

OpenStream ==
  /\ MainAt("open stream")
  /\ \/ stream' = "open" /\ Goto("ftdi init")
     \/ stream' = "closed" /\ Goto("osc failed")
  /\ UNCHANGED <<flags, beat, handler, rings, ftdi, signals, early, wrong>>

(* Faulty: a failed start is final. *)
OscFailedExits ==
  /\ MainAt("osc failed")
  /\ OscRelease
  /\ Goto("exited")
  /\ UNCHANGED <<flags, beat, handler, ftdi, signals, early>>

OscFailed ==
  /\ MainAt("osc failed")
  /\ OscRelease
  /\ Goto("returned")
  /\ UNCHANGED <<flags, beat, handler, ftdi, signals, early>>

FtdiStep(here, result, there) ==
  /\ MainAt(here)
  /\ ftdi' = result
  /\ Goto(there)
  /\ UNCHANGED <<flags, beat, handler, rings, stream, signals, early, wrong>>

FtdiInit ==
  \/ FtdiStep("ftdi init", "context", "ftdi open")
  \/ FtdiStep("ftdi init", "none", "ftdi failed")

FtdiOpen ==
  \/ FtdiStep("ftdi open", "open", "ftdi setup")
  \/ FtdiStep("ftdi open", "context", "failure_deinit")

FtdiSetup ==
  \/ FtdiStep("ftdi setup", "open", "create")
  \/ FtdiStep("ftdi setup", "open", "failure_close")

FtdiFailureClose == FtdiStep("failure_close", "context", "failure_deinit")
FtdiFailureDeinit == FtdiStep("failure_deinit", "none", "ftdi failed")

(* Faulty: _loop returns at once. *)
FtdiFailedReturns ==
  /\ MainAt("ftdi failed")
  /\ Goto("returned")
  /\ UNCHANGED <<flags, beat, handler, resources, signals, early>>

(* Faulty: the resources are released here and again in _osc_init's path. *)
FtdiFailedTwice ==
  /\ MainAt("ftdi failed")
  /\ OscRelease
  /\ Goto("osc failed")
  /\ UNCHANGED <<flags, beat, handler, ftdi, signals, early>>

(* _loop after _ftdi_init returned -1 *)
FtdiFailed ==
  /\ MainAt("ftdi failed")
  /\ OscRelease
  /\ Goto("returned")
  /\ UNCHANGED <<flags, beat, handler, ftdi, signals, early>>

ThreadInit ==
  /\ MainAt("create")
  /\ \/ beat' = "check" /\ Goto("arm")
     \/ beat' = "none" /\ Goto("create failed")
  /\ early' = FALSE
  /\ UNCHANGED <<flags, handler, resources, signals>>

(* _loop after _thread_init returned -1 *)
CreateFailed ==
  /\ MainAt("create failed")
  /\ ftdi' = "none"
  /\ OscRelease
  /\ Goto("returned")
  /\ UNCHANGED <<flags, beat, handler, signals, early>>

(* atomic_store(&done, false), after the thread was created *)
Arm ==
  /\ MainAt("arm")
  /\ done' = FALSE
  /\ Goto("check")
  /\ UNCHANGED <<reconnect, beat, handler, resources, signals, early>>

Check ==
  /\ MainAt("check")
  /\ Goto(IF done THEN "join" ELSE "poll")
  /\ UNCHANGED <<flags, beat, handler, resources, signals, early>>

(* lv2_osc_stream_pollin returns after a second at the latest. *)
Poll ==
  /\ MainAt("poll")
  /\ Goto("check")
  /\ UNCHANGED <<flags, beat, handler, resources, signals, early>>

(* Faulty: main goes on without waiting for the beat thread. *)
JoinWithoutWaiting ==
  /\ MainAt("join")
  /\ Goto("sched_deinit")
  /\ UNCHANGED <<flags, beat, handler, resources, signals, early>>

Join ==
  /\ MainAt("join")
  /\ beat = "ended"
  /\ beat' = "none"
  /\ Goto("sched_deinit")
  /\ UNCHANGED <<flags, handler, resources, signals, early>>

SchedDeinit ==
  /\ MainAt("sched_deinit")
  /\ Goto("ftdi_deinit")
  /\ UNCHANGED <<flags, beat, handler, resources, signals, early>>

FtdiDeinit == FtdiStep("ftdi_deinit", "none", "osc_deinit")

OscDeinit ==
  /\ MainAt("osc_deinit")
  /\ OscRelease
  /\ Goto("returned")
  /\ UNCHANGED <<flags, beat, handler, ftdi, signals, early>>

(* main: while(atomic_load(&reconnect)) *)
Returned ==
  /\ MainAt("returned")
  /\ Goto(IF reconnect THEN "sleep" ELSE "exited")
  /\ UNCHANGED <<flags, beat, handler, resources, signals, early>>

Sleep ==
  /\ MainAt("sleep")
  /\ Goto("new rx")
  /\ UNCHANGED <<flags, beat, handler, resources, signals, early>>

MainNext ==
  \/ NewRx \/ NewTx \/ OpenStream \/ OscFailed
  \/ FtdiInit \/ FtdiOpen \/ FtdiSetup \/ FtdiFailureClose \/ FtdiFailureDeinit \/ FtdiFailed
  \/ ThreadInit \/ CreateFailed \/ Arm \/ Check \/ Poll
  \/ Join \/ SchedDeinit \/ FtdiDeinit \/ OscDeinit \/ Returned \/ Sleep
-----------------------------------------------------------------------------
(* The beat thread *)

BeatStep(here, there) ==
  /\ beat = here /\ handler["beat"] = "none"
  /\ beat' = there
  /\ UNCHANGED <<reconnect, pc, handler, resources, signals>>

(* Faulty: the beat thread never looks at done. *)
BeatNeverChecks ==
  /\ BeatStep("check", "sleep")
  /\ UNCHANGED <<done, early>>

BeatCheck ==
  /\ BeatStep("check", IF done THEN "ended" ELSE "sleep")
  /\ early' = (done /\ pc = "arm")
  /\ UNCHANGED done

BeatWake == BeatStep("sleep", "drain") /\ UNCHANGED <<done, early>>
BeatDrain == BeatStep("drain", "xmit") /\ UNCHANGED <<done, early>>

BeatXmit ==
  /\ \/ BeatStep("xmit", "check")
     \/ BeatStep("xmit", "failed")
  /\ UNCHANGED <<done, early>>

(* Faulty: the beat thread ends without a word. *)
BeatFailSilently ==
  /\ BeatStep("failed", "ended")
  /\ UNCHANGED <<done, early>>

BeatFail ==
  /\ BeatStep("failed", "check")
  /\ done' = TRUE
  /\ UNCHANGED early

BeatNext == BeatCheck \/ BeatWake \/ BeatDrain \/ BeatXmit \/ BeatFail
-----------------------------------------------------------------------------
Next ==
  \/ MainNext
  \/ BeatNext
  \/ \E t \in Threads : Signal(t) \/ Sig(t)

Spec == Init /\ [][Next]_vars

(* Both threads run, and a handler that was entered runs to its end.       *)
(* No fairness for the outcome of any call, nor for signals.               *)
FairSpec ==
  /\ Spec
  /\ WF_vars(MainNext)
  /\ WF_vars(BeatNext)
  /\ \A t \in Threads : WF_vars(Sig(t))
-----------------------------------------------------------------------------
(* Properties *)

(* Neither thread ever uses a ring, the stream or the device before it is  *)
(* there or after it was released, however a stop, a failure and a new     *)
(* start overlap.                                                          *)
UsesWhatIsThere ==
  /\ beat = "drain" => rx = "live"
  /\ beat = "xmit" => ftdi = "open"
  /\ beat \notin {"none", "ended"} => rx = "live" /\ tx = "live" /\ ftdi = "open"
  /\ Polling => rx = "live" /\ tx = "live" /\ stream = "open"

(* _loop gives back all it took on every path, so that -A can call it any  *)
(* number of times.                                                        *)
ReleasesAll ==
  pc \in {"returned", "sleep", "exited"} =>
    rx # "live" /\ tx # "live" /\ stream # "open" /\ ftdi = "none" /\ beat = "none"

(* What is released without being held: the stale tx, when a later _loop   *)
(* fails to allocate rx, and descriptor 0, when the first _loop fails to   *)
(* allocate a ring before it ever opened the stream.  Never anything else. *)
ReleasesOnce ==
  [][/\ "rx" \notin wrong'
     /\ "tx" \in wrong' \ wrong => rx = "null" /\ pc = "osc failed"
     /\ "stream" \in wrong' \ wrong => pc = "osc failed" /\ (rx = "null" \/ tx = "null")
    ]_vars

(* With -A only a signal ends the program: neither a failed transmission   *)
(* nor any number of failures to start again does.                         *)
KeepsTrying == pc = "exited" /\ AutoReconnect => signals > 0

(* Main polls without a beat thread, and without having been told to stop, *)
(* only when that thread ended before main stored false into done.         *)
BeatIsThere == Polling /\ ~done /\ beat \in {"none", "ended"} => early

(* A signal handled while main polls stops the program, whatever the beat  *)
(* thread is doing then.                                                   *)
Stops == (Polling /\ done /\ ~reconnect) ~> (pc = "exited")

(* The man page: -A "Enable auto-reconnect upon FTDI xmit failure".  As    *)
(* long as nobody stops the program, there is always another frame or      *)
(* another start to come.                                                  *)
GoesOn == []<>(beat = "xmit" \/ pc \in {"new rx", "exited"})
=============================================================================
