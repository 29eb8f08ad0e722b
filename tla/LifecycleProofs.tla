-------------------------- MODULE LifecycleProofs --------------------------
(***************************************************************************)
(* Theorems about Lifecycle: its safety properties hold with and without   *)
(* -A, and for any number of signals.  IInv says what main holds at which  *)
(* place, what it may find there of an earlier _loop, and what only a      *)
(* signal brings about.                                                    *)
(***************************************************************************)
EXTENDS Lifecycle, TLAPS

(* Nothing is held outside of _loop, all of it between _osc_init and       *)
(* _osc_deinit.                                                            *)
Outside == {"new rx", "returned", "sleep", "exited"}
Inside == {"ftdi init", "ftdi open", "ftdi setup", "failure_close", "failure_deinit",
           "ftdi failed", "create", "create failed", "arm", "check", "poll",
           "join", "sched_deinit", "ftdi_deinit", "osc_deinit"}

OscHeld ==
  /\ pc \in Outside => rx # "live" /\ tx # "live" /\ stream # "open"
  /\ pc = "new tx" => rx = "live" /\ tx # "live" /\ stream # "open"
  /\ pc = "open stream" => rx = "live" /\ tx = "live" /\ stream # "open"
  /\ pc = "osc failed" =>
       /\ rx # "stale" /\ stream # "open"
       /\ tx = "stale" => rx = "null"
       /\ stream = "zero" => rx = "null" \/ tx = "null"
  /\ pc \in Inside => rx = "live" /\ tx = "live" /\ stream = "open"
  /\ "rx" \notin wrong

FtdiHeld ==
  /\ pc \in {"ftdi open", "failure_deinit"} => ftdi = "context"
  /\ pc \in {"ftdi setup", "failure_close", "create", "create failed", "arm", "check",
             "poll", "join", "sched_deinit", "ftdi_deinit"} => ftdi = "open"
  /\ pc \in Outside \cup {"new tx", "open stream", "osc failed", "ftdi init",
                          "ftdi failed", "osc_deinit"} => ftdi = "none"

OnlySignals ==
  /\ \A t \in Threads : handler[t] # "none" => signals > 0
  /\ AutoReconnect /\ (~reconnect \/ pc = "exited") => signals > 0

(* A beat thread that ended before done was reset is remembered as early.  *)
EndedEarly ==
  beat = "ended" /\ (pc = "arm" \/ (Polling /\ ~done)) => early

IInv == TypeOK /\ OscHeld /\ FtdiHeld /\ OnlySignals /\ EndedEarly
-----------------------------------------------------------------------------
(* A run without a signal is within the bound.                             *)
LEMMA NoSignals == 0 \in 0..MaxSignals
  BY MaxSignalsAssumption

USE MaxSignalsAssumption, AutoReconnectAssumption
  DEF IInv, Inside, Outside, Threads, MainPlaces, BeatPlaces, Created,
      Polling, MainAt, Goto, flags, rings, resources

(* IInv holds initially: nothing is held.                                  *)
LEMMA InitIInv == Init => IInv
<1> SUFFICES ASSUME Init PROVE IInv
  OBVIOUS
<1> USE DEF Init
<1>1. TypeOK
  <2>1. done \in BOOLEAN /\ reconnect \in BOOLEAN /\ early \in BOOLEAN
    OBVIOUS
  <2>2. pc \in MainPlaces /\ beat \in BeatPlaces
    OBVIOUS
  <2>3. handler \in [Threads -> {"none", "reconnect", "done"}] /\ signals \in 0..MaxSignals
    <3>1. handler \in [Threads -> {"none", "reconnect", "done"}]
      OBVIOUS
    <3>2. signals = 0
      OBVIOUS
    <3>3. QED
      BY <3>1, <3>2, NoSignals, Zenon
  <2>4. /\ rx \in {"null", "live", "stale"} /\ tx \in {"null", "live", "stale"}
        /\ stream \in {"zero", "closed", "open"} /\ ftdi \in {"none", "context", "open"}
        /\ wrong \subseteq {"rx", "tx", "stream"}
    OBVIOUS
  <2>5. QED
    BY <2>1, <2>2, <2>3, <2>4, Zenon DEF TypeOK
<1>2. OscHeld
  BY DEF OscHeld
<1>3. FtdiHeld
  BY DEF FtdiHeld
<1>4. OnlySignals
  BY DEF OnlySignals
<1>5. EndedEarly
  BY DEF EndedEarly
<1>6. QED
  BY <1>1, <1>2, <1>3, <1>4, <1>5

(* A signal that is delivered is counted.                                  *)
LEMMA SignalIInv == IInv /\ (\E t \in Threads : Signal(t)) => IInv'
<1> SUFFICES ASSUME IInv, NEW t \in Threads, Signal(t) PROVE IInv'
  OBVIOUS
<1> USE DEF Signal, Running
<1>1. TypeOK'
  <2>1. done' \in BOOLEAN /\ reconnect' \in BOOLEAN /\ early' \in BOOLEAN
    BY DEF TypeOK
  <2>2. pc' \in MainPlaces /\ beat' \in BeatPlaces'
    BY DEF TypeOK
  <2>3. handler' \in [Threads -> {"none", "reconnect", "done"}] /\ signals' \in 0..MaxSignals
    <3>1. handler' \in [Threads -> {"none", "reconnect", "done"}]
      BY DEF TypeOK
    <3>2. signals \in 0..MaxSignals /\ signals < MaxSignals /\ signals' = signals + 1
      BY DEF TypeOK
    <3>3. signals' \in 0..MaxSignals
      BY <3>2
    <3>4. QED
      BY <3>1, <3>3
  <2>4. /\ rx' \in {"null", "live", "stale"} /\ tx' \in {"null", "live", "stale"}
        /\ stream' \in {"zero", "closed", "open"} /\ ftdi' \in {"none", "context", "open"}
        /\ wrong' \subseteq {"rx", "tx", "stream"}
    BY DEF TypeOK
  <2>5. QED
    BY <2>1, <2>2, <2>3, <2>4, Zenon DEF TypeOK
<1>2. OscHeld'
  BY DEF TypeOK, OscHeld
<1>3. FtdiHeld'
  BY DEF TypeOK, FtdiHeld
<1>4. OnlySignals'
  <2>1. signals \in 0..MaxSignals /\ signals' = signals + 1
    BY DEF TypeOK
  <2>2. signals' > 0
    BY <2>1
  <2>3. QED
    BY <2>2 DEF OnlySignals
<1>5. EndedEarly'
  BY DEF TypeOK, EndedEarly
<1>6. QED
  BY <1>1, <1>2, <1>3, <1>4, <1>5

(* A handler only runs after a signal, so reconnect is only reset then;    *)
(* done is set.                                                            *)
LEMMA SigIInv == IInv /\ (\E t \in Threads : Sig(t)) => IInv'
<1> SUFFICES ASSUME IInv, NEW t \in Threads, Sig(t) PROVE IInv'
  OBVIOUS
<1> USE DEF Sig, SigStoreReconnect, SigStoreDone
<1>1. TypeOK'
  <2>1. done' \in BOOLEAN /\ reconnect' \in BOOLEAN /\ early' \in BOOLEAN
    BY DEF TypeOK
  <2>2. pc' \in MainPlaces /\ beat' \in BeatPlaces'
    BY DEF TypeOK
  <2>3. handler' \in [Threads -> {"none", "reconnect", "done"}] /\ signals' \in 0..MaxSignals
    BY DEF TypeOK
  <2>4. /\ rx' \in {"null", "live", "stale"} /\ tx' \in {"null", "live", "stale"}
        /\ stream' \in {"zero", "closed", "open"} /\ ftdi' \in {"none", "context", "open"}
        /\ wrong' \subseteq {"rx", "tx", "stream"}
    BY DEF TypeOK
  <2>5. QED
    BY <2>1, <2>2, <2>3, <2>4, Zenon DEF TypeOK
<1>2. OscHeld'
  BY DEF TypeOK, OscHeld
<1>3. FtdiHeld'
  BY DEF TypeOK, FtdiHeld
<1>4. OnlySignals'
  BY DEF TypeOK, OnlySignals
<1>5. EndedEarly'
  BY DEF TypeOK, EndedEarly
<1>6. QED
  BY <1>1, <1>2, <1>3, <1>4, <1>5
-----------------------------------------------------------------------------
(* The main thread *)

(* app->rb.rx is allocated, or null.                                       *)
LEMMA NewRxIInv == IInv /\ NewRx => IInv'
<1> SUFFICES ASSUME IInv, NewRx PROVE IInv'
  OBVIOUS
<1> USE DEF NewRx
<1>1. TypeOK'
  BY DEF TypeOK
<1>2. OscHeld'
  BY DEF TypeOK, OscHeld
<1>3. FtdiHeld'
  BY DEF TypeOK, FtdiHeld
<1>4. OnlySignals'
  BY DEF TypeOK, OnlySignals
<1>5. EndedEarly'
  BY DEF TypeOK, EndedEarly
<1>6. QED
  BY <1>1, <1>2, <1>3, <1>4, <1>5

(* With rx in hand, tx is allocated, or null.                              *)
LEMMA NewTxIInv == IInv /\ NewTx => IInv'
<1> SUFFICES ASSUME IInv, NewTx PROVE IInv'
  OBVIOUS
<1> USE DEF NewTx
<1>1. TypeOK'
  BY DEF TypeOK
<1>2. OscHeld'
  BY DEF TypeOK, OscHeld
<1>3. FtdiHeld'
  BY DEF TypeOK, FtdiHeld
<1>4. OnlySignals'
  BY DEF TypeOK, OnlySignals
<1>5. EndedEarly'
  BY DEF TypeOK, EndedEarly
<1>6. QED
  BY <1>1, <1>2, <1>3, <1>4, <1>5

(* With both rings, the stream is set up, or closed.                       *)
LEMMA OpenStreamIInv == IInv /\ OpenStream => IInv'
<1> SUFFICES ASSUME IInv, OpenStream PROVE IInv'
  OBVIOUS
<1> USE DEF OpenStream
<1>1. TypeOK'
  BY DEF TypeOK
<1>2. OscHeld'
  BY DEF TypeOK, OscHeld
<1>3. FtdiHeld'
  BY DEF TypeOK, FtdiHeld
<1>4. OnlySignals'
  BY DEF TypeOK, OnlySignals
<1>5. EndedEarly'
  BY DEF TypeOK, EndedEarly
<1>6. QED
  BY <1>1, <1>2, <1>3, <1>4, <1>5

(* What _osc_init had is given back.                                       *)
LEMMA OscFailedIInv == IInv /\ OscFailed => IInv'
<1> SUFFICES ASSUME IInv, OscFailed PROVE IInv'
  OBVIOUS
<1> USE DEF OscFailed, OscRelease, Freed
<1>1. TypeOK'
  BY DEF TypeOK
<1>2. OscHeld'
  BY DEF TypeOK, OscHeld
<1>3. FtdiHeld'
  BY DEF TypeOK, FtdiHeld
<1>4. OnlySignals'
  BY DEF TypeOK, OnlySignals
<1>5. EndedEarly'
  BY DEF TypeOK, EndedEarly
<1>6. QED
  BY <1>1, <1>2, <1>3, <1>4, <1>5

(* The libftdi context is there, or nothing is.                            *)
LEMMA FtdiInitIInv == IInv /\ FtdiInit => IInv'
  BY DEF FtdiInit, FtdiStep, TypeOK, OscHeld, FtdiHeld, OnlySignals, EndedEarly

(* The device is open, or there is the context.                            *)
LEMMA FtdiOpenIInv == IInv /\ FtdiOpen => IInv'
  BY DEF FtdiOpen, FtdiStep, TypeOK, OscHeld, FtdiHeld, OnlySignals, EndedEarly

(* The device stays open, even when its setup fails.                       *)
LEMMA FtdiSetupIInv == IInv /\ FtdiSetup => IInv'
  BY DEF FtdiSetup, FtdiStep, TypeOK, OscHeld, FtdiHeld, OnlySignals, EndedEarly

(* Back from the device to the context                                     *)
LEMMA FtdiFailureCloseIInv == IInv /\ FtdiFailureClose => IInv'
  BY DEF FtdiFailureClose, FtdiStep, TypeOK, OscHeld, FtdiHeld, OnlySignals, EndedEarly

(* Back from the context to nothing                                        *)
LEMMA FtdiFailureDeinitIInv == IInv /\ FtdiFailureDeinit => IInv'
<1> SUFFICES ASSUME IInv, FtdiFailureDeinit PROVE IInv'
  OBVIOUS
<1> USE DEF FtdiFailureDeinit, FtdiStep
<1>1. TypeOK'
  BY DEF TypeOK
<1>2. OscHeld'
  BY DEF TypeOK, OscHeld
<1>3. FtdiHeld'
  BY DEF TypeOK, FtdiHeld
<1>4. OnlySignals'
  BY DEF TypeOK, OnlySignals
<1>5. EndedEarly'
  BY DEF TypeOK, EndedEarly
<1>6. QED
  BY <1>1, <1>2, <1>3, <1>4, <1>5

(* _loop returns without the device, and gives the rest back.              *)
LEMMA FtdiFailedIInv == IInv /\ FtdiFailed => IInv'
<1> SUFFICES ASSUME IInv, FtdiFailed PROVE IInv'
  OBVIOUS
<1> USE DEF FtdiFailed, OscRelease, Freed
<1>1. TypeOK'
  BY DEF TypeOK
<1>2. OscHeld'
  BY DEF TypeOK, OscHeld
<1>3. FtdiHeld'
  BY DEF TypeOK, FtdiHeld
<1>4. OnlySignals'
  BY DEF TypeOK, OnlySignals
<1>5. EndedEarly'
  BY DEF TypeOK, EndedEarly
<1>6. QED
  BY <1>1, <1>2, <1>3, <1>4, <1>5

(* A beat thread begins with everything held.                              *)
LEMMA ThreadInitIInv == IInv /\ ThreadInit => IInv'
<1> SUFFICES ASSUME IInv, ThreadInit PROVE IInv'
  OBVIOUS
<1> USE DEF ThreadInit
<1>1. TypeOK'
  BY DEF TypeOK
<1>2. OscHeld'
  BY DEF TypeOK, OscHeld
<1>3. FtdiHeld'
  BY DEF TypeOK, FtdiHeld
<1>4. OnlySignals'
  BY DEF TypeOK, OnlySignals
<1>5. EndedEarly'
  BY DEF TypeOK, EndedEarly
<1>6. QED
  BY <1>1, <1>2, <1>3, <1>4, <1>5

(* _loop returns without a thread, and gives everything back.              *)
LEMMA CreateFailedIInv == IInv /\ CreateFailed => IInv'
<1> SUFFICES ASSUME IInv, CreateFailed PROVE IInv'
  OBVIOUS
<1> USE DEF CreateFailed, OscRelease, Freed
<1>1. TypeOK'
  BY DEF TypeOK
<1>2. OscHeld'
  BY DEF TypeOK, OscHeld
<1>3. FtdiHeld'
  BY DEF TypeOK, FtdiHeld
<1>4. OnlySignals'
  BY DEF TypeOK, OnlySignals
<1>5. EndedEarly'
  BY DEF TypeOK, EndedEarly
<1>6. QED
  BY <1>1, <1>2, <1>3, <1>4, <1>5

(* If the thread has already ended, that was early.                        *)
LEMMA ArmIInv == IInv /\ Arm => IInv'
<1> SUFFICES ASSUME IInv, Arm PROVE IInv'
  OBVIOUS
<1> USE DEF Arm
<1>1. TypeOK'
  BY DEF TypeOK
<1>2. OscHeld'
  BY DEF TypeOK, OscHeld
<1>3. FtdiHeld'
  BY DEF TypeOK, FtdiHeld
<1>4. OnlySignals'
  BY DEF TypeOK, OnlySignals
<1>5. EndedEarly'
  BY DEF TypeOK, EndedEarly
<1>6. QED
  BY <1>1, <1>2, <1>3, <1>4, <1>5

(* Main looks at done, and changes nothing.                                *)
LEMMA CheckIInv == IInv /\ Check => IInv'
  BY DEF Check, TypeOK, OscHeld, FtdiHeld, OnlySignals, EndedEarly

(* Main receives, and holds what it held.                                  *)
LEMMA PollIInv == IInv /\ Poll => IInv'
  BY DEF Poll, TypeOK, OscHeld, FtdiHeld, OnlySignals, EndedEarly

(* The thread is gone; what it used is still there.                        *)
LEMMA JoinIInv == IInv /\ Join => IInv'
  BY DEF Join, TypeOK, OscHeld, FtdiHeld, OnlySignals, EndedEarly

(* The list is freed, which is not modelled here.                          *)
LEMMA SchedDeinitIInv == IInv /\ SchedDeinit => IInv'
  BY DEF SchedDeinit, TypeOK, OscHeld, FtdiHeld, OnlySignals, EndedEarly

(* The device is given back.                                               *)
LEMMA FtdiDeinitIInv == IInv /\ FtdiDeinit => IInv'
  BY DEF FtdiDeinit, FtdiStep, TypeOK, OscHeld, FtdiHeld, OnlySignals, EndedEarly

(* The rings and the stream are given back.                                *)
LEMMA OscDeinitIInv == IInv /\ OscDeinit => IInv'
  BY DEF OscDeinit, OscRelease, Freed, TypeOK, OscHeld, FtdiHeld, OnlySignals, EndedEarly

(* Main leaves only if reconnect is false, which took a signal.            *)
LEMMA ReturnedIInv == IInv /\ Returned => IInv'
  BY DEF Returned, TypeOK, OscHeld, FtdiHeld, OnlySignals, EndedEarly

(* Main begins again, with nothing.                                        *)
LEMMA SleepIInv == IInv /\ Sleep => IInv'
<1> SUFFICES ASSUME IInv, Sleep PROVE IInv'
  OBVIOUS
<1> USE DEF Sleep
<1>1. TypeOK'
  BY DEF TypeOK
<1>2. OscHeld'
  BY DEF TypeOK, OscHeld
<1>3. FtdiHeld'
  BY DEF TypeOK, FtdiHeld
<1>4. OnlySignals'
  BY DEF TypeOK, OnlySignals
<1>5. EndedEarly'
  BY DEF TypeOK, EndedEarly
<1>6. QED
  BY <1>1, <1>2, <1>3, <1>4, <1>5
-----------------------------------------------------------------------------
(* The beat thread *)

(* The thread ends because done is true: while main polls it stays true;   *)
(* before, it is early.                                                    *)
LEMMA BeatCheckIInv == IInv /\ BeatCheck => IInv'
<1> SUFFICES ASSUME IInv, BeatCheck PROVE IInv'
  OBVIOUS
<1> USE DEF BeatCheck, BeatStep
<1>1. TypeOK'
  <2>1. done' \in BOOLEAN /\ reconnect' \in BOOLEAN /\ early' \in BOOLEAN
    BY DEF TypeOK
  <2>2. pc' \in MainPlaces /\ beat' \in BeatPlaces'
    BY DEF TypeOK
  <2>3. handler' \in [Threads -> {"none", "reconnect", "done"}] /\ signals' \in 0..MaxSignals
    BY DEF TypeOK
  <2>4. /\ rx' \in {"null", "live", "stale"} /\ tx' \in {"null", "live", "stale"}
        /\ stream' \in {"zero", "closed", "open"} /\ ftdi' \in {"none", "context", "open"}
        /\ wrong' \subseteq {"rx", "tx", "stream"}
    BY DEF TypeOK
  <2>5. QED
    BY <2>1, <2>2, <2>3, <2>4, Zenon DEF TypeOK
<1>2. OscHeld'
  BY DEF TypeOK, OscHeld
<1>3. FtdiHeld'
  BY DEF TypeOK, FtdiHeld
<1>4. OnlySignals'
  BY DEF TypeOK, OnlySignals
<1>5. EndedEarly'
  BY DEF TypeOK, EndedEarly
<1>6. QED
  BY <1>1, <1>2, <1>3, <1>4, <1>5

(* The thread goes on and changes nothing of main's.                       *)
LEMMA BeatStillIInv == IInv /\ (BeatWake \/ BeatDrain \/ BeatXmit) => IInv'
<1> SUFFICES ASSUME IInv, BeatWake \/ BeatDrain \/ BeatXmit PROVE IInv'
  OBVIOUS
<1> USE DEF BeatWake, BeatDrain, BeatXmit, BeatStep
<1>1. TypeOK'
  <2>1. done' \in BOOLEAN /\ reconnect' \in BOOLEAN /\ early' \in BOOLEAN
    BY DEF TypeOK
  <2>2. pc' \in MainPlaces /\ beat' \in BeatPlaces'
    BY DEF TypeOK
  <2>3. handler' \in [Threads -> {"none", "reconnect", "done"}] /\ signals' \in 0..MaxSignals
    BY DEF TypeOK
  <2>4. /\ rx' \in {"null", "live", "stale"} /\ tx' \in {"null", "live", "stale"}
        /\ stream' \in {"zero", "closed", "open"} /\ ftdi' \in {"none", "context", "open"}
        /\ wrong' \subseteq {"rx", "tx", "stream"}
    BY DEF TypeOK
  <2>5. QED
    BY <2>1, <2>2, <2>3, <2>4, Zenon DEF TypeOK
<1>2. OscHeld'
  BY DEF TypeOK, OscHeld
<1>3. FtdiHeld'
  BY DEF TypeOK, FtdiHeld
<1>4. OnlySignals'
  BY DEF TypeOK, OnlySignals
<1>5. EndedEarly'
  BY DEF TypeOK, EndedEarly
<1>6. QED
  BY <1>1, <1>2, <1>3, <1>4, <1>5

(* A failed frame sets done.                                               *)
LEMMA BeatFailIInv == IInv /\ BeatFail => IInv'
<1> SUFFICES ASSUME IInv, BeatFail PROVE IInv'
  OBVIOUS
<1> USE DEF BeatFail, BeatStep
<1>1. TypeOK'
  <2>1. done' \in BOOLEAN /\ reconnect' \in BOOLEAN /\ early' \in BOOLEAN
    BY DEF TypeOK
  <2>2. pc' \in MainPlaces /\ beat' \in BeatPlaces'
    BY DEF TypeOK
  <2>3. handler' \in [Threads -> {"none", "reconnect", "done"}] /\ signals' \in 0..MaxSignals
    BY DEF TypeOK
  <2>4. /\ rx' \in {"null", "live", "stale"} /\ tx' \in {"null", "live", "stale"}
        /\ stream' \in {"zero", "closed", "open"} /\ ftdi' \in {"none", "context", "open"}
        /\ wrong' \subseteq {"rx", "tx", "stream"}
    BY DEF TypeOK
  <2>5. QED
    BY <2>1, <2>2, <2>3, <2>4, Zenon DEF TypeOK
<1>2. OscHeld'
  BY DEF TypeOK, OscHeld
<1>3. FtdiHeld'
  BY DEF TypeOK, FtdiHeld
<1>4. OnlySignals'
  BY DEF TypeOK, OnlySignals
<1>5. EndedEarly'
  BY DEF TypeOK, EndedEarly
<1>6. QED
  BY <1>1, <1>2, <1>3, <1>4, <1>5
-----------------------------------------------------------------------------
(* Every step, and every stutter, keeps IInv.                              *)
LEMMA NextIInv == IInv /\ [Next]_vars => IInv'
<1> SUFFICES ASSUME IInv, [Next]_vars PROVE IInv'
  OBVIOUS
<1>1. CASE MainNext
  BY <1>1, NewRxIInv, NewTxIInv, OpenStreamIInv, OscFailedIInv, FtdiInitIInv,
     FtdiOpenIInv, FtdiSetupIInv, FtdiFailureCloseIInv,
     FtdiFailureDeinitIInv, FtdiFailedIInv, ThreadInitIInv,
     CreateFailedIInv, ArmIInv, CheckIInv, PollIInv, JoinIInv,
     SchedDeinitIInv, FtdiDeinitIInv, OscDeinitIInv, ReturnedIInv,
     SleepIInv
     DEF MainNext
<1>2. CASE BeatNext
  BY <1>2, BeatCheckIInv, BeatStillIInv, BeatFailIInv DEF BeatNext
<1>3. CASE \E t \in Threads : Signal(t) \/ Sig(t)
  BY <1>3, SignalIInv, SigIInv
<1>4. CASE UNCHANGED vars
  <2>1. UNCHANGED <<done, reconnect, pc, beat, handler, rx, tx, stream, ftdi, signals,
                    early, wrong>>
    BY <1>4 DEF vars
  <2>2. TypeOK'
    <3>1. done' \in BOOLEAN /\ reconnect' \in BOOLEAN /\ early' \in BOOLEAN
      BY <2>1 DEF TypeOK
    <3>2. pc' \in MainPlaces /\ beat' \in BeatPlaces'
      BY <2>1 DEF TypeOK
    <3>3. handler' \in [Threads -> {"none", "reconnect", "done"}] /\ signals' \in 0..MaxSignals
      BY <2>1 DEF TypeOK
    <3>4. /\ rx' \in {"null", "live", "stale"} /\ tx' \in {"null", "live", "stale"}
          /\ stream' \in {"zero", "closed", "open"} /\ ftdi' \in {"none", "context", "open"}
          /\ wrong' \subseteq {"rx", "tx", "stream"}
      BY <2>1 DEF TypeOK
    <3>5. QED
      BY <3>1, <3>2, <3>3, <3>4, Zenon DEF TypeOK
  <2>3. OscHeld'
    BY <2>1 DEF OscHeld
  <2>4. FtdiHeld'
    BY <2>1 DEF FtdiHeld
  <2>5. OnlySignals'
    BY <2>1 DEF OnlySignals
  <2>6. EndedEarly'
    BY <2>1 DEF EndedEarly
  <2>7. QED
    BY <2>2, <2>3, <2>4, <2>5, <2>6
<1>5. QED
  BY <1>1, <1>2, <1>3, <1>4 DEF Next

(* What main holds where, for any number of signals and failures           *)
THEOREM LifecycleInvariant == Spec => []IInv
  BY InitIInv, NextIInv, PTL DEF Spec

(* The flags, places and resources are always what TypeOK says; there is a *)
(* beat thread exactly from its creation to the join.                      *)
THEOREM LifecycleTyped == Spec => []TypeOK
<1>1. IInv => TypeOK
  OBVIOUS
<1>2. QED
  BY <1>1, LifecycleInvariant, PTL

(* Neither thread uses what was released or never there.                   *)
THEOREM OnlyLiveResources == Spec => []UsesWhatIsThere
<1>1. IInv => UsesWhatIsThere
  BY DEF TypeOK, OscHeld, FtdiHeld, UsesWhatIsThere
<1>2. QED
  BY <1>1, LifecycleInvariant, PTL

(* _loop gives everything back, whichever call failed.                     *)
THEOREM NothingIsKept == Spec => []ReleasesAll
<1>1. IInv => ReleasesAll
  BY DEF TypeOK, OscHeld, FtdiHeld, ReleasesAll
<1>2. QED
  BY <1>1, LifecycleInvariant, PTL

(* With -A, only a signal ends the program.                                *)
THEOREM OnlySignalsEnd == Spec => []KeepsTrying
<1>1. IInv => KeepsTrying
  BY DEF OnlySignals, KeepsTrying
<1>2. QED
  BY <1>1, LifecycleInvariant, PTL

(* Main polls without a beat thread only if that one ended before main     *)
(* reset done.                                                             *)
THEOREM OnlyEarlyEndsAreMissed == Spec => []BeatIsThere
<1>1. IInv => BeatIsThere
  BY DEF TypeOK, EndedEarly, BeatIsThere
<1>2. QED
  BY <1>1, LifecycleInvariant, PTL

(* What is released without being held is the stale tx or descriptor 0,    *)
(* each in the one case that ReleasesOnce names.  Only the three failure   *)
(* paths and _osc_deinit release anything.                                 *)
THEOREM NothingIsReleasedTwice == Spec => ReleasesOnce
<1> DEFINE Named ==
  /\ "rx" \notin wrong'
  /\ "tx" \in wrong' \ wrong => rx = "null" /\ pc = "osc failed"
  /\ "stream" \in wrong' \ wrong => pc = "osc failed" /\ (rx = "null" \/ tx = "null")
<1>1. IInv /\ [Next]_vars => [Named]_vars
  <2> SUFFICES ASSUME IInv, Next PROVE Named
    OBVIOUS
  <2>1. wrong' = wrong => Named
    BY DEF OscHeld
  <2>2. CASE OscFailed
    BY <2>2 DEF OscFailed, OscRelease, TypeOK, OscHeld
  <2>3. CASE FtdiFailed
    BY <2>3 DEF FtdiFailed, OscRelease, TypeOK, OscHeld
  <2>4. CASE CreateFailed
    BY <2>4 DEF CreateFailed, OscRelease, TypeOK, OscHeld
  <2>5. CASE OscDeinit
    BY <2>5 DEF OscDeinit, OscRelease, TypeOK, OscHeld
  <2>6. CASE NewRx \/ NewTx \/ OpenStream
    BY <2>1, <2>6 DEF NewRx, NewTx, OpenStream
  <2>7. CASE FtdiInit \/ FtdiOpen \/ FtdiSetup \/ FtdiFailureClose \/ FtdiFailureDeinit
             \/ FtdiDeinit
    BY <2>1, <2>7 DEF FtdiInit, FtdiOpen, FtdiSetup, FtdiFailureClose, FtdiFailureDeinit,
       FtdiDeinit, FtdiStep
  <2>8. CASE ThreadInit \/ Arm \/ Check \/ Poll \/ Join \/ SchedDeinit \/ Returned \/ Sleep
    BY <2>1, <2>8 DEF ThreadInit, Arm, Check, Poll, Join, SchedDeinit, Returned, Sleep
  <2>9. CASE BeatNext
    BY <2>1, <2>9 DEF BeatNext, BeatCheck, BeatWake, BeatDrain, BeatXmit, BeatFail, BeatStep
  <2>10. CASE \E t \in Threads : Signal(t) \/ Sig(t)
    BY <2>1, <2>10 DEF Signal, Sig, SigStoreReconnect, SigStoreDone
  <2>11. QED
    BY <2>2, <2>3, <2>4, <2>5, <2>6, <2>7, <2>8, <2>9, <2>10 DEF Next, MainNext
<1>2. QED
  BY <1>1, LifecycleInvariant, PTL DEF Spec, ReleasesOnce
============================================================================
