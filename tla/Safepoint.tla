------------------------------ MODULE Safepoint ------------------------------
(***************************************************************************)
(* The stop-the-world handshake of wind_jvm: the life of a java thread     *)
(* (start0, first wait, safepoint polls, death), the collector thread that *)
(* waits for every thread to be stopped before it moves the heap, and the  *)
(* launcher (the process's initial thread) that waits for everybody and    *)
(* then releases all memory.                                               *)
(*                                                                         *)
(* A step is a section of code between two points where another thread can *)
(* interfere: a lock acquired and released without blocking in between is  *)
(* one step, a lock held across a blocking point is a variable.            *)
(***************************************************************************)
EXTENDS Naturals, FiniteSets, SequencesExt

CONSTANTS Threads,      \* the java threads (struct vm_thread) that may exist
          Main,         \* the thread that runs main(), launched first
          Monitors,     \* the objects whose monitor the program enters
          NoThread,     \* neither a thread nor a monitor: "nobody"
          GcThreshold,  \* size of the ThreadTable that triggers the collection
          MaxOps        \* bound: operations (calls, starts, monitor entries)
                        \* one thread performs

ASSUME ConstantsAssumption ==
  /\ IsFiniteSet(Threads)
  /\ Main \in Threads
  /\ NoThread \notin Threads \union Monitors
  /\ GcThreshold \in Nat \ {0}
  /\ MaxOps \in Nat

VARIABLES
  (* the collection request and the collector thread *)
  gc,          \* GC::gc()
  inited,      \* the static `inited' of BytecodeEngine::execute
  gcPc,        \* where the collector thread is
  scanned,     \* table entries detect_ready has counted in this round
  (* the ThreadTable and the java threads *)
  table,       \* threads registered in the ThreadTable
  state,       \* vm_thread::state
  bit,         \* temp::the_first_wait_executed
  pc,          \* where each thread is
  uncaught,    \* an exception has reached the thread's bottom frame
  child,       \* the thread a start0 in progress is starting
  ops,         \* operations performed (bounded by MaxOps)
  (* monitors *)
  monitorNum,  \* vm_thread::monitor_num
  mons,        \* the monitors (recursive mutexes) a thread owns, one entry for
               \* each time it has entered
  want,        \* the monitor a thread is trying to enter
  (* _all_thread_wait_mutex and _all_thread_wait_cond *)
  waitMutex,   \* owner, or NoThread
  waiters,     \* threads blocked in pthread_cond_wait
  (* the launcher *)
  threadNum,   \* wind_jvm::thread_num()
  lpc          \* where the launcher is

gcVars     == <<gc, inited, gcPc, scanned>>
threadVars == <<table, state, bit, pc, uncaught, child, ops>>
monVars    == <<monitorNum, mons, want>>
condVars   == <<waitMutex, waiters>>
endVars    == <<threadNum, lpc>>
vars       == <<gcVars, threadVars, monVars, condVars, endVars>>

(***************************************************************************)
(* Where a java thread can be.                                             *)
(*   none, alloc        not started; vm_thread object pushed, no pthread   *)
(*   reg, first,        scapegoat(): before add_a_thread, before the first *)
(*   firstPark,         wait, holding the mutex, in the condition variable *)
(*   firstCond                                                             *)
(*   boot, entry        start(); top of BytecodeEngine::execute            *)
(*   poll, signal       set_safepoint_here, signal_one_thread              *)
(*   stop, check, park, wait_cur_thread: before the mutex, reading gc,     *)
(*   cond, leave        about to wait, waiting, about to resume            *)
(*   run, mon           interpreting bytecode, blocked on a monitor        *)
(*   launch, await      JVM_StartThread: before pthread_create, polling    *)
(*   count, die, dead   the end of vm_thread::start                        *)
(*   xcount, xdie       the end of a thread with an uncaught exception     *)
(***************************************************************************)
FirstPcs == {"reg", "first", "firstPark", "firstCond"}
StopPcs  == {"check", "park", "cond", "leave"}
PollPcs  == {"boot", "entry", "poll", "signal", "stop"}
WorkPcs  == {"run", "mon", "launch", "await"}
EndPcs   == {"count", "xcount", "die", "xdie", "dead"}
Pcs      == {"none", "alloc"} \union FirstPcs \union StopPcs \union PollPcs
              \union WorkPcs \union EndPcs

GcPcs == {"idle", "wait", "detect", "scan", "collect", "resume", "cancelled"}
LPcs  == {"join", "patch", "spin", "cancel", "joinGc", "end"}

(* detect_ready keeps gc_lock and the table's lock while it counts, and    *)
(* cancel_gc_thread keeps gc_lock while it joins the collector.  Everybody *)
(* else releases them in the step that acquires them.                      *)
GcLockFree    == gcPc # "scan" /\ lpc # "joinGc"
TableLockFree == gcPc # "scan"

Goto(t, l) == pc' = [pc EXCEPT ![t] = l]

-----------------------------------------------------------------------------
(* scapegoat(), run by a new pthread: enter the ThreadTable.  The table is *)
(* keyed by pthread_t, which may be that of a thread that is gone (the main*)
(* thread's only after the launcher has joined it): its entry is replaced. *)
Register(t) ==
  /\ pc[t] = "reg"
  /\ TableLockFree
  /\ \/ table' = table \union {t}
     \/ \E d \in table :
          /\ pc[d] = "dead"
          /\ d = Main => lpc # "join"
          /\ table' = (table \ {d}) \union {t}
  /\ Goto(t, IF t = Main THEN "boot" ELSE "first")
  /\ UNCHANGED <<gcVars, state, bit, uncaught, child, ops, monVars, condVars,
                 endVars>>

(* wait_cur_thread_and_set_bit: the wait every started thread begins with. *)
FirstWaitLock_NoBit(t) ==
  /\ pc[t] = "first"
  /\ waitMutex = NoThread
  /\ waitMutex' = t
  /\ state' = [state EXCEPT ![t] = "Waiting"]
  /\ Goto(t, "firstPark")
  /\ UNCHANGED <<gcVars, table, bit, uncaught, child, ops, monVars, waiters,
                 endVars>>

FirstWaitLock(t) ==
  /\ pc[t] = "first"
  /\ waitMutex = NoThread
  /\ waitMutex' = t
  /\ bit' = [bit EXCEPT ![t] = TRUE]
  /\ state' = [state EXCEPT ![t] = "Waiting"]
  /\ Goto(t, "firstPark")
  /\ UNCHANGED <<gcVars, table, uncaught, child, ops, monVars, waiters,
                 endVars>>

FirstPark(t) ==
  /\ pc[t] = "firstPark"
  /\ waitMutex' = NoThread
  /\ waiters' = waiters \union {t}
  /\ Goto(t, "firstCond")
  /\ UNCHANGED <<gcVars, table, state, bit, uncaught, child, ops, monVars,
                 endVars>>

(* Signalled: take the mutex back and run, whatever gc says.               *)
FirstWake(t) ==
  /\ pc[t] = "firstCond"
  /\ t \notin waiters
  /\ waitMutex = NoThread
  /\ state' = [state EXCEPT ![t] = "Running"]
  /\ Goto(t, "boot")
  /\ UNCHANGED <<gcVars, table, bit, uncaught, child, ops, monVars, condVars,
                 endVars>>

(* vm_thread::start: push the first frame (a root of the collection) and   *)
(* enter the interpreter.                                                  *)
Boot(t) ==
  /\ pc[t] = "boot"
  /\ Goto(t, "entry")
  /\ UNCHANGED <<gcVars, table, state, bit, uncaught, child, ops, monVars,
                 condVars, endVars>>

-----------------------------------------------------------------------------
(* GC::init_gc.  The signal reaches the collector only if it waits.        *)
InitGc ==
  IF gc
  THEN UNCHANGED gcVars
  ELSE /\ gc' = TRUE
       /\ inited' = TRUE
       /\ gcPc' = IF gcPc = "wait" THEN "detect" ELSE gcPc
       /\ UNCHANGED scanned

(* The top of BytecodeEngine::execute: once the table is large enough the  *)
(* first thread to come by requests the collection; a thread that owns no  *)
(* monitor then polls the safepoint.                                       *)
Entry_PollsAlways(t) ==
  /\ pc[t] = "entry"
  /\ IF ~inited /\ Cardinality(table) >= GcThreshold
     THEN GcLockFree /\ InitGc
     ELSE UNCHANGED gcVars
  /\ Goto(t, "poll")
  /\ UNCHANGED <<table, state, bit, uncaught, child, ops, monVars, condVars,
                 endVars>>

Entry(t) ==
  /\ pc[t] = "entry"
  /\ IF ~inited /\ Cardinality(table) >= GcThreshold
     THEN GcLockFree /\ InitGc
     ELSE UNCHANGED gcVars
  /\ Goto(t, IF monitorNum[t] = 0 THEN "poll" ELSE "run")
  /\ UNCHANGED <<table, state, bit, uncaught, child, ops, monVars, condVars,
                 endVars>>

(* GC::set_safepoint_here. *)
Poll(t) ==
  /\ pc[t] = "poll"
  /\ GcLockFree
  /\ Goto(t, IF gc THEN "stop" ELSE "signal")
  /\ UNCHANGED <<gcVars, table, state, bit, uncaught, child, ops, monVars,
                 condVars, endVars>>

(* signal_one_thread: no effect when nobody waits. *)
SignalOne(t) ==
  /\ pc[t] = "signal"
  /\ \/ waiters = {} /\ UNCHANGED waiters
     \/ \E w \in waiters : waiters' = waiters \ {w}
  /\ Goto(t, "run")
  /\ UNCHANGED <<gcVars, table, state, bit, uncaught, child, ops, monVars,
                 waitMutex, endVars>>

(* wait_cur_thread *)
StopLock(t) ==
  /\ pc[t] = "stop"
  /\ waitMutex = NoThread
  /\ waitMutex' = t
  /\ state' = [state EXCEPT ![t] = "Waiting"]
  /\ Goto(t, "check")
  /\ UNCHANGED <<gcVars, table, bit, uncaught, child, ops, monVars, waiters,
                 endVars>>

Check(t) ==
  /\ pc[t] = "check"
  /\ GcLockFree
  /\ Goto(t, IF gc THEN "park" ELSE "leave")
  /\ UNCHANGED <<gcVars, table, state, bit, uncaught, child, ops, monVars,
                 condVars, endVars>>

Park(t) ==
  /\ pc[t] = "park"
  /\ waitMutex' = NoThread
  /\ waiters' = waiters \union {t}
  /\ Goto(t, "cond")
  /\ UNCHANGED <<gcVars, table, state, bit, uncaught, child, ops, monVars,
                 endVars>>

Wake_NoRecheck(t) ==
  /\ pc[t] = "cond"
  /\ t \notin waiters
  /\ waitMutex = NoThread
  /\ waitMutex' = t
  /\ Goto(t, "leave")
  /\ UNCHANGED <<gcVars, table, state, bit, uncaught, child, ops, monVars,
                 waiters, endVars>>

Wake(t) ==
  /\ pc[t] = "cond"
  /\ t \notin waiters
  /\ waitMutex = NoThread
  /\ waitMutex' = t
  /\ Goto(t, "check")
  /\ UNCHANGED <<gcVars, table, state, bit, uncaught, child, ops, monVars,
                 waiters, endVars>>

Leave(t) ==
  /\ pc[t] = "leave"
  /\ state' = [state EXCEPT ![t] = "Running"]
  /\ waitMutex' = NoThread
  /\ Goto(t, "run")
  /\ UNCHANGED <<gcVars, table, bit, uncaught, child, ops, monVars, waiters,
                 endVars>>

-----------------------------------------------------------------------------
(* The program.  What it does is arbitrary; each operation is one of at    *)
(* most MaxOps.                                                            *)
Operation(t) ==
  /\ pc[t] = "run"
  /\ ops[t] < MaxOps
  /\ ops' = [ops EXCEPT ![t] = @ + 1]

(* A method is called: add_frame_and_execute. *)
Invoke(t) ==
  /\ Operation(t)
  /\ Goto(t, "entry")
  /\ UNCHANGED <<gcVars, table, state, bit, uncaught, child, monVars,
                 condVars, endVars>>

(* monitorenter, or a synchronized method: count first, then block. *)
MonitorInc_Uncounted(t, m) ==
  /\ Operation(t)
  /\ want' = [want EXCEPT ![t] = m]
  /\ Goto(t, "mon")
  /\ UNCHANGED <<gcVars, table, state, bit, uncaught, child, monitorNum,
                 mons, condVars, endVars>>

MonitorInc(t, m) ==
  /\ Operation(t)
  /\ monitorNum' = [monitorNum EXCEPT ![t] = @ + 1]
  /\ want' = [want EXCEPT ![t] = m]
  /\ Goto(t, "mon")
  /\ UNCHANGED <<gcVars, table, state, bit, uncaught, child, mons, condVars,
                 endVars>>

Owns(t, m) == \E i \in 1..Len(mons[t]) : mons[t][i] = m

MonitorEnter(t) ==
  /\ pc[t] = "mon"
  /\ \A u \in Threads \ {t} : ~Owns(u, want[t])
  /\ mons' = [mons EXCEPT ![t] = Append(@, want[t])]
  /\ want' = [want EXCEPT ![t] = NoThread]
  /\ Goto(t, "run")
  /\ UNCHANGED <<gcVars, table, state, bit, uncaught, child, ops, monitorNum,
                 condVars, endVars>>

(* monitorexit, or the end of a synchronized method. *)
MonitorExit(t) ==
  /\ pc[t] = "run"
  /\ monitorNum' = [monitorNum EXCEPT ![t] = @ - 1]
  /\ \E i \in 1..Len(mons[t]) : mons' = [mons EXCEPT ![t] = RemoveAt(@, i)]
  /\ UNCHANGED <<gcVars, threadVars, want, condVars, endVars>>

(* Object.wait gives the mutex up once and takes it again when it is       *)
(* notified or, at the latest, when the time is up: wait(0) is a           *)
(* pthread_cond_timedwait too.  monitor_num and the state do not change.   *)
ObjectWait(t) ==
  /\ Operation(t)
  /\ \E i \in 1..Len(mons[t]) :
       /\ mons' = [mons EXCEPT ![t] = RemoveAt(@, i)]
       /\ want' = [want EXCEPT ![t] = mons[t][i]]
  /\ Goto(t, "mon")
  /\ UNCHANGED <<gcVars, table, state, bit, uncaught, child, monitorNum,
                 condVars, endVars>>

(* JVM_StartThread: create the vm_thread and count it ... *)
Start0_Uncounted(t, c) ==
  /\ Operation(t)
  /\ pc[c] = "none"
  /\ pc' = [pc EXCEPT ![t] = "launch", ![c] = "alloc"]
  /\ child' = [child EXCEPT ![t] = c]
  /\ UNCHANGED <<gcVars, table, state, bit, uncaught, monVars, condVars,
                 endVars>>

Start0(t, c) ==
  /\ Operation(t)
  /\ pc[c] = "none"
  /\ pc' = [pc EXCEPT ![t] = "launch", ![c] = "alloc"]
  /\ child' = [child EXCEPT ![t] = c]
  /\ threadNum' = threadNum + 1
  /\ UNCHANGED <<gcVars, table, state, bit, uncaught, monVars, condVars,
                 lpc>>

(* ... create its pthread ... *)
Launch(t) ==
  /\ pc[t] = "launch"
  /\ pc' = [pc EXCEPT ![t] = "await", ![child[t]] = "reg"]
  /\ UNCHANGED <<gcVars, table, state, bit, uncaught, child, ops, monVars,
                 condVars, endVars>>

(* ... and poll until it has gone into its first wait. *)
AwaitFirstWait_NoWait(t) ==
  /\ pc[t] = "await"
  /\ child' = [child EXCEPT ![t] = NoThread]
  /\ Goto(t, "run")
  /\ UNCHANGED <<gcVars, table, state, bit, uncaught, ops, monVars, condVars,
                 endVars>>

AwaitFirstWait(t) ==
  /\ pc[t] = "await"
  /\ waitMutex = NoThread
  /\ bit[child[t]]
  /\ child' = [child EXCEPT ![t] = NoThread]
  /\ Goto(t, "run")
  /\ UNCHANGED <<gcVars, table, state, bit, uncaught, ops, monVars, condVars,
                 endVars>>

(* A started thread's bottom frame has no handler for an exception: athrow *)
(* calls dispatchUncaughtException and, when that is over, ends the thread.*)
(* (An exception that leaves main() ends the process: main_thread_exception*)
(* is not part of this module.)                                            *)
Uncaught(t) ==
  /\ pc[t] = "run"
  /\ t # Main
  /\ ~uncaught[t]
  /\ mons[t] = <<>>
  /\ uncaught' = [uncaught EXCEPT ![t] = TRUE]
  /\ Goto(t, "entry")
  /\ UNCHANGED <<gcVars, table, state, bit, child, ops, monVars, condVars,
                 endVars>>

(* run(), main() or dispatchUncaughtException returns.  Bytecode leaves    *)
(* every monitor it entered.                                               *)
Finish(t) ==
  /\ pc[t] = "run"
  /\ mons[t] = <<>>
  /\ Goto(t, IF t = Main THEN "die"
             ELSE IF uncaught[t] THEN "xcount" ELSE "count")
  /\ UNCHANGED <<gcVars, table, state, bit, uncaught, child, ops, monVars,
                 condVars, endVars>>

CountDown(t) ==
  /\ pc[t] \in {"count", "xcount"}
  /\ threadNum' = threadNum - 1
  /\ Goto(t, IF pc[t] = "count" THEN "die" ELSE "xdie")
  /\ UNCHANGED <<gcVars, table, state, bit, uncaught, child, ops, monVars,
                 condVars, lpc>>

(* vm_thread::start sets Death under the wait mutex, athrow without it.    *)
Die_KeepsState(t) ==
  /\ \/ pc[t] = "die" /\ waitMutex = NoThread
     \/ pc[t] = "xdie"
  /\ Goto(t, "dead")
  /\ UNCHANGED <<gcVars, table, state, bit, uncaught, child, ops, monVars,
                 condVars, endVars>>

Die(t) ==
  /\ \/ pc[t] = "die" /\ waitMutex = NoThread
     \/ pc[t] = "xdie"
  /\ state' = [state EXCEPT ![t] = "Death"]
  /\ Goto(t, "dead")
  /\ UNCHANGED <<gcVars, table, bit, uncaught, child, ops, monVars, condVars,
                 endVars>>

Mutator(t) ==
  \/ Register(t) \/ FirstWaitLock(t) \/ FirstPark(t) \/ FirstWake(t) \/ Boot(t)
  \/ Entry(t) \/ Poll(t) \/ SignalOne(t)
  \/ StopLock(t) \/ Check(t) \/ Park(t) \/ Wake(t) \/ Leave(t)
  \/ Invoke(t) \/ (\E m \in Monitors : MonitorInc(t, m))
  \/ MonitorEnter(t) \/ MonitorExit(t) \/ ObjectWait(t)
  \/ (\E c \in Threads : Start0(t, c)) \/ Launch(t) \/ AwaitFirstWait(t)
  \/ Finish(t) \/ Uncaught(t) \/ CountDown(t) \/ Die(t)

-----------------------------------------------------------------------------
(* GC::gc_thread *)
GcWait ==
  /\ gcPc = "idle"
  /\ gcPc' = "wait"
  /\ UNCHANGED <<gc, inited, scanned, threadVars, monVars, condVars,
                 endVars>>

(* One round of detect_ready: with gc_lock and the table's lock held, read *)
(* the state of one thread after the other, up to the first that runs.     *)
GcDetect ==
  /\ gcPc = "detect"
  /\ GcLockFree
  /\ gcPc' = "scan"
  /\ scanned' = {}
  /\ UNCHANGED <<gc, inited, threadVars, monVars, condVars, endVars>>

GcScan(t) ==
  /\ gcPc = "scan"
  /\ t \in table \ scanned
  /\ IF state[t] \in {"Waiting", "Death"}
     THEN scanned' = scanned \union {t} /\ UNCHANGED gcPc
     ELSE scanned' = {} /\ gcPc' = "detect"
  /\ UNCHANGED <<gc, inited, threadVars, monVars, condVars, endVars>>

GcScanDone ==
  /\ gcPc = "scan"
  /\ scanned = table
  /\ scanned' = {}
  /\ gcPc' = "collect"
  /\ UNCHANGED <<gc, inited, threadVars, monVars, condVars, endVars>>

(* GC::system_gc: everything before the request is withdrawn happens while *)
(* gcPc = "collect"; then all waiters are woken, without the wait mutex.   *)
GcFinish ==
  /\ gcPc = "collect"
  /\ gc' = FALSE
  /\ gcPc' = "resume"
  /\ UNCHANGED <<inited, scanned, threadVars, monVars, condVars, endVars>>

GcResume ==
  /\ gcPc = "resume"
  /\ waiters' = {}
  /\ gcPc' = "idle"
  /\ UNCHANGED <<gc, inited, scanned, threadVars, monVars, waitMutex,
                 endVars>>

Collector == \/ GcWait \/ GcDetect \/ (\E t \in Threads : GcScan(t))
             \/ GcScanDone \/ GcFinish \/ GcResume

-----------------------------------------------------------------------------
(* vm_thread::launch of the main thread, from pthread_join on. *)
JoinMain ==
  /\ lpc = "join"
  /\ pc[Main] = "dead"
  /\ lpc' = "patch"
  /\ UNCHANGED <<gcVars, threadVars, monVars, condVars, threadNum>>

SignalAllPatch ==
  /\ lpc = "patch"
  /\ GcLockFree
  /\ ~gc
  /\ waiters' = {}
  /\ lpc' = "spin"
  /\ UNCHANGED <<gcVars, threadVars, monVars, waitMutex, threadNum>>

SpinThreadNum ==
  /\ lpc = "spin"
  /\ threadNum = 0
  /\ lpc' = "cancel"
  /\ UNCHANGED <<gcVars, threadVars, monVars, condVars, threadNum>>

CancelGc ==
  /\ lpc = "cancel"
  /\ GcLockFree
  /\ ~gc
  /\ lpc' = "joinGc"
  /\ UNCHANGED <<gcVars, threadVars, monVars, condVars, threadNum>>

(* The collector dies at its next cancellation point; wind_jvm::end frees  *)
(* every object, klass and method.                                         *)
JoinGcAndEnd ==
  /\ lpc = "joinGc"
  /\ gcPc \in {"idle", "wait"}
  /\ gcPc' = "cancelled"
  /\ lpc' = "end"
  /\ UNCHANGED <<gc, inited, scanned, threadVars, monVars, condVars,
                 threadNum>>

Launcher == \/ JoinMain \/ SignalAllPatch \/ SpinThreadNum \/ CancelGc
            \/ JoinGcAndEnd

-----------------------------------------------------------------------------
(* wind_jvm::run has created the collector, which may or may not have got  *)
(* to its wait, and the pthread of the main thread.                        *)
Init ==
  /\ gc = FALSE
  /\ inited = FALSE
  /\ gcPc \in {"idle", "wait"}
  /\ scanned = {}
  /\ table = {}
  /\ state = [t \in Threads |-> "Running"]
  /\ bit = [t \in Threads |-> FALSE]
  /\ pc = [t \in Threads |-> IF t = Main THEN "reg" ELSE "none"]
  /\ uncaught = [t \in Threads |-> FALSE]
  /\ child = [t \in Threads |-> NoThread]
  /\ ops = [t \in Threads |-> 0]
  /\ monitorNum = [t \in Threads |-> 0]
  /\ mons = [t \in Threads |-> <<>>]
  /\ want = [t \in Threads |-> NoThread]
  /\ waitMutex = NoThread
  /\ waiters = {}
  /\ threadNum = 0
  /\ lpc = "join"

Next == (\E t \in Threads : Mutator(t)) \/ Collector \/ Launcher

Spec == Init /\ [][Next]_vars

(* Every thread keeps being scheduled, and a mutex that is free again and  *)
(* again is eventually granted: strong fairness for whoever takes a lock.  *)
(* A thread in "run" has to do one of its operations in the end: the       *)
(* program does not loop forever without calling a method.                 *)
Fairness ==
  /\ \A t \in Threads : SF_vars(Mutator(t))
  /\ SF_vars(Collector)
  /\ SF_vars(Launcher)

FairSpec == Spec /\ Fairness

-----------------------------------------------------------------------------
(* Every variable stays in its range; no counter goes below zero. *)
TypeOK ==
  /\ gc \in BOOLEAN
  /\ inited \in BOOLEAN
  /\ gcPc \in GcPcs
  /\ scanned \in SUBSET Threads
  /\ table \in SUBSET Threads
  /\ state \in [Threads -> {"Running", "Waiting", "Death"}]
  /\ bit \in [Threads -> BOOLEAN]
  /\ pc \in [Threads -> Pcs]
  /\ uncaught \in [Threads -> BOOLEAN]
  /\ child \in [Threads -> Threads \union {NoThread}]
  /\ ops \in [Threads -> 0..MaxOps]
  /\ monitorNum \in [Threads -> Nat]
  /\ mons \in [Threads -> Seq(Monitors)]
  /\ want \in [Threads -> Monitors \union {NoThread}]
  /\ waitMutex \in Threads \union {NoThread}
  /\ waiters \in SUBSET Threads
  /\ threadNum \in Nat
  /\ lpc \in LPcs

(* A thread the collector may ignore: it has no java frame (not started,   *)
(* dead) or has been stopped by wait_cur_thread.                           *)
Stopped(t) == pc[t] \in {"none", "dead", "check", "park", "cond"}

(* A started thread on its way from its first wait to the safepoint poll   *)
(* of its first method: it has executed no bytecode.                       *)
Fresh(t) ==
  /\ t # Main
  /\ ops[t] = 0
  /\ ~uncaught[t]
  /\ pc[t] \in {"firstCond", "boot", "entry", "poll", "stop"}

(* While system_gc moves the heap no thread executes bytecode, resumes or  *)
(* starts another thread, although detect_ready reads the states without   *)
(* the mutex that protects them and releases every lock before system_gc.  *)
WorldStopped ==
  gcPc = "collect" => \A t \in Threads : Stopped(t) \/ Fresh(t)

(* While system_gc moves the heap nobody owns or wants a monitor: the      *)
(* collector copies an object without its Monitor (oop.hpp, Oop's copy     *)
(* constructor), so a monitor held across a collection would be lost.      *)
NoMonitorAcrossCollection ==
  gcPc = "collect" =>
    \A t \in Threads :
      monitorNum[t] = 0 /\ mons[t] = <<>> /\ want[t] = NoThread

(* While system_gc moves the heap every thread that was created and has    *)
(* not ended is in the ThreadTable detect_ready counts, and no start0 is   *)
(* half done.                                                              *)
StartedThreadsRegistered ==
  gcPc = "collect" =>
    /\ \A t \in Threads : pc[t] \notin {"none", "dead"} => t \in table
    /\ \A t \in Threads : child[t] = NoThread

(* When wind_jvm::end frees all memory no thread will touch a java object  *)
(* again, and the collector is gone without having been interrupted.       *)
HeapOutlivesThreads ==
  lpc = "end" =>
    /\ ~gc
    /\ \A t \in Threads : pc[t] \in {"none", "die", "xdie", "dead"}

(* A thread that wait_cur_thread stopped goes back to java code only when  *)
(* no collection is requested or under way, although it releases gc_lock   *)
(* between reading gc and setting its state.                               *)
ResumeOnlyAfterGcStep ==
  \A t \in Threads :
    state[t] = "Waiting" /\ state'[t] = "Running" /\ pc[t] # "firstCond" =>
      ~gc /\ gcPc # "collect"

ResumeOnlyAfterGc == [][ResumeOnlyAfterGcStep]_vars

(* Once the collector has been woken it completes a collection: every      *)
(* thread reaches a safepoint or ends, even one that holds a monitor.      *)
CollectionCompletes == gcPc = "detect" ~> ~gc

(* start0 returns: the new thread always reaches its first wait. *)
StarterReturns == \A t \in Threads : pc[t] = "launch" ~> pc[t] = "run"

-----------------------------------------------------------------------------
(* The inductive invariant behind the safety properties: how the variables *)
(* of the different parties hang together.                                 *)

(* vm_thread::state says where the thread is. *)
StateMatchesPc ==
  \A t \in Threads :
    /\ state[t] = "Waiting" <=>
         pc[t] \in {"firstPark", "firstCond", "check", "park", "cond", "leave"}
    /\ state[t] = "Death" <=> pc[t] = "dead"

(* The wait mutex has one owner, and only threads in a condition wait are  *)
(* waiters.                                                                *)
MutexMatchesPc ==
  /\ \A t \in Threads :
       waitMutex = t <=> pc[t] \in {"firstPark", "check", "park", "leave"}
  /\ \A t \in waiters : pc[t] \in {"cond", "firstCond"}

(* monitor_num counts the monitors owned and the one being entered; a      *)
(* thread with monitors is neither stopped nor at its beginning or end.    *)
MonitorsCounted ==
  \A t \in Threads :
    /\ monitorNum[t] = IF pc[t] = "mon" THEN Len(mons[t]) + 1 ELSE Len(mons[t])
    /\ want[t] # NoThread <=> pc[t] = "mon"
    /\ pc[t] \notin WorkPcs \union {"entry"} => mons[t] = <<>>
    /\ ops[t] = 0 => mons[t] = <<>> /\ pc[t] # "mon"

(* The request is withdrawn by the collector alone, is made once, and      *)
(* nobody is stopped before it.                                            *)
RequestMatchesPcs ==
  /\ gcPc \in {"detect", "scan", "collect"} => gc
  /\ gc => inited
  /\ gcPc = "resume" => inited /\ ~gc
  /\ \A t \in Threads :
       /\ pc[t] \in StopPcs \union {"stop"} => inited
       /\ pc[t] = "leave" => ~gc

(* A thread that has not reached its first wait has a parent in start0,    *)
(* which does not return before.                                           *)
StartersWait ==
  /\ \A t \in Threads :
       /\ pc[t] \in {"launch", "await"} <=> child[t] # NoThread
       /\ pc[t] = "launch" => pc[child[t]] = "alloc"
       /\ pc[t] = "await" => pc[child[t]] \notin {"none", "alloc"}
       /\ bit[t] => pc[t] \notin {"none", "alloc", "reg", "first"}
       /\ pc[t] \in {"alloc", "reg", "first", "firstPark"} =>
            t = Main \/ \E u \in Threads : child[u] = t
  /\ \A t, u \in Threads :
       child[t] = child[u] /\ child[t] # NoThread => t = u

(* A thread enters the table before it does anything else, and no thread   *)
(* exists before the main thread has.                                      *)
TableMatchesPc ==
  /\ \A t \in Threads :
       /\ t \in table => pc[t] \notin {"none", "alloc", "reg"}
       /\ pc[t] \notin {"none", "alloc", "reg", "dead"} => t \in table
  /\ pc[Main] \notin {"none", "alloc", "first", "firstPark", "firstCond"}
  /\ pc[Main] = "reg" => ~inited /\ \A t \in Threads \ {Main} : pc[t] = "none"
  /\ \A t \in Threads :
       pc[t] \in FirstPcs \union {"none", "alloc"} => ops[t] = 0 /\ ~uncaught[t]

(* What detect_ready has counted stays where it is while gc is set.        *)
Quiet(t) ==
  \/ pc[t] \in {"dead", "check", "park", "cond"}
  \/ Fresh(t)
  \/ t # Main /\ pc[t] = "firstPark"

CountedStayQuiet ==
  /\ gcPc = "scan" => scanned \subseteq table /\ \A t \in scanned : Quiet(t)
  /\ gcPc = "collect" => \A t \in table : Quiet(t)

(* The started threads that have not counted themselves down.              *)
Counted == {t \in Threads \ {Main} : pc[t] \notin {"none", "die", "xdie", "dead"}}

LauncherMatchesPcs ==
  /\ threadNum = Cardinality(Counted)
  /\ pc[Main] \notin {"count", "xcount", "xdie"}
  /\ lpc # "join" => pc[Main] = "dead"
  /\ lpc \in {"cancel", "joinGc", "end"} => Counted = {}
  /\ lpc \in {"joinGc", "end"} => ~gc

IInv ==
  /\ TypeOK
  /\ StateMatchesPc
  /\ MutexMatchesPc
  /\ MonitorsCounted
  /\ RequestMatchesPcs
  /\ StartersWait
  /\ TableMatchesPc
  /\ CountedStayQuiet
  /\ LauncherMatchesPcs

-----------------------------------------------------------------------------
(* What comments of the code say and the code does not do.                 *)

(* gc.cpp:203, system_gc: "NO NEED TO LOCK, because there's only this      *)
(* thread in the whole world".  A thread signalled before the request and  *)
(* scheduled after the count leaves its first wait during the collection.  *)
OnlyTheCollectorRuns ==
  gcPc = "collect" => \A t \in Threads : Stopped(t) \/ pc[t] = "firstCond"

(* thread.hpp:47, wake_up_all_threads_force (the broadcast): "after gc".   *)
(* A thread about to wait when the collector, which does not take the      *)
(* mutex, withdraws the request and broadcasts is never woken.             *)
StoppedThreadsAreWoken ==
  \A t \in Threads :
    gcPc = "resume" /\ pc[t] \in {"park", "cond"} ~> pc[t] = "run"

(* wind_jvm.cpp:31: a thread in its first wait "will be wake up by         *)
(* `signal_all_thread()`".  One that is started after the launcher's only  *)
(* broadcast depends on a later safepoint poll of another thread.          *)
StartedThreadsAreWoken ==
  \A t \in Threads : pc[t] = "firstCond" ~> pc[t] = "boot"
=============================================================================
