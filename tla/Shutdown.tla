------------------------------ MODULE Shutdown ------------------------------
(***************************************************************************)
(* The exit path: System.exit (Shutdown.halt0) and an exception that       *)
(* leaves main() end the process while other threads are anywhere in the   *)
(* protocol of Safepoint, which this module extends.  The thread that      *)
(* exits cancels all the others, then the collector, frees the heap and    *)
(* calls exit; the launcher may be on its own way to the end.  A signal    *)
(* (SIGINT_handler) is not part of this module.                            *)
(***************************************************************************)
EXTENDS Safepoint

VARIABLES process,   \* "up", "exited" or "crashed"
          threads,   \* wind_jvm::threads(), in the order of their creation
          cancelled, \* threads with a request of pthread_cancel
          epc,       \* where a thread is in main_thread_exception
          at,        \* the position of its loop in threads
          seen       \* the state it has read there

exitVars == <<process, threads, cancelled, epc, at, seen>>
allVars == <<vars, exitVars>>

(* wind_jvm::lock is held in the loop and, in one step, by start0.         *)
LockFree == \A t \in Threads : epc[t] \notin {"look", "cancel"}

Created == {c \in Threads : pc[c] = "none" /\ pc'[c] = "alloc"}

(* What a thread does in Safepoint.  The waits are cancellation points.    *)
Works(t) ==
  /\ process = "up" /\ epc[t] = "none"
  /\ t \in cancelled => pc[t] \notin {"cond", "firstCond"}
  /\ Mutator(t)
  /\ Created # {} => LockFree
  /\ threads' = threads \o SetToSeq(Created)
  /\ UNCHANGED <<process, cancelled, epc, at, seen>>

(* A cancelled thread dies at its next output or blocking call ...         *)
Cancelled(t) ==
  /\ process = "up" /\ epc[t] = "none" /\ t \in cancelled
  /\ pc[t] \in {"run", "stop"}
  /\ epc' = [epc EXCEPT ![t] = "gone"]
  /\ UNCHANGED <<vars, process, threads, cancelled, at, seen>>

(* ... one that waits gets the mutex back first, and nobody releases it.   *)
CancelledInWait(t) ==
  /\ process = "up" /\ epc[t] = "none" /\ t \in cancelled
  /\ pc[t] \in {"cond", "firstCond"}
  /\ waitMutex = NoThread
  /\ waitMutex' = t
  /\ waiters' = waiters \ {t}
  /\ epc' = [epc EXCEPT ![t] = "gone"]
  /\ UNCHANGED <<gcVars, threadVars, monVars, endVars, process, threads,
                 cancelled, at, seen>>

-----------------------------------------------------------------------------
(* halt0, or athrow in the bottom frame of main(): main_thread_exception.  *)
Halt(t) ==
  /\ process = "up" /\ epc[t] = "none" /\ pc[t] = "run"
  /\ epc' = [epc EXCEPT ![t] = "lock"]
  /\ UNCHANGED <<vars, process, threads, cancelled, at, seen>>

In(t, l) == process = "up" /\ epc[t] = l

Exit(t, l) == epc' = [epc EXCEPT ![t] = l]

TakeLock(t) ==
  /\ In(t, "lock") /\ LockFree
  /\ at' = [at EXCEPT ![t] = 1]
  /\ Exit(t, "look")
  /\ UNCHANGED <<vars, process, threads, cancelled, seen>>

(* A mutant: the mutex is not released again.                              *)
Look_KeepsMutex(t) ==
  /\ In(t, "look") /\ at[t] =< Len(threads)
  /\ waitMutex = NoThread
  /\ waitMutex' = t
  /\ seen' = [seen EXCEPT ![t] = state[threads[at[t]]]]
  /\ Exit(t, "cancel")
  /\ UNCHANGED <<gcVars, threadVars, monVars, waiters, endVars, process,
                 threads, cancelled, at>>

(* The state of the next thread is read under the wait mutex ...           *)
Look(t) ==
  /\ In(t, "look") /\ at[t] =< Len(threads)
  /\ waitMutex = NoThread
  /\ seen' = [seen EXCEPT ![t] = state[threads[at[t]]]]
  /\ Exit(t, "cancel")
  /\ UNCHANGED <<vars, process, threads, cancelled, at>>

(* ... and acted on after its release.  A thread of which start0 has not   *)
(* created the pthread yet has the tid 0: pthread_cancel may crash.        *)
Cancel(t) ==
  LET u == threads[at[t]] IN
  /\ In(t, "cancel")
  /\ IF seen[t] # "Death" /\ pc[u] = "alloc"
     THEN process' \in {"up", "crashed"}
     ELSE UNCHANGED process
  /\ cancelled' = IF seen[t] = "Death" \/ u = t \/ pc[u] = "alloc"
                  THEN cancelled ELSE cancelled \union {u}
  /\ state' = IF seen[t] # "Death" /\ u = t
              THEN [state EXCEPT ![t] = "Death"] ELSE state
  /\ at' = [at EXCEPT ![t] = @ + 1]
  /\ Exit(t, "look")
  /\ UNCHANGED <<gcVars, table, bit, pc, uncaught, child, ops, monVars,
                 condVars, endVars, threads, seen>>

Unlock(t) ==
  /\ In(t, "look") /\ at[t] > Len(threads)
  /\ Exit(t, "gc")
  /\ UNCHANGED <<vars, process, threads, cancelled, at, seen>>

(* GC::cancel_gc_thread spins on a request, cancels the collector and joins *)
(* it: a cancellation point, unless the collector has been joined before.   *)
CancelGcThread(t) ==
  /\ In(t, "gc") /\ GcLockFree /\ ~gc
  /\ gcPc \in {"idle", "wait", "cancelled"}
  /\ gcPc' = "cancelled"
  /\ Exit(t, IF t \in cancelled /\ gcPc # "cancelled" THEN "gone" ELSE "end")
  /\ UNCHANGED <<gc, inited, scanned, threadVars, monVars, condVars, endVars,
                 process, threads, cancelled, at, seen>>

(* wind_jvm::end has freed the heap: exit.                                 *)
ExitProcess(t) ==
  /\ In(t, "end")
  /\ process' = "exited"
  /\ UNCHANGED <<vars, threads, cancelled, epc, at, seen>>

Exits(t) ==
  \/ TakeLock(t) \/ Look(t) \/ Cancel(t) \/ Unlock(t)
  \/ CancelGcThread(t) \/ ExitProcess(t)

-----------------------------------------------------------------------------
(* The launcher's pthread_join of main returns when main is cancelled, too. *)
JoinCancelledMain ==
  /\ lpc = "join" /\ epc[Main] = "gone"
  /\ lpc' = "patch"
  /\ UNCHANGED <<gcVars, threadVars, monVars, condVars, threadNum>>

Launches ==
  /\ process = "up"
  /\ Launcher \/ JoinCancelledMain
  /\ UNCHANGED exitVars

Collects ==
  /\ process = "up"
  /\ Collector
  /\ UNCHANGED exitVars

ShutdownInit ==
  /\ Init
  /\ process = "up"
  /\ threads = <<Main>>
  /\ cancelled = {}
  /\ epc = [t \in Threads |-> "none"]
  /\ at = [t \in Threads |-> 0]
  /\ seen = [t \in Threads |-> "Running"]

ShutdownNext ==
  \/ \E t \in Threads :
       Works(t) \/ Halt(t) \/ Cancelled(t) \/ CancelledInWait(t) \/ Exits(t)
  \/ Collects
  \/ Launches

(* Mutexes are granted in the end to a thread that waits for them; nobody  *)
(* has to exit, or to reach a cancellation point.                          *)
ShutdownSpec ==
  /\ ShutdownInit /\ [][ShutdownNext]_allVars
  /\ \A t \in Threads : SF_allVars(Works(t)) /\ SF_allVars(Exits(t))
  /\ SF_allVars(Collects) /\ SF_allVars(Launches)

-----------------------------------------------------------------------------
(* The launcher cancels the collector and frees the heap only when nobody  *)
(* has taken the exit path, although a cancelled main() ends its join: the *)
(* thread that exits is still counted in thread_num, so that the heap is   *)
(* not freed twice.                                                        *)
LauncherEndsAlone ==
  lpc \in {"cancel", "joinGc", "end"} =>
    \A t \in Threads : epc[t] \in {"none", "gone"}

(* A cancelled thread has died in its wait and keeps the wait mutex.       *)
Orphaned == waitMutex # NoThread /\ epc[waitMutex] = "gone"

(* An exit that has begun ends the process, wherever the other threads     *)
(* are, except in the two ways the code has to hang: the loop needs the    *)
(* mutex that a cancelled waiter keeps, or the request of a collection     *)
(* stays, lost or because a cancelled thread never publishes its death.    *)
ExitEnds ==
  \A t \in Threads :
    [](epc[t] = "lock" => <>(process # "up" \/ Orphaned) \/ <>[]gc)

(* main_thread_exception: "cancel all running thread", "recycle the        *)
(* resource", exit.  Either way to hang refutes it.                        *)
ExitAlwaysEnds == \A t \in Threads : epc[t] = "lock" ~> process # "up"

-----------------------------------------------------------------------------
(* The inductive invariant behind LauncherEndsAlone.  Most of IInv does    *)
(* not survive a cancellation: what does is who was started by whom, and   *)
(* that thread_num counts whoever has not counted itself down, a thread    *)
(* that is cancelled or exits included.                                    *)
Epcs == {"none", "lock", "look", "cancel", "gc", "end", "gone"}

ExitTypeOK ==
  /\ pc \in [Threads -> Pcs]
  /\ child \in [Threads -> Threads \union {NoThread}]
  /\ epc \in [Threads -> Epcs]
  /\ threadNum \in Nat
  /\ lpc \in LPcs

StartersHaveChildren ==
  /\ \A t \in Threads :
       /\ pc[t] \in {"launch", "await"} <=> child[t] # NoThread
       /\ pc[t] = "launch" => pc[child[t]] = "alloc"
       /\ pc[t] = "await" => pc[child[t]] \notin {"none", "alloc"}
  /\ \A t, u \in Threads :
       child[t] = child[u] /\ child[t] # NoThread => t = u

(* main() has ended, or was cancelled, before the launcher leaves its join, *)
(* and a thread that exits stands still in its native method.              *)
ExitersAreCounted ==
  /\ threadNum = Cardinality(Counted)
  /\ \A t \in Threads : epc[t] \notin {"none", "gone"} => pc[t] = "run"
  /\ pc[Main] \notin {"none", "alloc", "count", "xcount", "xdie"}
  /\ lpc # "join" => pc[Main] = "dead" \/ epc[Main] = "gone"
  /\ lpc \in {"cancel", "joinGc", "end"} => Counted = {}

EInv == ExitTypeOK /\ StartersHaveChildren /\ ExitersAreCounted
=============================================================================
