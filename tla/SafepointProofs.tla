--------------------------- MODULE SafepointProofs ---------------------------
(* Safety of the stop-the-world handshake for every number of threads and  *)
(* monitors and every program: IInv of Safepoint is an inductive           *)
(* invariant, and the safety properties that the runs check follow from    *)
(* it.  Then the exit path of Shutdown, with an invariant of its own.      *)
EXTENDS Shutdown, FiniteSetTheorems, SequenceTheorems, TLAPS

USE ConstantsAssumption
    DEF FirstPcs, StopPcs, PollPcs, WorkPcs, EndPcs, Pcs, GcPcs, LPcs,
        gcVars, threadVars, monVars, condVars, endVars, Goto, Operation

-----------------------------------------------------------------------------
(* Leaving a monitor removes one entry and keeps the others.               *)
LEMMA RemoveAtType ==
  ASSUME NEW S, NEW s \in Seq(S), NEW i \in 1..Len(s)
  PROVE  /\ RemoveAt(s, i) \in Seq(S)
         /\ Len(RemoveAt(s, i)) = Len(s) - 1
  <1> DEFINE u == SubSeq(s, 1, i - 1)
             v == SubSeq(s, i + 1, Len(s))
  <1>1. u \in Seq(S) /\ Len(u) = i - 1
    BY SubSeqProperties
  <1>2. v \in Seq(S) /\ Len(v) = Len(s) - i
    BY SubSeqProperties
  <1>3. RemoveAt(s, i) = u \o v
    BY DEF RemoveAt
  <1> HIDE DEF u, v
  <1>4. u \o v \in Seq(S) /\ Len(u \o v) = Len(u) + Len(v)
    BY <1>1, <1>2, ConcatProperties
  <1> QED BY <1>1, <1>2, <1>3, <1>4

(* A function updated at two places.                                       *)
LEMMA TwoUpdates ==
  ASSUME NEW S, NEW T, NEW f \in [S -> T], NEW a \in S, NEW b \in S, a # b,
         NEW x, NEW y
  PROVE  [f EXCEPT ![a] = x, ![b] = y] =
           [u \in S |-> IF u = a THEN x ELSE IF u = b THEN y ELSE f[u]]
  OBVIOUS

(* The thread a start0 in progress is creating is not the caller, and not  *)
(* the main thread.                                                        *)
LEMMA LaunchFacts ==
  ASSUME IInv, NEW t \in Threads, pc[t] = "launch"
  PROVE  /\ child[t] \in Threads \ {t, Main}
         /\ pc[child[t]] = "alloc"
  BY DEF IInv, TypeOK, StartersWait, TableMatchesPc

(* What creating the pthread does to the program counters.                 *)
LEMMA LaunchPc ==
  ASSUME IInv, NEW t \in Threads, Launch(t)
  PROVE  \E c \in Threads \ {t, Main} :
           /\ c = child[t] /\ pc[t] = "launch" /\ pc[c] = "alloc"
           /\ pc' = [u \in Threads |->
                      IF u = t THEN "await" ELSE IF u = c THEN "reg" ELSE pc[u]]
           /\ UNCHANGED <<gcVars, table, state, bit, uncaught, child, ops,
                          monVars, condVars, endVars>>
  <1>1. child[t] \in Threads \ {t, Main} /\ pc[child[t]] = "alloc"
    BY LaunchFacts DEF Launch
  <1>2. pc \in [Threads -> Pcs]
    BY DEF IInv, TypeOK
  <1>3. pc' = [pc EXCEPT ![t] = "await", ![child[t]] = "reg"]
    BY DEF Launch
  <1>4. pc' = [u \in Threads |->
                 IF u = t THEN "await" ELSE IF u = child[t] THEN "reg" ELSE pc[u]]
    BY <1>1, <1>2, <1>3, TwoUpdates
  <1> QED BY <1>1, <1>4 DEF Launch

(* What creating the vm_thread does to the program counters.               *)
LEMMA Start0Pc ==
  ASSUME IInv, NEW t \in Threads, NEW c \in Threads, Start0(t, c)
  PROVE  /\ t # c /\ pc[t] = "run" /\ pc[c] = "none"
         /\ pc' = [u \in Threads |->
                    IF u = t THEN "launch" ELSE IF u = c THEN "alloc" ELSE pc[u]]
  <1>1. t # c /\ pc[t] = "run" /\ pc[c] = "none"
    BY DEF Start0
  <1>2. pc \in [Threads -> Pcs]
    BY DEF IInv, TypeOK
  <1>3. pc' = [pc EXCEPT ![t] = "launch", ![c] = "alloc"]
    BY DEF Start0
  <1> QED BY <1>1, <1>2, <1>3, TwoUpdates

(* A started thread that has yet to count itself down is counted.          *)
LEMMA CountedPositive ==
  ASSUME IInv, NEW t \in Threads, pc[t] \in {"count", "xcount"}
  PROVE  threadNum \in Nat \ {0}
  <1>1. IsFiniteSet(Counted)
    BY FS_Subset DEF Counted
  <1>2. t \in Counted
    BY DEF IInv, LauncherMatchesPcs, Counted
  <1> QED BY <1>1, <1>2, FS_EmptySet, FS_CardinalityType
          DEF IInv, LauncherMatchesPcs

(* Every step keeps every variable in its range. The counters do not go    *)
(* below zero: a monitor is left only by a thread that owns it, and a      *)
(* thread counts itself down only once.                                    *)
LEMMA TypeStep == IInv /\ [Next]_vars => TypeOK'
  <1> SUFFICES ASSUME IInv, [Next]_vars PROVE TypeOK'
    OBVIOUS
  <1>0. TypeOK /\ MonitorsCounted
    BY DEF IInv
  <1> USE <1>0 DEF TypeOK
  <1>1. ASSUME NEW t \in Threads, Mutator(t) PROVE TypeOK'
    <2>1. CASE Register(t)
      BY <2>1 DEF Register
    <2>2. CASE FirstWaitLock(t)
      BY <2>2 DEF FirstWaitLock
    <2>3. CASE FirstPark(t)
      BY <2>3 DEF FirstPark
    <2>4. CASE FirstWake(t)
      BY <2>4 DEF FirstWake
    <2>5. CASE Boot(t)
      BY <2>5 DEF Boot
    <2>6. CASE Entry(t)
      BY <2>6 DEF Entry, InitGc
    <2>7. CASE Poll(t)
      BY <2>7 DEF Poll
    <2>8. CASE SignalOne(t)
      BY <2>8, SMTT(30) DEF SignalOne
    <2>9. CASE StopLock(t)
      BY <2>9 DEF StopLock
    <2>10. CASE Check(t)
      BY <2>10 DEF Check
    <2>11. CASE Park(t)
      BY <2>11 DEF Park
    <2>12. CASE Wake(t)
      BY <2>12 DEF Wake
    <2>13. CASE Leave(t)
      BY <2>13 DEF Leave
    <2>14. CASE Invoke(t)
      BY <2>14, SMTT(30) DEF Invoke
    <2>15. ASSUME NEW m \in Monitors, MonitorInc(t, m) PROVE TypeOK'
      <3>1. /\ ops' \in [Threads -> 0..MaxOps]
            /\ pc' \in [Threads -> Pcs]
        BY <2>15 DEF MonitorInc
      <3>2. /\ monitorNum' \in [Threads -> Nat]
            /\ want' \in [Threads -> Monitors \union {NoThread}]
        BY <2>15 DEF MonitorInc
      <3> QED BY <2>15, <3>1, <3>2 DEF MonitorInc
    <2>16. CASE MonitorEnter(t)
      <3>1. want[t] \in Monitors
        BY <2>16 DEF MonitorEnter, MonitorsCounted
      <3>2. mons' \in [Threads -> Seq(Monitors)]
        BY <2>16, <3>1 DEF MonitorEnter
      <3> QED BY <2>16, <3>2 DEF MonitorEnter
    <2>17. CASE MonitorExit(t)
      <3>1. PICK i \in 1..Len(mons[t]) :
              mons' = [mons EXCEPT ![t] = RemoveAt(@, i)]
        BY <2>17 DEF MonitorExit
      <3>2. /\ RemoveAt(mons[t], i) \in Seq(Monitors)
            /\ monitorNum[t] \in Nat \ {0}
        BY <2>17, RemoveAtType DEF MonitorExit, MonitorsCounted
      <3>3. /\ mons' \in [Threads -> Seq(Monitors)]
            /\ monitorNum' \in [Threads -> Nat]
        BY <2>17, <3>1, <3>2, SMTT(30) DEF MonitorExit
      <3> QED BY <2>17, <3>3 DEF MonitorExit
    <2>18. CASE ObjectWait(t)
      <3>1. PICK i \in 1..Len(mons[t]) :
              /\ mons' = [mons EXCEPT ![t] = RemoveAt(@, i)]
              /\ want' = [want EXCEPT ![t] = mons[t][i]]
        BY <2>18 DEF ObjectWait
      <3>2. RemoveAt(mons[t], i) \in Seq(Monitors) /\ mons[t][i] \in Monitors
        BY RemoveAtType
      <3>3. /\ mons' \in [Threads -> Seq(Monitors)]
            /\ want' \in [Threads -> Monitors \union {NoThread}]
        BY <3>1, <3>2
      <3>4. /\ pc[t] = "run" /\ ops[t] < MaxOps
            /\ pc' = [pc EXCEPT ![t] = "mon"]
            /\ ops' = [ops EXCEPT ![t] = @ + 1]
            /\ UNCHANGED <<gcVars, table, state, bit, uncaught, child,
                           monitorNum, condVars, endVars>>
        BY <2>18 DEF ObjectWait
      <3>5. pc' \in [Threads -> Pcs] /\ ops' \in [Threads -> 0..MaxOps]
        BY <3>4, SMTT(30)
      <3> QED BY <3>3, <3>4, <3>5
    <2>19. ASSUME NEW c \in Threads, Start0(t, c) PROVE TypeOK'
      <3>1. /\ t # c /\ pc[t] = "run" /\ pc[c] = "none"
            /\ pc' = [u \in Threads |->
                       IF u = t THEN "launch" ELSE IF u = c THEN "alloc" ELSE pc[u]]
        BY <2>19, Start0Pc
      <3>2. /\ child' = [child EXCEPT ![t] = c]
            /\ ops' = [ops EXCEPT ![t] = @ + 1] /\ ops[t] < MaxOps
            /\ threadNum' = threadNum + 1
            /\ UNCHANGED <<gcVars, table, state, bit, uncaught, monVars,
                           condVars, lpc>>
        BY <2>19 DEF Start0
      <3>3. pc' \in [Threads -> Pcs]
        BY <3>1
      <3>4. /\ ops' \in [Threads -> 0..MaxOps]
            /\ child' \in [Threads -> Threads \union {NoThread}]
            /\ threadNum' \in Nat
        BY <3>2, SMTT(30)
      <3> QED BY <3>2, <3>3, <3>4
    <2>20. CASE Launch(t)
      <3>1. PICK c \in Threads \ {t, Main} :
              /\ c = child[t] /\ pc[t] = "launch" /\ pc[c] = "alloc"
              /\ pc' = [u \in Threads |->
                         IF u = t THEN "await" ELSE IF u = c THEN "reg" ELSE pc[u]]
              /\ UNCHANGED <<gcVars, table, state, bit, uncaught, child, ops,
                             monVars, condVars, endVars>>
        BY <2>20, LaunchPc
      <3> QED BY <3>1
    <2>21. CASE AwaitFirstWait(t)
      BY <2>21 DEF AwaitFirstWait
    <2>22. CASE Uncaught(t)
      BY <2>22 DEF Uncaught
    <2>23. CASE Finish(t)
      BY <2>23 DEF Finish
    <2>24. CASE CountDown(t)
      <3>1. threadNum - 1 \in Nat
        BY <2>24, CountedPositive DEF CountDown
      <3> QED BY <2>24, <3>1 DEF CountDown
    <2>25. CASE Die(t)
      BY <2>25 DEF Die
    <2> QED
      BY <1>1, <2>1, <2>2, <2>3, <2>4, <2>5, <2>6, <2>7, <2>8, <2>9,
         <2>10, <2>11, <2>12, <2>13, <2>14, <2>15, <2>16, <2>17, <2>18,
         <2>19, <2>20, <2>21, <2>22, <2>23, <2>24, <2>25 DEF Mutator
  <1>2. CASE Collector
    <2>1. CASE GcWait
      BY <2>1 DEF GcWait
    <2>2. CASE GcDetect
      BY <2>2 DEF GcDetect
    <2>3. ASSUME NEW t \in Threads, GcScan(t) PROVE TypeOK'
      BY <2>3 DEF GcScan
    <2>4. CASE GcScanDone
      BY <2>4 DEF GcScanDone
    <2>5. CASE GcFinish
      BY <2>5 DEF GcFinish
    <2>6. CASE GcResume
      BY <2>6 DEF GcResume
    <2> QED BY <1>2, <2>1, <2>2, <2>3, <2>4, <2>5, <2>6 DEF Collector
  <1>3. CASE Launcher
    <2>1. CASE JoinMain
      BY <2>1 DEF JoinMain
    <2>2. CASE SignalAllPatch
      BY <2>2 DEF SignalAllPatch
    <2>3. CASE SpinThreadNum
      BY <2>3 DEF SpinThreadNum
    <2>4. CASE CancelGc
      BY <2>4 DEF CancelGc
    <2>5. CASE JoinGcAndEnd
      BY <2>5 DEF JoinGcAndEnd
    <2> QED BY <1>3, <2>1, <2>2, <2>3, <2>4, <2>5 DEF Launcher
  <1>4. CASE UNCHANGED vars
    BY <1>4 DEF vars
  <1> QED BY <1>1, <1>2, <1>3, <1>4 DEF Next

(* vm_thread::state keeps saying where the thread is.                      *)
LEMMA StateStep == IInv /\ [Next]_vars => StateMatchesPc'
  <1> SUFFICES ASSUME IInv, [Next]_vars PROVE StateMatchesPc'
    OBVIOUS
  <1>0. TypeOK /\ StateMatchesPc
    BY DEF IInv
  <1> USE <1>0 DEF TypeOK, StateMatchesPc
  <1>1. ASSUME NEW t \in Threads, Mutator(t) PROVE StateMatchesPc'
    <2>1. CASE Register(t)
      BY <2>1 DEF Register
    <2>2. CASE FirstWaitLock(t)
      BY <2>2 DEF FirstWaitLock
    <2>3. CASE FirstPark(t)
      BY <2>3 DEF FirstPark
    <2>4. CASE FirstWake(t)
      BY <2>4 DEF FirstWake
    <2>5. CASE Boot(t)
      BY <2>5 DEF Boot
    <2>6. CASE Entry(t)
      BY <2>6 DEF Entry, InitGc
    <2>7. CASE Poll(t)
      BY <2>7 DEF Poll
    <2>8. CASE SignalOne(t)
      BY <2>8 DEF SignalOne
    <2>9. CASE StopLock(t)
      BY <2>9 DEF StopLock
    <2>10. CASE Check(t)
      BY <2>10 DEF Check
    <2>11. CASE Park(t)
      BY <2>11 DEF Park
    <2>12. CASE Wake(t)
      BY <2>12 DEF Wake
    <2>13. CASE Leave(t)
      BY <2>13 DEF Leave
    <2>14. CASE Invoke(t)
      BY <2>14 DEF Invoke
    <2>15. ASSUME NEW m \in Monitors, MonitorInc(t, m) PROVE StateMatchesPc'
      BY <2>15 DEF MonitorInc
    <2>16. CASE MonitorEnter(t)
      BY <2>16 DEF MonitorEnter
    <2>17. CASE MonitorExit(t)
      BY <2>17 DEF MonitorExit
    <2>18. CASE ObjectWait(t)
      BY <2>18 DEF ObjectWait
    <2>19. ASSUME NEW c \in Threads, Start0(t, c) PROVE StateMatchesPc'
      BY <2>19 DEF Start0
    <2>20. CASE Launch(t)
      <3>1. PICK c \in Threads \ {t, Main} :
              /\ c = child[t] /\ pc[t] = "launch" /\ pc[c] = "alloc"
              /\ pc' = [u \in Threads |->
                         IF u = t THEN "await" ELSE IF u = c THEN "reg" ELSE pc[u]]
              /\ UNCHANGED <<gcVars, table, state, bit, uncaught, child, ops,
                             monVars, condVars, endVars>>
        BY <2>20, LaunchPc
      <3> QED BY <3>1
    <2>21. CASE AwaitFirstWait(t)
      BY <2>21 DEF AwaitFirstWait
    <2>22. CASE Uncaught(t)
      BY <2>22 DEF Uncaught
    <2>23. CASE Finish(t)
      BY <2>23 DEF Finish
    <2>24. CASE CountDown(t)
      BY <2>24 DEF CountDown
    <2>25. CASE Die(t)
      BY <2>25 DEF Die
    <2> QED
      BY <1>1, <2>1, <2>2, <2>3, <2>4, <2>5, <2>6, <2>7, <2>8, <2>9,
         <2>10, <2>11, <2>12, <2>13, <2>14, <2>15, <2>16, <2>17, <2>18,
         <2>19, <2>20, <2>21, <2>22, <2>23, <2>24, <2>25 DEF Mutator
  <1>2. CASE Collector
    <2>1. CASE GcWait
      BY <2>1 DEF GcWait
    <2>2. CASE GcDetect
      BY <2>2 DEF GcDetect
    <2>3. ASSUME NEW t \in Threads, GcScan(t) PROVE StateMatchesPc'
      BY <2>3 DEF GcScan
    <2>4. CASE GcScanDone
      BY <2>4 DEF GcScanDone
    <2>5. CASE GcFinish
      BY <2>5 DEF GcFinish
    <2>6. CASE GcResume
      BY <2>6 DEF GcResume
    <2> QED BY <1>2, <2>1, <2>2, <2>3, <2>4, <2>5, <2>6 DEF Collector
  <1>3. CASE Launcher
    <2>1. CASE JoinMain
      BY <2>1 DEF JoinMain
    <2>2. CASE SignalAllPatch
      BY <2>2 DEF SignalAllPatch
    <2>3. CASE SpinThreadNum
      BY <2>3 DEF SpinThreadNum
    <2>4. CASE CancelGc
      BY <2>4 DEF CancelGc
    <2>5. CASE JoinGcAndEnd
      BY <2>5 DEF JoinGcAndEnd
    <2> QED BY <1>3, <2>1, <2>2, <2>3, <2>4, <2>5 DEF Launcher
  <1>4. CASE UNCHANGED vars
    BY <1>4 DEF vars
  <1> QED BY <1>1, <1>2, <1>3, <1>4 DEF Next

(* The wait mutex keeps having one owner.                                  *)
LEMMA MutexStep == IInv /\ [Next]_vars => MutexMatchesPc'
  <1> SUFFICES ASSUME IInv, [Next]_vars PROVE MutexMatchesPc'
    OBVIOUS
  <1>0. TypeOK /\ MutexMatchesPc
    BY DEF IInv
  <1> USE <1>0 DEF TypeOK, MutexMatchesPc
  <1>1. ASSUME NEW t \in Threads, Mutator(t) PROVE MutexMatchesPc'
    <2>1. CASE Register(t)
      BY <2>1 DEF Register
    <2>2. CASE FirstWaitLock(t)
      BY <2>2 DEF FirstWaitLock
    <2>3. CASE FirstPark(t)
      BY <2>3 DEF FirstPark
    <2>4. CASE FirstWake(t)
      BY <2>4 DEF FirstWake
    <2>5. CASE Boot(t)
      BY <2>5 DEF Boot
    <2>6. CASE Entry(t)
      BY <2>6 DEF Entry, InitGc
    <2>7. CASE Poll(t)
      BY <2>7 DEF Poll
    <2>8. CASE SignalOne(t)
      BY <2>8 DEF SignalOne
    <2>9. CASE StopLock(t)
      BY <2>9 DEF StopLock
    <2>10. CASE Check(t)
      BY <2>10 DEF Check
    <2>11. CASE Park(t)
      BY <2>11 DEF Park
    <2>12. CASE Wake(t)
      BY <2>12 DEF Wake
    <2>13. CASE Leave(t)
      BY <2>13 DEF Leave
    <2>14. CASE Invoke(t)
      BY <2>14 DEF Invoke
    <2>15. ASSUME NEW m \in Monitors, MonitorInc(t, m) PROVE MutexMatchesPc'
      BY <2>15 DEF MonitorInc
    <2>16. CASE MonitorEnter(t)
      BY <2>16 DEF MonitorEnter
    <2>17. CASE MonitorExit(t)
      BY <2>17 DEF MonitorExit
    <2>18. CASE ObjectWait(t)
      BY <2>18 DEF ObjectWait
    <2>19. ASSUME NEW c \in Threads, Start0(t, c) PROVE MutexMatchesPc'
      BY <2>19 DEF Start0
    <2>20. CASE Launch(t)
      <3>1. PICK c \in Threads \ {t, Main} :
              /\ c = child[t] /\ pc[t] = "launch" /\ pc[c] = "alloc"
              /\ pc' = [u \in Threads |->
                         IF u = t THEN "await" ELSE IF u = c THEN "reg" ELSE pc[u]]
              /\ UNCHANGED <<gcVars, table, state, bit, uncaught, child, ops,
                             monVars, condVars, endVars>>
        BY <2>20, LaunchPc
      <3> QED BY <3>1
    <2>21. CASE AwaitFirstWait(t)
      BY <2>21 DEF AwaitFirstWait
    <2>22. CASE Uncaught(t)
      BY <2>22 DEF Uncaught
    <2>23. CASE Finish(t)
      BY <2>23 DEF Finish
    <2>24. CASE CountDown(t)
      BY <2>24 DEF CountDown
    <2>25. CASE Die(t)
      BY <2>25 DEF Die
    <2> QED
      BY <1>1, <2>1, <2>2, <2>3, <2>4, <2>5, <2>6, <2>7, <2>8, <2>9,
         <2>10, <2>11, <2>12, <2>13, <2>14, <2>15, <2>16, <2>17, <2>18,
         <2>19, <2>20, <2>21, <2>22, <2>23, <2>24, <2>25 DEF Mutator
  <1>2. CASE Collector
    <2>1. CASE GcWait
      BY <2>1 DEF GcWait
    <2>2. CASE GcDetect
      BY <2>2 DEF GcDetect
    <2>3. ASSUME NEW t \in Threads, GcScan(t) PROVE MutexMatchesPc'
      BY <2>3 DEF GcScan
    <2>4. CASE GcScanDone
      BY <2>4 DEF GcScanDone
    <2>5. CASE GcFinish
      BY <2>5 DEF GcFinish
    <2>6. CASE GcResume
      BY <2>6 DEF GcResume
    <2> QED BY <1>2, <2>1, <2>2, <2>3, <2>4, <2>5, <2>6 DEF Collector
  <1>3. CASE Launcher
    <2>1. CASE JoinMain
      BY <2>1 DEF JoinMain
    <2>2. CASE SignalAllPatch
      BY <2>2 DEF SignalAllPatch
    <2>3. CASE SpinThreadNum
      BY <2>3 DEF SpinThreadNum
    <2>4. CASE CancelGc
      BY <2>4 DEF CancelGc
    <2>5. CASE JoinGcAndEnd
      BY <2>5 DEF JoinGcAndEnd
    <2> QED BY <1>3, <2>1, <2>2, <2>3, <2>4, <2>5 DEF Launcher
  <1>4. CASE UNCHANGED vars
    BY <1>4 DEF vars
  <1> QED BY <1>1, <1>2, <1>3, <1>4 DEF Next

(* monitor_num keeps counting the monitors owned.                          *)
LEMMA MonitorsStep == IInv /\ [Next]_vars => MonitorsCounted'
  <1> SUFFICES ASSUME IInv, [Next]_vars PROVE MonitorsCounted'
    OBVIOUS
  <1>0. TypeOK /\ MonitorsCounted /\ TableMatchesPc
    BY DEF IInv
  <1> USE <1>0 DEF TypeOK, MonitorsCounted, TableMatchesPc
  <1>1. ASSUME NEW t \in Threads, Mutator(t) PROVE MonitorsCounted'
    <2>1. CASE Register(t)
      BY <2>1 DEF Register
    <2>2. CASE FirstWaitLock(t)
      BY <2>2 DEF FirstWaitLock
    <2>3. CASE FirstPark(t)
      BY <2>3 DEF FirstPark
    <2>4. CASE FirstWake(t)
      BY <2>4 DEF FirstWake
    <2>5. CASE Boot(t)
      BY <2>5 DEF Boot
    <2>6. CASE Entry(t)
      BY <2>6 DEF Entry, InitGc
    <2>7. CASE Poll(t)
      BY <2>7 DEF Poll
    <2>8. CASE SignalOne(t)
      BY <2>8 DEF SignalOne
    <2>9. CASE StopLock(t)
      BY <2>9 DEF StopLock
    <2>10. CASE Check(t)
      BY <2>10 DEF Check
    <2>11. CASE Park(t)
      BY <2>11 DEF Park
    <2>12. CASE Wake(t)
      BY <2>12 DEF Wake
    <2>13. CASE Leave(t)
      BY <2>13 DEF Leave
    <2>14. CASE Invoke(t)
      BY <2>14 DEF Invoke
    <2>15. ASSUME NEW m \in Monitors, MonitorInc(t, m) PROVE MonitorsCounted'
      BY <2>15, SMTT(30) DEF MonitorInc
    <2>16. CASE MonitorEnter(t)
      <3>1. Len(Append(mons[t], want[t])) = Len(mons[t]) + 1
        OBVIOUS
      <3>2. \A u \in Threads \ {t} :
              mons'[u] = mons[u] /\ want'[u] = want[u] /\ pc'[u] = pc[u]
        BY <2>16 DEF MonitorEnter
      <3>3. /\ mons'[t] = Append(mons[t], want[t]) /\ want'[t] = NoThread
            /\ pc'[t] = "run" /\ pc[t] = "mon" /\ ops' = ops
            /\ monitorNum' = monitorNum
        BY <2>16 DEF MonitorEnter
      <3>4. ops[t] # 0 /\ monitorNum[t] = Len(mons[t]) + 1
        BY <3>3
      <3>5. ASSUME NEW u \in Threads, u # t
            PROVE  /\ monitorNum'[u] = IF pc'[u] = "mon" THEN Len(mons'[u]) + 1
                                                         ELSE Len(mons'[u])
                   /\ want'[u] # NoThread <=> pc'[u] = "mon"
                   /\ pc'[u] \notin WorkPcs \union {"entry"} => mons'[u] = <<>>
                   /\ ops'[u] = 0 => mons'[u] = <<>> /\ pc'[u] # "mon"
        <4>1. /\ mons'[u] = mons[u] /\ want'[u] = want[u] /\ pc'[u] = pc[u]
              /\ ops'[u] = ops[u] /\ monitorNum'[u] = monitorNum[u]
          BY <3>2, <3>3, <3>5
        <4> QED BY <4>1
      <3>6. /\ monitorNum'[t] = Len(mons'[t]) /\ pc'[t] \in WorkPcs
            /\ pc'[t] # "mon" /\ want'[t] = NoThread /\ ops'[t] # 0
        BY <3>1, <3>3, <3>4
      <3> QED BY <3>5, <3>6
    <2>17. CASE MonitorExit(t)
      <3>1. PICK i \in 1..Len(mons[t]) : mons' = [mons EXCEPT ![t] = RemoveAt(@, i)]
        BY <2>17 DEF MonitorExit
      <3>2. Len(RemoveAt(mons[t], i)) = Len(mons[t]) - 1
        BY <2>17, RemoveAtType
      <3>3. \A u \in Threads \ {t} : mons'[u] = mons[u] /\ monitorNum'[u] = monitorNum[u]
        BY <2>17, <3>1 DEF MonitorExit
      <3> QED BY <2>17, <3>1, <3>2, <3>3, SMTT(30) DEF MonitorExit
    <2>18. CASE ObjectWait(t)
      <3>1. PICK i \in 1..Len(mons[t]) : mons' = [mons EXCEPT ![t] = RemoveAt(@, i)]
        BY <2>18 DEF ObjectWait
      <3>2. Len(RemoveAt(mons[t], i)) = Len(mons[t]) - 1
        BY <2>18, RemoveAtType
      <3>3. \A u \in Threads \ {t} : mons'[u] = mons[u] /\ monitorNum'[u] = monitorNum[u]
        BY <2>18, <3>1 DEF ObjectWait
      <3> QED BY <2>18, <3>1, <3>2, <3>3, SMTT(30) DEF ObjectWait
    <2>19. ASSUME NEW c \in Threads, Start0(t, c) PROVE MonitorsCounted'
      BY <2>19, SMTT(30) DEF Start0
    <2>20. CASE Launch(t)
      <3>1. PICK c \in Threads \ {t, Main} :
              /\ c = child[t] /\ pc[t] = "launch" /\ pc[c] = "alloc"
              /\ pc' = [u \in Threads |->
                         IF u = t THEN "await" ELSE IF u = c THEN "reg" ELSE pc[u]]
              /\ UNCHANGED <<gcVars, table, state, bit, uncaught, child, ops,
                             monVars, condVars, endVars>>
        BY <2>20, LaunchPc
      <3> QED BY <3>1
    <2>21. CASE AwaitFirstWait(t)
      BY <2>21 DEF AwaitFirstWait
    <2>22. CASE Uncaught(t)
      BY <2>22 DEF Uncaught
    <2>23. CASE Finish(t)
      BY <2>23 DEF Finish
    <2>24. CASE CountDown(t)
      BY <2>24 DEF CountDown
    <2>25. CASE Die(t)
      BY <2>25 DEF Die
    <2> QED
      BY <1>1, <2>1, <2>2, <2>3, <2>4, <2>5, <2>6, <2>7, <2>8, <2>9,
         <2>10, <2>11, <2>12, <2>13, <2>14, <2>15, <2>16, <2>17, <2>18,
         <2>19, <2>20, <2>21, <2>22, <2>23, <2>24, <2>25 DEF Mutator
  <1>2. CASE Collector
    <2>1. CASE GcWait
      BY <2>1 DEF GcWait
    <2>2. CASE GcDetect
      BY <2>2 DEF GcDetect
    <2>3. ASSUME NEW t \in Threads, GcScan(t) PROVE MonitorsCounted'
      BY <2>3 DEF GcScan
    <2>4. CASE GcScanDone
      BY <2>4 DEF GcScanDone
    <2>5. CASE GcFinish
      BY <2>5 DEF GcFinish
    <2>6. CASE GcResume
      BY <2>6 DEF GcResume
    <2> QED BY <1>2, <2>1, <2>2, <2>3, <2>4, <2>5, <2>6 DEF Collector
  <1>3. CASE Launcher
    <2>1. CASE JoinMain
      BY <2>1 DEF JoinMain
    <2>2. CASE SignalAllPatch
      BY <2>2 DEF SignalAllPatch
    <2>3. CASE SpinThreadNum
      BY <2>3 DEF SpinThreadNum
    <2>4. CASE CancelGc
      BY <2>4 DEF CancelGc
    <2>5. CASE JoinGcAndEnd
      BY <2>5 DEF JoinGcAndEnd
    <2> QED BY <1>3, <2>1, <2>2, <2>3, <2>4, <2>5 DEF Launcher
  <1>4. CASE UNCHANGED vars
    BY <1>4 DEF vars
  <1> QED BY <1>1, <1>2, <1>3, <1>4 DEF Next

(* The request is made once and withdrawn by the collector alone.          *)
LEMMA RequestStep == IInv /\ [Next]_vars => RequestMatchesPcs'
  <1> SUFFICES ASSUME IInv, [Next]_vars PROVE RequestMatchesPcs'
    OBVIOUS
  <1>0. TypeOK /\ RequestMatchesPcs
    BY DEF IInv
  <1> USE <1>0 DEF TypeOK, RequestMatchesPcs
  <1>1. ASSUME NEW t \in Threads, Mutator(t) PROVE RequestMatchesPcs'
    <2>1. CASE Register(t)
      BY <2>1 DEF Register
    <2>2. CASE FirstWaitLock(t)
      BY <2>2 DEF FirstWaitLock
    <2>3. CASE FirstPark(t)
      BY <2>3 DEF FirstPark
    <2>4. CASE FirstWake(t)
      BY <2>4 DEF FirstWake
    <2>5. CASE Boot(t)
      BY <2>5 DEF Boot
    <2>6. CASE Entry(t)
      BY <2>6 DEF Entry, InitGc
    <2>7. CASE Poll(t)
      BY <2>7 DEF Poll
    <2>8. CASE SignalOne(t)
      BY <2>8 DEF SignalOne
    <2>9. CASE StopLock(t)
      BY <2>9 DEF StopLock
    <2>10. CASE Check(t)
      BY <2>10 DEF Check
    <2>11. CASE Park(t)
      BY <2>11 DEF Park
    <2>12. CASE Wake(t)
      BY <2>12 DEF Wake
    <2>13. CASE Leave(t)
      BY <2>13 DEF Leave
    <2>14. CASE Invoke(t)
      BY <2>14 DEF Invoke
    <2>15. ASSUME NEW m \in Monitors, MonitorInc(t, m) PROVE RequestMatchesPcs'
      BY <2>15 DEF MonitorInc
    <2>16. CASE MonitorEnter(t)
      BY <2>16 DEF MonitorEnter
    <2>17. CASE MonitorExit(t)
      BY <2>17 DEF MonitorExit
    <2>18. CASE ObjectWait(t)
      BY <2>18 DEF ObjectWait
    <2>19. ASSUME NEW c \in Threads, Start0(t, c) PROVE RequestMatchesPcs'
      BY <2>19 DEF Start0
    <2>20. CASE Launch(t)
      BY <2>20 DEF Launch
    <2>21. CASE AwaitFirstWait(t)
      BY <2>21 DEF AwaitFirstWait
    <2>22. CASE Uncaught(t)
      BY <2>22 DEF Uncaught
    <2>23. CASE Finish(t)
      BY <2>23 DEF Finish
    <2>24. CASE CountDown(t)
      BY <2>24 DEF CountDown
    <2>25. CASE Die(t)
      BY <2>25 DEF Die
    <2> QED
      BY <1>1, <2>1, <2>2, <2>3, <2>4, <2>5, <2>6, <2>7, <2>8, <2>9,
         <2>10, <2>11, <2>12, <2>13, <2>14, <2>15, <2>16, <2>17, <2>18,
         <2>19, <2>20, <2>21, <2>22, <2>23, <2>24, <2>25 DEF Mutator
  <1>2. CASE Collector
    <2>1. CASE GcWait
      BY <2>1 DEF GcWait
    <2>2. CASE GcDetect
      BY <2>2 DEF GcDetect
    <2>3. ASSUME NEW t \in Threads, GcScan(t) PROVE RequestMatchesPcs'
      BY <2>3 DEF GcScan
    <2>4. CASE GcScanDone
      BY <2>4 DEF GcScanDone
    <2>5. CASE GcFinish
      BY <2>5 DEF GcFinish
    <2>6. CASE GcResume
      BY <2>6 DEF GcResume
    <2> QED BY <1>2, <2>1, <2>2, <2>3, <2>4, <2>5, <2>6 DEF Collector
  <1>3. CASE Launcher
    <2>1. CASE JoinMain
      BY <2>1 DEF JoinMain
    <2>2. CASE SignalAllPatch
      BY <2>2 DEF SignalAllPatch
    <2>3. CASE SpinThreadNum
      BY <2>3 DEF SpinThreadNum
    <2>4. CASE CancelGc
      BY <2>4 DEF CancelGc
    <2>5. CASE JoinGcAndEnd
      BY <2>5 DEF JoinGcAndEnd
    <2> QED BY <1>3, <2>1, <2>2, <2>3, <2>4, <2>5 DEF Launcher
  <1>4. CASE UNCHANGED vars
    BY <1>4 DEF vars
  <1> QED BY <1>1, <1>2, <1>3, <1>4 DEF Next

(* start0 does not return before the new thread is in its first wait.      *)
LEMMA StartersStep == IInv /\ [Next]_vars => StartersWait'
  <1> SUFFICES ASSUME IInv, [Next]_vars PROVE StartersWait'
    OBVIOUS
  <1>0. TypeOK /\ StartersWait /\ TableMatchesPc /\ MutexMatchesPc
    BY DEF IInv
  <1> USE <1>0 DEF TypeOK, StartersWait, TableMatchesPc, MutexMatchesPc
  <1>1. ASSUME NEW t \in Threads, Mutator(t) PROVE StartersWait'
    <2>1. CASE Register(t)
      BY <2>1, SMTT(30) DEF Register
    <2>2. CASE FirstWaitLock(t)
      BY <2>2 DEF FirstWaitLock
    <2>3. CASE FirstPark(t)
      BY <2>3 DEF FirstPark
    <2>4. CASE FirstWake(t)
      BY <2>4 DEF FirstWake
    <2>5. CASE Boot(t)
      BY <2>5, SMTT(30) DEF Boot
    <2>6. CASE Entry(t)
      BY <2>6, SMTT(30) DEF Entry, InitGc
    <2>7. CASE Poll(t)
      BY <2>7, SMTT(30) DEF Poll
    <2>8. CASE SignalOne(t)
      BY <2>8 DEF SignalOne
    <2>9. CASE StopLock(t)
      BY <2>9 DEF StopLock
    <2>10. CASE Check(t)
      BY <2>10 DEF Check
    <2>11. CASE Park(t)
      BY <2>11 DEF Park
    <2>12. CASE Wake(t)
      BY <2>12 DEF Wake
    <2>13. CASE Leave(t)
      BY <2>13 DEF Leave
    <2>14. CASE Invoke(t)
      BY <2>14, SMTT(30) DEF Invoke
    <2>15. ASSUME NEW m \in Monitors, MonitorInc(t, m) PROVE StartersWait'
      <3>1. /\ pc[t] = "run" /\ pc' = [pc EXCEPT ![t] = "mon"]
            /\ UNCHANGED <<table, bit, child>>
        BY <2>15 DEF MonitorInc
      <3> QED BY <3>1
    <2>16. CASE MonitorEnter(t)
      BY <2>16, SMTT(30) DEF MonitorEnter
    <2>17. CASE MonitorExit(t)
      BY <2>17 DEF MonitorExit
    <2>18. CASE ObjectWait(t)
      BY <2>18, SMTT(30) DEF ObjectWait
    <2>19. ASSUME NEW c \in Threads, Start0(t, c) PROVE StartersWait'
      <3>1. /\ t # c /\ pc[t] = "run" /\ pc[c] = "none"
            /\ pc' = [u \in Threads |->
                       IF u = t THEN "launch" ELSE IF u = c THEN "alloc" ELSE pc[u]]
        BY <2>19, Start0Pc
      <3>2. /\ child' = [child EXCEPT ![t] = c]
            /\ ops' = [ops EXCEPT ![t] = @ + 1] /\ ops[t] < MaxOps
            /\ threadNum' = threadNum + 1
            /\ UNCHANGED <<gcVars, table, state, bit, uncaught, monVars,
                           condVars, lpc>>
        BY <2>19 DEF Start0
      <3>3. child[t] = NoThread /\ \A u \in Threads : child[u] # c
        <4>1. child[t] = NoThread
          BY <3>1
        <4>2. ASSUME NEW u \in Threads, child[u] = c
              PROVE  FALSE
          <5>1. pc[u] \in {"launch", "await"}
            BY <4>2
          <5> QED BY <5>1, <4>2, <3>1
        <4> QED BY <4>1, <4>2
      <3>4. ASSUME NEW u \in Threads
            PROVE  /\ pc'[u] \in {"launch", "await"} <=> child'[u] # NoThread
                   /\ pc'[u] = "launch" => pc'[child'[u]] = "alloc"
                   /\ pc'[u] = "await" => pc'[child'[u]] \notin {"none", "alloc"}
                   /\ bit'[u] => pc'[u] \notin {"none", "alloc", "reg", "first"}
        BY <3>1, <3>2, <3>3, SMTT(30)
      <3>5. ASSUME NEW u \in Threads,
                   pc'[u] \in {"alloc", "reg", "first", "firstPark"}
            PROVE  u = Main \/ \E w \in Threads : child'[w] = u
        <4>1. child'[t] = c
          BY <3>2
        <4>2. u # c => pc[u] = pc'[u]
          BY <3>1, <3>5
        <4>3. ASSUME u # c, NEW w \in Threads, child[w] = u
              PROVE  child'[w] = u
          BY <4>3, <3>2, <3>3
        <4> QED BY <4>1, <4>2, <4>3, <3>5
      <3>6. ASSUME NEW u \in Threads, NEW w \in Threads,
                   child'[u] = child'[w], child'[u] # NoThread
            PROVE  u = w
        BY <3>2, <3>3, <3>6, SMTT(30)
      <3> QED BY <3>4, <3>5, <3>6
    <2>20. CASE Launch(t)
      <3>1. PICK c \in Threads \ {t, Main} :
              /\ c = child[t] /\ pc[t] = "launch" /\ pc[c] = "alloc"
              /\ pc' = [u \in Threads |->
                         IF u = t THEN "await" ELSE IF u = c THEN "reg" ELSE pc[u]]
              /\ UNCHANGED <<gcVars, table, state, bit, uncaught, child, ops,
                             monVars, condVars, endVars>>
        BY <2>20, LaunchPc
      <3>2. \A u \in Threads : child[u] = c => u = t
        BY <3>1
      <3>3. ASSUME NEW u \in Threads
            PROVE  /\ pc'[u] \in {"launch", "await"} <=> child'[u] # NoThread
                   /\ pc'[u] = "launch" => pc'[child'[u]] = "alloc"
                   /\ pc'[u] = "await" => pc'[child'[u]] \notin {"none", "alloc"}
        <4>1. CASE u = t
          BY <4>1, <3>1
        <4>2. CASE u # t
          <5>1. (u # c /\ pc'[u] = pc[u] /\ child[u] # c) \/ u = c
            BY <4>2, <3>1, <3>2
          <5>2. u = c => pc'[u] = "reg" /\ child[u] = NoThread
            BY <3>1
          <5> QED BY <5>1, <5>2, <3>1, SMTT(30)
        <4> QED BY <4>1, <4>2
      <3>4. ASSUME NEW u \in Threads
            PROVE  /\ bit'[u] => pc'[u] \notin {"none", "alloc", "reg", "first"}
                   /\ pc'[u] \in {"alloc", "reg", "first", "firstPark"} =>
                        u = Main \/ \E w \in Threads : child'[w] = u
        BY <3>1
      <3> QED BY <3>1, <3>3, <3>4, SMTT(30)
    <2>21. CASE AwaitFirstWait(t)
      BY <2>21, SMTT(30) DEF AwaitFirstWait
    <2>22. CASE Uncaught(t)
      BY <2>22 DEF Uncaught
    <2>23. CASE Finish(t)
      BY <2>23 DEF Finish
    <2>24. CASE CountDown(t)
      BY <2>24, SMTT(30) DEF CountDown
    <2>25. CASE Die(t)
      BY <2>25, SMTT(30) DEF Die
    <2> QED
      BY <1>1, <2>1, <2>2, <2>3, <2>4, <2>5, <2>6, <2>7, <2>8, <2>9,
         <2>10, <2>11, <2>12, <2>13, <2>14, <2>15, <2>16, <2>17, <2>18,
         <2>19, <2>20, <2>21, <2>22, <2>23, <2>24, <2>25 DEF Mutator
  <1>2. CASE Collector
    <2>1. CASE GcWait
      BY <2>1 DEF GcWait
    <2>2. CASE GcDetect
      BY <2>2 DEF GcDetect
    <2>3. ASSUME NEW t \in Threads, GcScan(t) PROVE StartersWait'
      BY <2>3 DEF GcScan
    <2>4. CASE GcScanDone
      BY <2>4 DEF GcScanDone
    <2>5. CASE GcFinish
      BY <2>5 DEF GcFinish
    <2>6. CASE GcResume
      BY <2>6 DEF GcResume
    <2> QED BY <1>2, <2>1, <2>2, <2>3, <2>4, <2>5, <2>6 DEF Collector
  <1>3. CASE Launcher
    <2>1. CASE JoinMain
      BY <2>1 DEF JoinMain
    <2>2. CASE SignalAllPatch
      BY <2>2 DEF SignalAllPatch
    <2>3. CASE SpinThreadNum
      BY <2>3 DEF SpinThreadNum
    <2>4. CASE CancelGc
      BY <2>4 DEF CancelGc
    <2>5. CASE JoinGcAndEnd
      BY <2>5 DEF JoinGcAndEnd
    <2> QED BY <1>3, <2>1, <2>2, <2>3, <2>4, <2>5 DEF Launcher
  <1>4. CASE UNCHANGED vars
    BY <1>4 DEF vars
  <1> QED BY <1>1, <1>2, <1>3, <1>4 DEF Next

(* The table keeps listing the threads that have begun.                    *)
LEMMA TableStep == IInv /\ [Next]_vars => TableMatchesPc'
  <1> SUFFICES ASSUME IInv, [Next]_vars PROVE TableMatchesPc'
    OBVIOUS
  <1>0. TypeOK /\ TableMatchesPc /\ StartersWait /\ RequestMatchesPcs
    BY DEF IInv
  <1> USE <1>0 DEF TypeOK, TableMatchesPc, StartersWait, RequestMatchesPcs
  <1>1. ASSUME NEW t \in Threads, Mutator(t) PROVE TableMatchesPc'
    <2>1. CASE Register(t)
      BY <2>1, SMTT(30) DEF Register
    <2>2. CASE FirstWaitLock(t)
      BY <2>2 DEF FirstWaitLock
    <2>3. CASE FirstPark(t)
      BY <2>3 DEF FirstPark
    <2>4. CASE FirstWake(t)
      BY <2>4 DEF FirstWake
    <2>5. CASE Boot(t)
      BY <2>5 DEF Boot
    <2>6. CASE Entry(t)
      BY <2>6 DEF Entry, InitGc
    <2>7. CASE Poll(t)
      BY <2>7 DEF Poll
    <2>8. CASE SignalOne(t)
      BY <2>8 DEF SignalOne
    <2>9. CASE StopLock(t)
      BY <2>9 DEF StopLock
    <2>10. CASE Check(t)
      BY <2>10 DEF Check
    <2>11. CASE Park(t)
      BY <2>11 DEF Park
    <2>12. CASE Wake(t)
      BY <2>12 DEF Wake
    <2>13. CASE Leave(t)
      BY <2>13 DEF Leave
    <2>14. CASE Invoke(t)
      BY <2>14 DEF Invoke
    <2>15. ASSUME NEW m \in Monitors, MonitorInc(t, m) PROVE TableMatchesPc'
      BY <2>15 DEF MonitorInc
    <2>16. CASE MonitorEnter(t)
      BY <2>16 DEF MonitorEnter
    <2>17. CASE MonitorExit(t)
      BY <2>17 DEF MonitorExit
    <2>18. CASE ObjectWait(t)
      BY <2>18 DEF ObjectWait
    <2>19. ASSUME NEW c \in Threads, Start0(t, c) PROVE TableMatchesPc'
      <3>1. /\ t # c /\ pc[t] = "run" /\ pc[c] = "none"
            /\ pc' = [u \in Threads |->
                       IF u = t THEN "launch" ELSE IF u = c THEN "alloc" ELSE pc[u]]
        BY <2>19, Start0Pc
      <3>2. /\ child' = [child EXCEPT ![t] = c]
            /\ ops' = [ops EXCEPT ![t] = @ + 1] /\ ops[t] < MaxOps
            /\ threadNum' = threadNum + 1
            /\ UNCHANGED <<gcVars, table, state, bit, uncaught, monVars,
                           condVars, lpc>>
        BY <2>19 DEF Start0
      <3> QED BY <3>1, <3>2, SMTT(30)
    <2>20. CASE Launch(t)
      <3>1. PICK c \in Threads \ {t, Main} :
              /\ c = child[t] /\ pc[t] = "launch" /\ pc[c] = "alloc"
              /\ pc' = [u \in Threads |->
                         IF u = t THEN "await" ELSE IF u = c THEN "reg" ELSE pc[u]]
              /\ UNCHANGED <<gcVars, table, state, bit, uncaught, child, ops,
                             monVars, condVars, endVars>>
        BY <2>20, LaunchPc
      <3> QED BY <3>1, SMTT(30)
    <2>21. CASE AwaitFirstWait(t)
      BY <2>21 DEF AwaitFirstWait
    <2>22. CASE Uncaught(t)
      BY <2>22 DEF Uncaught
    <2>23. CASE Finish(t)
      BY <2>23 DEF Finish
    <2>24. CASE CountDown(t)
      BY <2>24 DEF CountDown
    <2>25. CASE Die(t)
      BY <2>25 DEF Die
    <2> QED
      BY <1>1, <2>1, <2>2, <2>3, <2>4, <2>5, <2>6, <2>7, <2>8, <2>9,
         <2>10, <2>11, <2>12, <2>13, <2>14, <2>15, <2>16, <2>17, <2>18,
         <2>19, <2>20, <2>21, <2>22, <2>23, <2>24, <2>25 DEF Mutator
  <1>2. CASE Collector
    <2>1. CASE GcWait
      BY <2>1 DEF GcWait
    <2>2. CASE GcDetect
      BY <2>2 DEF GcDetect
    <2>3. ASSUME NEW t \in Threads, GcScan(t) PROVE TableMatchesPc'
      BY <2>3 DEF GcScan
    <2>4. CASE GcScanDone
      BY <2>4 DEF GcScanDone
    <2>5. CASE GcFinish
      BY <2>5 DEF GcFinish
    <2>6. CASE GcResume
      BY <2>6 DEF GcResume
    <2> QED BY <1>2, <2>1, <2>2, <2>3, <2>4, <2>5, <2>6 DEF Collector
  <1>3. CASE Launcher
    <2>1. CASE JoinMain
      BY <2>1 DEF JoinMain
    <2>2. CASE SignalAllPatch
      BY <2>2 DEF SignalAllPatch
    <2>3. CASE SpinThreadNum
      BY <2>3 DEF SpinThreadNum
    <2>4. CASE CancelGc
      BY <2>4 DEF CancelGc
    <2>5. CASE JoinGcAndEnd
      BY <2>5 DEF JoinGcAndEnd
    <2> QED BY <1>3, <2>1, <2>2, <2>3, <2>4, <2>5 DEF Launcher
  <1>4. CASE UNCHANGED vars
    BY <1>4 DEF vars
  <1> QED BY <1>1, <1>2, <1>3, <1>4 DEF Next

(* A thread that detect_ready has counted stays quiet as long as gc is     *)
(* set: it stops at its next safepoint poll, and nobody who has stopped    *)
(* resumes.                                                                *)
LEMMA QuietMutator ==
  ASSUME IInv, gc, NEW t \in Threads, Mutator(t), NEW u \in Threads, Quiet(u)
  PROVE  Quiet(u)'
  <1>0. TypeOK /\ TableMatchesPc /\ MonitorsCounted /\ RequestMatchesPcs
    BY DEF IInv
  <1> USE <1>0 DEF TypeOK, TableMatchesPc, MonitorsCounted, RequestMatchesPcs,
                   Quiet, Fresh
  <1>1. CASE Register(t)
    BY <1>1 DEF Register
  <1>2. CASE FirstWaitLock(t)
    BY <1>2 DEF FirstWaitLock
  <1>3. CASE FirstPark(t)
    BY <1>3 DEF FirstPark
  <1>4. CASE FirstWake(t)
    BY <1>4 DEF FirstWake
  <1>5. CASE Boot(t)
    BY <1>5 DEF Boot
  <1>6. CASE Entry(t)
    BY <1>6 DEF InitGc, Entry
  <1>7. CASE Poll(t)
    BY <1>7 DEF Poll
  <1>8. CASE SignalOne(t)
    BY <1>8 DEF SignalOne
  <1>9. CASE StopLock(t)
    BY <1>9 DEF StopLock
  <1>10. CASE Check(t)
    BY <1>10 DEF Check
  <1>11. CASE Park(t)
    BY <1>11 DEF Park
  <1>12. CASE Wake(t)
    BY <1>12 DEF Wake
  <1>13. CASE Leave(t)
    BY <1>13 DEF Leave
  <1>14. CASE Invoke(t)
    BY <1>14 DEF Invoke
  <1>15. ASSUME NEW m \in Monitors, MonitorInc(t, m) PROVE Quiet(u)'
    BY <1>15 DEF MonitorInc
  <1>16. CASE MonitorEnter(t)
    BY <1>16 DEF MonitorEnter
  <1>17. CASE MonitorExit(t)
    BY <1>17 DEF MonitorExit
  <1>18. CASE ObjectWait(t)
    BY <1>18 DEF ObjectWait
  <1>19. ASSUME NEW c \in Threads, Start0(t, c) PROVE Quiet(u)'
    <2>1. /\ t # c /\ pc[t] = "run" /\ pc[c] = "none"
          /\ pc' = [w \in Threads |->
                     IF w = t THEN "launch" ELSE IF w = c THEN "alloc" ELSE pc[w]]
      BY <1>19, Start0Pc
    <2>2. /\ child' = [child EXCEPT ![t] = c]
          /\ ops' = [ops EXCEPT ![t] = @ + 1] /\ ops[t] < MaxOps
          /\ threadNum' = threadNum + 1
          /\ UNCHANGED <<gcVars, table, state, bit, uncaught, monVars,
                         condVars, lpc>>
      BY <1>19 DEF Start0
    <2> QED BY <2>1, <2>2
  <1>20. CASE Launch(t)
    <2>1. PICK c \in Threads \ {t, Main} :
            /\ c = child[t] /\ pc[t] = "launch" /\ pc[c] = "alloc"
            /\ pc' = [w \in Threads |->
                       IF w = t THEN "await" ELSE IF w = c THEN "reg" ELSE pc[w]]
            /\ UNCHANGED <<gcVars, table, state, bit, uncaught, child, ops,
                           monVars, condVars, endVars>>
      BY <1>20, LaunchPc
    <2> QED BY <2>1
  <1>21. CASE AwaitFirstWait(t)
    BY <1>21 DEF AwaitFirstWait
  <1>22. CASE Uncaught(t)
    BY <1>22 DEF Uncaught
  <1>23. CASE Finish(t)
    BY <1>23 DEF Finish
  <1>24. CASE CountDown(t)
    BY <1>24 DEF CountDown
  <1>25. CASE Die(t)
    BY <1>25 DEF Die
  <1> QED
    BY <1>1, <1>2, <1>3, <1>4, <1>5, <1>6, <1>7, <1>8, <1>9, <1>10, <1>11,
       <1>12, <1>13, <1>14, <1>15, <1>16, <1>17, <1>18, <1>19, <1>20,
       <1>21, <1>22, <1>23, <1>24, <1>25 DEF Mutator

(* While the world is stopped no new thread enters the table: its parent   *)
(* would be a table entry that is not quiet.                               *)
LEMMA NobodyRegisters ==
  ASSUME IInv, gcPc = "collect", NEW t \in Threads
  PROVE  pc[t] # "reg"
  <1>0. /\ TypeOK /\ StartersWait /\ TableMatchesPc /\ RequestMatchesPcs
        /\ \A u \in table : Quiet(u)
    BY DEF IInv, CountedStayQuiet
  <1> SUFFICES ASSUME pc[t] = "reg" PROVE FALSE
    OBVIOUS
  <1>1. t # Main
    BY <1>0 DEF TableMatchesPc, RequestMatchesPcs
  <1>2. PICK u \in Threads : child[u] = t
    BY <1>0, <1>1 DEF StartersWait
  <1>3. pc[u] \in {"launch", "await"}
    BY <1>0, <1>2 DEF StartersWait
  <1>4. u \in table
    BY <1>0, <1>3 DEF TableMatchesPc
  <1> QED BY <1>0, <1>3, <1>4 DEF Quiet, Fresh


(* What one java thread does to the variables of the collector.            *)
LEMMA MutatorGc ==
  ASSUME IInv, NEW t \in Threads, Mutator(t)
  PROVE  /\ gc => gc'
         /\ scanned' = scanned
         /\ gcPc = "scan" => table' = table
         /\ table' \subseteq table \/ pc[t] = "reg"
         /\ gcPc' # gcPc => gcPc = "wait" /\ gcPc' = "detect"
         /\ lpc' = lpc
         /\ gc' # gc => pc[t] = "entry"
  BY DEF
     Mutator, InitGc, Register, FirstWaitLock, FirstPark, FirstWake, Boot,
     Entry, Poll, SignalOne, StopLock, Check, Park, Wake, Leave, Invoke,
     MonitorInc, MonitorEnter, MonitorExit, ObjectWait, Start0, Launch,
     AwaitFirstWait, Uncaught, Finish, CountDown, Die, TableLockFree

(* The threads detect_ready has counted stay quiet until the request is    *)
(* withdrawn.                                                              *)
LEMMA QuietStep == IInv /\ [Next]_vars => CountedStayQuiet'
  <1> SUFFICES ASSUME IInv, [Next]_vars PROVE CountedStayQuiet'
    OBVIOUS
  <1>0. TypeOK /\ CountedStayQuiet /\ StateMatchesPc /\ RequestMatchesPcs /\ TableMatchesPc
    BY DEF IInv
  <1> USE <1>0
  <1>1. ASSUME NEW t \in Threads, Mutator(t) PROVE CountedStayQuiet'
    <2>1. CASE gcPc = "scan"
      <3>1. /\ gc /\ scanned \subseteq table /\ scanned \subseteq Threads
            /\ \A u \in scanned : Quiet(u)
        BY <2>1 DEF CountedStayQuiet, RequestMatchesPcs, TypeOK
      <3>2. \A u \in scanned : Quiet(u)'
        BY <1>1, <3>1, QuietMutator
      <3> QED BY <1>1, <2>1, <3>1, <3>2, MutatorGc DEF CountedStayQuiet
    <2>2. CASE gcPc = "collect"
      <3>1. gc /\ table \subseteq Threads /\ \A u \in table : Quiet(u)
        BY <2>2 DEF CountedStayQuiet, RequestMatchesPcs, TypeOK
      <3>2. \A u \in table : Quiet(u)'
        BY <1>1, <3>1, QuietMutator
      <3>3. table' \subseteq table
        BY <1>1, <2>2, MutatorGc, NobodyRegisters
      <3> QED BY <1>1, <2>2, <3>2, <3>3, MutatorGc DEF CountedStayQuiet
    <2>3. CASE gcPc \notin {"scan", "collect"}
      BY <1>1, <2>3, MutatorGc DEF CountedStayQuiet
    <2> QED BY <2>1, <2>2, <2>3
  <1>2. CASE Collector
    <2> USE DEF CountedStayQuiet, Quiet, Fresh
    <2>1. CASE GcWait \/ GcDetect \/ GcFinish \/ GcResume
      BY <2>1 DEF GcWait, GcDetect, GcFinish, GcResume
    <2>2. ASSUME NEW t \in Threads, GcScan(t) PROVE CountedStayQuiet'
      <3>1. state[t] \in {"Waiting", "Death"} => Quiet(t)
        BY <2>2 DEF GcScan, StateMatchesPc, RequestMatchesPcs, TableMatchesPc
      <3> QED BY <2>2, <3>1 DEF GcScan
    <2>3. CASE GcScanDone
      BY <2>3 DEF GcScanDone
    <2> QED BY <1>2, <2>1, <2>2, <2>3 DEF Collector
  <1>3. CASE Launcher
    BY <1>3 DEF Launcher, JoinMain, SignalAllPatch, SpinThreadNum, CancelGc,
                JoinGcAndEnd, CountedStayQuiet, Quiet, Fresh
  <1>4. CASE UNCHANGED vars
    BY <1>4 DEF vars, CountedStayQuiet, Quiet, Fresh
  <1> QED BY <1>1, <1>2, <1>3, <1>4 DEF Next

(* A thread's step changes who has to be counted down only in start0,      *)
(* which adds a thread, and in CountDown, which removes one; nobody steps  *)
(* once nobody has to be.                                                  *)
LEMMA CountedMutator ==
  ASSUME IInv, NEW t \in Threads, Mutator(t)
  PROVE  \/ Counted' = Counted /\ threadNum' = threadNum
         \/ \E c \in Threads : /\ t \in Counted \union {Main}
                             /\ c \notin Counted
                             /\ Counted' = Counted \union {c}
                             /\ threadNum' = threadNum + 1
         \/ /\ t \in Counted
            /\ Counted' = Counted \ {t}
            /\ threadNum' = threadNum - 1
  <1>0. TypeOK /\ TableMatchesPc /\ LauncherMatchesPcs
    BY DEF IInv
  <1> DEFINE Same == Counted' = Counted /\ threadNum' = threadNum
  <1> USE <1>0 DEF TypeOK, TableMatchesPc, LauncherMatchesPcs, Counted
  <1>1. ASSUME Register(t) PROVE Same
    BY <1>1 DEF Register
  <1>2. ASSUME FirstWaitLock(t) PROVE Same
    BY <1>2 DEF FirstWaitLock
  <1>3. ASSUME FirstPark(t) PROVE Same
    BY <1>3 DEF FirstPark
  <1>4. ASSUME FirstWake(t) PROVE Same
    BY <1>4 DEF FirstWake
  <1>5. ASSUME Boot(t) PROVE Same
    BY <1>5 DEF Boot
  <1>6. ASSUME Entry(t) PROVE Same
    BY <1>6 DEF InitGc, Entry
  <1>7. ASSUME Poll(t) PROVE Same
    BY <1>7 DEF Poll
  <1>8. ASSUME SignalOne(t) PROVE Same
    BY <1>8 DEF SignalOne
  <1>9. ASSUME StopLock(t) PROVE Same
    BY <1>9 DEF StopLock
  <1>10. ASSUME Check(t) PROVE Same
    BY <1>10 DEF Check
  <1>11. ASSUME Park(t) PROVE Same
    BY <1>11 DEF Park
  <1>12. ASSUME Wake(t) PROVE Same
    BY <1>12 DEF Wake
  <1>13. ASSUME Leave(t) PROVE Same
    BY <1>13 DEF Leave
  <1>14. ASSUME Invoke(t) PROVE Same
    BY <1>14 DEF Invoke
  <1>15. ASSUME NEW m \in Monitors, MonitorInc(t, m) PROVE Same
    BY <1>15 DEF MonitorInc
  <1>16. ASSUME MonitorEnter(t) PROVE Same
    BY <1>16 DEF MonitorEnter
  <1>17. ASSUME MonitorExit(t) PROVE Same
    BY <1>17 DEF MonitorExit
  <1>18. ASSUME ObjectWait(t) PROVE Same
    BY <1>18 DEF ObjectWait
  <1>19. ASSUME NEW c \in Threads, Start0(t, c)
       PROVE  /\ t \in Counted \union {Main} /\ c \notin Counted
              /\ Counted' = Counted \union {c} /\ threadNum' = threadNum + 1
    <2>1. c # Main /\ threadNum' = threadNum + 1
      BY <1>19 DEF Start0
    <2>2. /\ t # c /\ pc[t] = "run" /\ pc[c] = "none"
          /\ pc' = [u \in Threads |->
                     IF u = t THEN "launch" ELSE IF u = c THEN "alloc" ELSE pc[u]]
      BY <1>19, Start0Pc
    <2>3. \A u \in Threads \ {c} :
            pc'[u] \in {"none", "die", "xdie", "dead"} <=>
            pc[u] \in {"none", "die", "xdie", "dead"}
      BY <2>2
    <2> QED BY <2>1, <2>2, <2>3, SMTT(30)
  <1>20. ASSUME Launch(t) PROVE Same
    <2>1. PICK c \in Threads \ {t, Main} :
            /\ pc[t] = "launch" /\ pc[c] = "alloc"
            /\ pc' = [u \in Threads |->
                       IF u = t THEN "await" ELSE IF u = c THEN "reg" ELSE pc[u]]
            /\ UNCHANGED <<gcVars, table, state, bit, uncaught, child, ops,
                           monVars, condVars, endVars>>
      <3> HIDE <1>0 DEF TypeOK, TableMatchesPc, LauncherMatchesPcs, Counted
      <3> QED BY <1>20, LaunchPc
    <2>2. \A u \in Threads : pc'[u] \in {"none", "die", "xdie", "dead"} <=>
                             pc[u] \in {"none", "die", "xdie", "dead"}
      BY <2>1
    <2> QED BY <2>1, <2>2
  <1>21. ASSUME AwaitFirstWait(t) PROVE Same
    BY <1>21 DEF AwaitFirstWait
  <1>22. ASSUME Uncaught(t) PROVE Same
    BY <1>22 DEF Uncaught
  <1>23. ASSUME Finish(t) PROVE Same
    BY <1>23 DEF Finish
  <1>24. CASE CountDown(t)
    <2>1. t \in Counted /\ Counted' = Counted \ {t} /\ threadNum' = threadNum - 1
      BY <1>24 DEF CountDown
    <2> QED BY <2>1
  <1>25. ASSUME Die(t) PROVE Same
    BY <1>25 DEF Die
  <1> QED
    BY <1>1, <1>2, <1>3, <1>4, <1>5, <1>6, <1>7, <1>8, <1>9, <1>10, <1>11,
       <1>12, <1>13, <1>14, <1>15, <1>16, <1>17, <1>18, <1>19, <1>20,
       <1>21, <1>22, <1>23, <1>24, <1>25 DEF Mutator

(* A dead thread stays dead.                                               *)
LEMMA DeadStaysDead ==
  ASSUME IInv, NEW t \in Threads, Mutator(t), NEW u \in Threads, pc[u] = "dead"
  PROVE  t # u /\ pc'[u] = "dead"
  <1>1. t # u
    BY DEF
       Mutator, Register, FirstWaitLock, FirstPark, FirstWake, Boot,
       Entry, Poll, SignalOne, StopLock, Check, Park, Wake, Leave,
       Invoke, MonitorInc, MonitorEnter, MonitorExit, ObjectWait,
       Start0, Launch, AwaitFirstWait, Uncaught, Finish, CountDown, Die
  <1>2. ASSUME NEW c \in Threads, Start0(t, c) PROVE pc'[u] = "dead"
    BY <1>2, Start0Pc
  <1>3. CASE Launch(t)
    BY <1>1, <1>3, LaunchPc
  <1>4. pc \in [Threads -> Pcs]
    BY DEF IInv, TypeOK
  <1> QED BY <1>1, <1>2, <1>3, <1>4
          DEF
              Mutator, Register, FirstWaitLock, FirstPark,
              FirstWake, Boot, Entry, Poll, SignalOne, StopLock,
              Check, Park, Wake, Leave, Invoke, MonitorInc,
              MonitorEnter, MonitorExit, ObjectWait,
              AwaitFirstWait, Uncaught, Finish, CountDown, Die

(* The launcher's count is exact, and once it is zero nothing starts       *)
(* again.                                                                  *)
LEMMA LauncherStep == IInv /\ [Next]_vars => LauncherMatchesPcs'
  <1> SUFFICES ASSUME IInv, [Next]_vars PROVE LauncherMatchesPcs'
    OBVIOUS
  <1>0. TypeOK /\ LauncherMatchesPcs /\ TableMatchesPc /\ IsFiniteSet(Counted)
    BY FS_Subset DEF IInv, Counted
  <1>1. ASSUME NEW t \in Threads, Mutator(t) PROVE LauncherMatchesPcs'
    <2>1. threadNum' = Cardinality(Counted')
      <3>1. threadNum = Cardinality(Counted) /\ threadNum \in Nat
        BY <1>0 DEF LauncherMatchesPcs, TypeOK
      <3>2. CASE Counted' = Counted /\ threadNum' = threadNum
        BY <3>1, <3>2
      <3>3. ASSUME NEW c \in Threads, c \notin Counted,
                   Counted' = Counted \union {c}, threadNum' = threadNum + 1
            PROVE  threadNum' = Cardinality(Counted')
        BY <1>0, <3>1, <3>3, FS_AddElement
      <3>4. CASE t \in Counted /\ Counted' = Counted \ {t} /\ threadNum' = threadNum - 1
        BY <1>0, <3>1, <3>4, FS_RemoveElement
      <3> QED BY <1>1, <3>2, <3>3, <3>4, CountedMutator
    <2>2. pc'[Main] \notin {"count", "xcount", "xdie"}
      <3>1. ASSUME NEW c \in Threads, Start0(t, c)
            PROVE  pc'[Main] \notin {"count", "xcount", "xdie"}
        BY <1>0, <3>1, Start0Pc DEF LauncherMatchesPcs
      <3>2. CASE Launch(t)
        BY <1>0, <3>2, LaunchPc DEF LauncherMatchesPcs
      <3> QED BY <1>0, <1>1, <3>1, <3>2
              DEF LauncherMatchesPcs, TypeOK,
                  Mutator, Register, FirstWaitLock,
                  FirstPark, FirstWake, Boot, Entry, Poll,
                  SignalOne, StopLock, Check, Park, Wake,
                  Leave, Invoke, MonitorInc, MonitorEnter,
                  MonitorExit, ObjectWait, AwaitFirstWait,
                  Uncaught, Finish, CountDown, Die
    <2>3. lpc' = lpc
      BY <1>1, MutatorGc
    <2>4. lpc' # "join" => pc'[Main] = "dead"
      BY <1>0, <1>1, <2>3, DeadStaysDead DEF LauncherMatchesPcs
    <2>5. lpc' \in {"cancel", "joinGc", "end"} => Counted' = {}
      <3> SUFFICES ASSUME lpc \in {"cancel", "joinGc", "end"} PROVE Counted' = {}
        BY <2>3
      <3>1. Counted = {} /\ pc[Main] = "dead"
        BY <1>0 DEF LauncherMatchesPcs
      <3>2. t # Main
        BY <1>1, <3>1, DeadStaysDead
      <3> QED BY <1>1, <3>1, <3>2, CountedMutator
    <2>6. lpc' \in {"joinGc", "end"} => ~gc'
      <3> SUFFICES ASSUME lpc \in {"joinGc", "end"} PROVE ~gc'
        BY <2>3
      <3>1. Counted = {} /\ pc[Main] = "dead" /\ ~gc
        BY <1>0 DEF LauncherMatchesPcs
      <3>2. t # Main
        BY <1>1, <3>1, DeadStaysDead
      <3>3. pc[t] # "entry"
        BY <3>1, <3>2 DEF Counted
      <3> QED BY <1>1, <3>1, <3>3, MutatorGc
    <2> QED BY <2>1, <2>2, <2>4, <2>5, <2>6 DEF LauncherMatchesPcs
  <1>2. CASE Collector
    BY <1>0, <1>2 DEF LauncherMatchesPcs, Counted, Collector, GcWait, GcDetect,
                      GcScan, GcScanDone, GcFinish, GcResume
  <1>3. CASE Launcher
    <2>1. CASE SpinThreadNum
      <3>1. Counted = {}
        BY <1>0, <2>1, FS_EmptySet DEF SpinThreadNum, LauncherMatchesPcs
      <3> QED BY <1>0, <2>1, <3>1 DEF SpinThreadNum, LauncherMatchesPcs, Counted
    <2>2. CASE JoinMain \/ SignalAllPatch \/ CancelGc \/ JoinGcAndEnd
      BY <1>0, <2>2 DEF JoinMain, SignalAllPatch, CancelGc, JoinGcAndEnd,
                        LauncherMatchesPcs, Counted
    <2> QED BY <1>3, <2>1, <2>2 DEF Launcher
  <1>4. CASE UNCHANGED vars
    BY <1>0, <1>4 DEF vars, LauncherMatchesPcs, Counted
  <1> QED BY <1>1, <1>2, <1>3, <1>4 DEF Next

-----------------------------------------------------------------------------
(* The invariant holds initially.                                          *)
LEMMA IInvInit == Init => IInv
  <1> SUFFICES ASSUME Init PROVE IInv
    OBVIOUS
  <1>1. TypeOK
    <2>1. [t \in Threads |-> <<>>] \in [Threads -> Seq(Monitors)]
      OBVIOUS
    <2>2. [t \in Threads |-> 0] \in [Threads -> 0..MaxOps]
      OBVIOUS
    <2>3. pc \in [Threads -> Pcs]
      BY DEF Init
    <2> QED BY <2>1, <2>2, <2>3 DEF Init, TypeOK
  <1>2. /\ StateMatchesPc /\ MutexMatchesPc /\ MonitorsCounted
        /\ RequestMatchesPcs /\ StartersWait /\ TableMatchesPc
        /\ CountedStayQuiet
    BY DEF Init, StateMatchesPc, MutexMatchesPc, MonitorsCounted, StartersWait,
           RequestMatchesPcs, TableMatchesPc, CountedStayQuiet
  <1>3. Counted = {}
    BY DEF Init, Counted
  <1>4. LauncherMatchesPcs
    BY <1>3, FS_EmptySet DEF Init, LauncherMatchesPcs
  <1> QED BY <1>1, <1>2, <1>4 DEF IInv

(* Every step preserves every part of the invariant.                       *)
LEMMA IInvStep == IInv /\ [Next]_vars => IInv'
  BY TypeStep, StateStep, MutexStep, MonitorsStep, RequestStep, StartersStep,
     TableStep, QuietStep, LauncherStep DEF IInv

(* Hence the invariant holds in every reachable state.                     *)
LEMMA IInvInvariant == Spec => []IInv
  BY IInvInit, IInvStep, PTL DEF Spec

(* TypeOK: every variable stays in its range; monitor_num and thread_num,  *)
(* which the code decrements in several places, never go below zero.       *)
THEOREM TypeCorrect == Spec => []TypeOK
  <1>1. IInv => TypeOK
    BY DEF IInv
  <1> QED BY <1>1, IInvInvariant, PTL

(* StartedThreadsRegistered: when system_gc runs, no thread is missing     *)
(* from the table that detect_ready counted and no start0 is half done     *)
(* (gc.cpp detect_ready, JVM_StartThread).                                 *)
LEMMA RegisteredLemma == IInv => StartedThreadsRegistered
  <1> SUFFICES ASSUME IInv, gcPc = "collect", NEW t \in Threads
               PROVE  (pc[t] \notin {"none", "dead"} => t \in table) /\ child[t] = NoThread
    BY DEF StartedThreadsRegistered
  <1>0. /\ TypeOK /\ StartersWait /\ TableMatchesPc
        /\ \A u \in table : Quiet(u)
    BY DEF IInv, CountedStayQuiet
  <1>1. ASSUME NEW u \in Threads PROVE pc[u] \notin {"launch", "await"}
    <2>1. pc[u] \in {"launch", "await"} => u \in table
      BY <1>0 DEF TableMatchesPc
    <2> QED BY <1>0, <2>1 DEF Quiet, Fresh
  <1>2. \A u \in Threads : child[u] = NoThread
    BY <1>0, <1>1 DEF StartersWait
  <1>3. pc[t] # "alloc"
    BY <1>0, <1>2 DEF StartersWait, TableMatchesPc
  <1>4. pc[t] # "reg"
    BY NobodyRegisters
  <1> QED BY <1>0, <1>2, <1>3, <1>4 DEF TableMatchesPc

THEOREM Registered == Spec => []StartedThreadsRegistered
  BY RegisteredLemma, IInvInvariant, PTL

(* WorldStopped: when system_gc runs, every thread is stopped, dead, or on *)
(* its way from its first wait to its first safepoint poll.                *)
LEMMA WorldStoppedLemma == IInv => WorldStopped
  <1> SUFFICES ASSUME IInv, gcPc = "collect", NEW t \in Threads
               PROVE  Stopped(t) \/ Fresh(t)
    BY DEF WorldStopped
  <1>1. /\ pc[t] \notin {"none", "dead"} => t \in table
        /\ \A u \in Threads : child[u] = NoThread
    BY RegisteredLemma DEF StartedThreadsRegistered
  <1>2. pc[t] \notin {"none", "dead"} => Quiet(t)
    BY <1>1 DEF IInv, CountedStayQuiet
  <1>3. t # Main => pc[t] # "firstPark"
    BY <1>1 DEF IInv, StartersWait, TypeOK
  <1> QED BY <1>2, <1>3 DEF Quiet, Stopped

THEOREM StopsTheWorld == Spec => []WorldStopped
  BY WorldStoppedLemma, IInvInvariant, PTL

(* NoMonitorAcrossCollection: when system_gc runs, no thread owns or wants *)
(* a monitor, so the copies of the objects, whose monitors are new, are    *)
(* never used by somebody who has entered the old one.                     *)
LEMMA NoMonitorLemma == IInv => NoMonitorAcrossCollection
  <1> SUFFICES ASSUME IInv, gcPc = "collect", NEW t \in Threads
               PROVE  monitorNum[t] = 0 /\ mons[t] = <<>> /\ want[t] = NoThread
    BY DEF NoMonitorAcrossCollection
  <1>1. Stopped(t) \/ Fresh(t)
    BY WorldStoppedLemma DEF WorldStopped
  <1>2. TypeOK /\ MonitorsCounted
    BY DEF IInv
  <1>3. pc[t] # "mon" /\ mons[t] = <<>>
    BY <1>1, <1>2 DEF MonitorsCounted, Stopped, Fresh
  <1> QED BY <1>2, <1>3 DEF MonitorsCounted

THEOREM NoMonitorHeld == Spec => []NoMonitorAcrossCollection
  BY NoMonitorLemma, IInvInvariant, PTL

(* HeapOutlivesThreads: wind_jvm::end frees the heap only when every       *)
(* thread has finished and no collection is requested.                     *)
THEOREM EndIsSafe == Spec => []HeapOutlivesThreads
  <1>1. IInv => HeapOutlivesThreads
    <2> SUFFICES ASSUME IInv, lpc = "end", NEW t \in Threads
                 PROVE  ~gc /\ pc[t] \in {"none", "die", "xdie", "dead"}
      BY DEF HeapOutlivesThreads
    <2>1. ~gc /\ Counted = {} /\ pc[Main] = "dead"
      BY DEF IInv, LauncherMatchesPcs
    <2> QED BY <2>1 DEF Counted
  <1> QED BY <1>1, IInvInvariant, PTL

(* ResumeOnlyAfterGc: a thread that wait_cur_thread stopped becomes        *)
(* Running only when no collection is requested or under way.              *)
THEOREM ResumesAfterGc == Spec => ResumeOnlyAfterGc
  <1>1. IInv /\ [Next]_vars => [ResumeOnlyAfterGcStep]_vars
    <2> SUFFICES ASSUME IInv, [Next]_vars, NEW t \in Threads,
                        state[t] = "Waiting", state'[t] = "Running",
                        pc[t] # "firstCond"
                 PROVE  ~gc /\ gcPc # "collect"
      BY DEF ResumeOnlyAfterGcStep
    <2>0. TypeOK /\ StateMatchesPc /\ RequestMatchesPcs
      BY DEF IInv
    <2>1. state' # state
      OBVIOUS
    <2>2. PICK u \in Threads : Mutator(u)
      BY <2>1
         DEF Next, vars, Collector, GcWait, GcDetect, GcScan, GcScanDone,
             GcFinish, GcResume, Launcher, JoinMain, SignalAllPatch,
             SpinThreadNum, CancelGc, JoinGcAndEnd
    <2>3. FirstWake(u) \/ Leave(u) \/ FirstWaitLock(u) \/ StopLock(u) \/ Die(u)
      BY <2>1, <2>2
         DEF
             Mutator, Register, FirstPark, Boot, Entry, Poll,
             SignalOne, Check, Park, Wake, Invoke, MonitorInc,
             MonitorEnter, MonitorExit, ObjectWait, Start0,
             Launch, AwaitFirstWait, Uncaught, Finish, CountDown
    <2>4. pc[t] = "leave"
      BY <2>0, <2>3 DEF TypeOK, FirstWake, Leave, FirstWaitLock, StopLock, Die
    <2> QED BY <2>0, <2>4 DEF RequestMatchesPcs
  <1> QED BY <1>1, IInvInvariant, PTL DEF Spec, ResumeOnlyAfterGc

-----------------------------------------------------------------------------
(* Shutdown.  EInv is an inductive invariant, and the launcher frees the   *)
(* heap only when nobody has taken the exit path.                          *)
(*                                                                         *)
(* IInv is of no use here: a cancelled thread dies in the middle of the    *)
(* protocol.  EInv is the part of it that survives, with the exiting       *)
(* threads added.                                                          *)
HIDE DEF GcPcs, gcVars, threadVars, monVars, condVars, endVars
USE DEF Epcs

(* Steps that move the thread t, by itself, between places where it is     *)
(* neither starting another thread nor counting itself down.               *)
Moves(t) ==
  /\ pc[t] \notin {"none", "alloc", "launch", "await", "count", "xcount",
                   "die", "xdie", "dead"}
  /\ \E l \in Pcs \ {"none", "alloc", "launch", "await", "xdie", "dead"} :
       /\ t = Main => l \notin {"count", "xcount"}
       /\ t # Main => l # "die"
       /\ pc' = [pc EXCEPT ![t] = l]
  /\ UNCHANGED <<child, threadNum, lpc>>

(* Every step of a thread is such a move but for those that start a thread *)
(* or end one.                                                             *)
LEMMA MutatorMoves ==
  ASSUME EInv, NEW t \in Threads, Mutator(t)
  PROVE  \/ Moves(t)
         \/ \E c \in Threads : Start0(t, c)
         \/ Launch(t) \/ AwaitFirstWait(t) \/ CountDown(t) \/ Die(t)
  <1>0. pc \in [Threads -> Pcs]
    BY DEF EInv, ExitTypeOK
  <1> USE <1>0 DEF Moves, gcVars, threadVars, monVars, condVars, endVars
  <1>1. ASSUME Register(t) PROVE Moves(t)
    BY <1>1 DEF Register
  <1>2. ASSUME FirstWaitLock(t) PROVE Moves(t)
    BY <1>2 DEF FirstWaitLock
  <1>3. ASSUME FirstPark(t) PROVE Moves(t)
    BY <1>3 DEF FirstPark
  <1>4. ASSUME FirstWake(t) PROVE Moves(t)
    BY <1>4 DEF FirstWake
  <1>5. ASSUME Boot(t) PROVE Moves(t)
    BY <1>5 DEF Boot
  <1>6. ASSUME Entry(t) PROVE Moves(t)
    BY <1>6 DEF Entry
  <1>7. ASSUME Poll(t) PROVE Moves(t)
    BY <1>7 DEF Poll
  <1>8. ASSUME SignalOne(t) PROVE Moves(t)
    BY <1>8 DEF SignalOne
  <1>9. ASSUME StopLock(t) PROVE Moves(t)
    BY <1>9 DEF StopLock
  <1>10. ASSUME Check(t) PROVE Moves(t)
    BY <1>10 DEF Check
  <1>11. ASSUME Park(t) PROVE Moves(t)
    BY <1>11 DEF Park
  <1>12. ASSUME Wake(t) PROVE Moves(t)
    BY <1>12 DEF Wake
  <1>13. ASSUME Leave(t) PROVE Moves(t)
    BY <1>13 DEF Leave
  <1>14. ASSUME Invoke(t) PROVE Moves(t)
    BY <1>14 DEF Invoke
  <1>15. ASSUME NEW m \in Monitors, MonitorInc(t, m) PROVE Moves(t)
    BY <1>15 DEF MonitorInc
  <1>16. ASSUME MonitorEnter(t) PROVE Moves(t)
    BY <1>16 DEF MonitorEnter
  <1>17. ASSUME MonitorExit(t) PROVE Moves(t)
    <2>1. pc[t] = "run" /\ pc' = pc /\ UNCHANGED <<child, threadNum, lpc>>
      BY <1>17 DEF MonitorExit
    <2>2. pc' = [pc EXCEPT ![t] = "run"]
      BY <2>1
    <2> QED BY <2>1, <2>2
  <1>18. ASSUME ObjectWait(t) PROVE Moves(t)
    BY <1>18 DEF ObjectWait
  <1>19. ASSUME Uncaught(t) PROVE Moves(t)
    BY <1>19 DEF Uncaught
  <1>20. ASSUME Finish(t) PROVE Moves(t)
    BY <1>20 DEF Finish
  <1> HIDE <1>0 DEF Moves
  <1> QED
    BY <1>1, <1>2, <1>3, <1>4, <1>5, <1>6, <1>7, <1>8, <1>9, <1>10, <1>11,
       <1>12, <1>13, <1>14, <1>15, <1>16, <1>17, <1>18, <1>19, <1>20
       DEF Mutator

(* What start0 does to the program counters.                               *)
LEMMA StartPc ==
  ASSUME EInv, NEW t \in Threads, NEW c \in Threads, Start0(t, c)
  PROVE  /\ t # c /\ c # Main /\ pc[t] = "run" /\ pc[c] = "none"
         /\ pc' = [u \in Threads |->
                    IF u = t THEN "launch" ELSE IF u = c THEN "alloc" ELSE pc[u]]
         /\ child' = [child EXCEPT ![t] = c]
         /\ threadNum' = threadNum + 1 /\ lpc' = lpc
  BY DEF EInv, ExitTypeOK, ExitersAreCounted, Start0

(* What creating the pthread does to them.                                 *)
LEMMA CreatePc ==
  ASSUME EInv, NEW t \in Threads, Launch(t)
  PROVE  \E c \in Threads \ {t, Main} :
           /\ c = child[t] /\ pc[t] = "launch" /\ pc[c] = "alloc"
           /\ pc' = [u \in Threads |->
                      IF u = t THEN "await" ELSE IF u = c THEN "reg" ELSE pc[u]]
           /\ UNCHANGED <<child, threadNum, lpc>>
  <1>1. child[t] \in Threads \ {t, Main} /\ pc[t] = "launch" /\ pc[child[t]] = "alloc"
    BY DEF EInv, ExitTypeOK, StartersHaveChildren, ExitersAreCounted, Launch
  <1>2. pc \in [Threads -> Pcs]
    BY DEF EInv, ExitTypeOK
  <1>3. pc' = [u \in Threads |->
                 IF u = t THEN "await" ELSE IF u = child[t] THEN "reg" ELSE pc[u]]
    BY <1>1, <1>2 DEF Launch
  <1> QED BY <1>1, <1>3 DEF Launch, endVars

-----------------------------------------------------------------------------
(* A step of a thread that is not on the exit path keeps the variables in  *)
(* their ranges and every started thread with its starter.                 *)
LEMMA WorksStarters ==
  ASSUME EInv, NEW t \in Threads, Mutator(t)
  PROVE  /\ pc' \in [Threads -> Pcs]
         /\ child' \in [Threads -> Threads \union {NoThread}]
         /\ lpc' = lpc
         /\ StartersHaveChildren'
  <1>0. /\ pc \in [Threads -> Pcs]
        /\ child \in [Threads -> Threads \union {NoThread}]
        /\ StartersHaveChildren
    BY DEF EInv, ExitTypeOK
  <1> DEFINE Goal == /\ pc' \in [Threads -> Pcs]
                     /\ child' \in [Threads -> Threads \union {NoThread}]
                     /\ lpc' = lpc
                     /\ StartersHaveChildren'
  <1>1. CASE Moves(t)
    BY <1>0, <1>1 DEF Moves, StartersHaveChildren
  <1>2. ASSUME NEW c \in Threads, Start0(t, c) PROVE Goal
    BY <1>0, <1>2, StartPc, SMTT(30) DEF StartersHaveChildren
  <1>3. CASE Launch(t)
    <2>1. PICK c \in Threads \ {t, Main} :
            /\ c = child[t] /\ pc[t] = "launch" /\ pc[c] = "alloc"
            /\ pc' = [u \in Threads |->
                       IF u = t THEN "await" ELSE IF u = c THEN "reg" ELSE pc[u]]
            /\ UNCHANGED <<child, threadNum, lpc>>
      BY <1>3, CreatePc
    <2> QED BY <1>0, <2>1, SMTT(30) DEF StartersHaveChildren
  <1>4. CASE AwaitFirstWait(t)
    BY <1>0, <1>4, SMTT(30) DEF AwaitFirstWait, StartersHaveChildren, endVars
  <1>5. CASE CountDown(t)
    BY <1>0, <1>5 DEF CountDown, StartersHaveChildren, threadVars
  <1>6. CASE Die(t)
    BY <1>0, <1>6 DEF Die, StartersHaveChildren, endVars
  <1> QED BY <1>1, <1>2, <1>3, <1>4, <1>5, <1>6, MutatorMoves

(* Such a step changes the set of the counted threads only in start0, which *)
(* adds one, and in CountDown, which removes one; thread_num follows.      *)
LEMMA WorksCounted ==
  ASSUME EInv, NEW t \in Threads, Mutator(t)
  PROVE  \/ Counted' = Counted /\ threadNum' = threadNum
         \/ \E c \in Threads : /\ t \in Counted \union {Main}
                               /\ pc[t] = "run"
                               /\ c \notin Counted
                               /\ Counted' = Counted \union {c}
                               /\ threadNum' = threadNum + 1
         \/ /\ t \in Counted
            /\ Counted' = Counted \ {t}
            /\ threadNum' = threadNum - 1
  <1>0. pc \in [Threads -> Pcs] /\ ExitersAreCounted
    BY DEF EInv, ExitTypeOK
  <1>1. ASSUME Moves(t) PROVE Counted' = Counted /\ threadNum' = threadNum
    BY <1>0, <1>1, SMTT(30) DEF Moves, Counted
  <1>2. ASSUME NEW c \in Threads, Start0(t, c)
        PROVE  /\ t \in Counted \union {Main} /\ pc[t] = "run" /\ c \notin Counted
               /\ Counted' = Counted \union {c} /\ threadNum' = threadNum + 1
    BY <1>0, <1>2, StartPc, SMTT(30) DEF Counted
  <1>3. ASSUME Launch(t) PROVE Counted' = Counted /\ threadNum' = threadNum
    <2>1. PICK c \in Threads \ {t, Main} :
            /\ c = child[t] /\ pc[t] = "launch" /\ pc[c] = "alloc"
            /\ pc' = [u \in Threads |->
                       IF u = t THEN "await" ELSE IF u = c THEN "reg" ELSE pc[u]]
            /\ UNCHANGED <<child, threadNum, lpc>>
      BY <1>3, CreatePc
    <2> QED BY <1>0, <2>1, SMTT(30) DEF Counted
  <1>4. ASSUME AwaitFirstWait(t) PROVE Counted' = Counted /\ threadNum' = threadNum
    BY <1>0, <1>4 DEF AwaitFirstWait, Counted, endVars
  <1>5. ASSUME CountDown(t)
        PROVE  t \in Counted /\ Counted' = Counted \ {t} /\ threadNum' = threadNum - 1
    BY <1>0, <1>5, SMTT(30) DEF CountDown, Counted, ExitersAreCounted
  <1>6. ASSUME Die(t) PROVE Counted' = Counted /\ threadNum' = threadNum
    BY <1>0, <1>6 DEF Die, Counted, endVars
  <1> QED BY <1>1, <1>2, <1>3, <1>4, <1>5, <1>6, MutatorMoves

(* Such a step leaves the place of every other thread that is in its java  *)
(* program or dead, and the main thread among those it may be in.          *)
LEMMA WorksOthers ==
  ASSUME EInv, NEW t \in Threads, Mutator(t)
  PROVE  /\ \A u \in Threads \ {t} : pc[u] \in {"run", "dead"} => pc'[u] = pc[u]
         /\ pc[t] # "dead"
         /\ pc'[Main] \notin {"none", "alloc", "count", "xcount", "xdie"}
  <1>0. pc \in [Threads -> Pcs] /\ ExitersAreCounted
    BY DEF EInv, ExitTypeOK
  <1> USE <1>0 DEF ExitersAreCounted
  <1>1. CASE Moves(t)
    BY <1>1 DEF Moves
  <1>2. CASE \E c \in Threads : Start0(t, c)
    BY <1>2, StartPc
  <1>3. CASE Launch(t)
    BY <1>3, CreatePc
  <1>4. CASE AwaitFirstWait(t)
    BY <1>4 DEF AwaitFirstWait
  <1>5. CASE CountDown(t)
    BY <1>5 DEF CountDown
  <1>6. CASE Die(t)
    BY <1>6 DEF Die
  <1> QED BY <1>1, <1>2, <1>3, <1>4, <1>5, <1>6, MutatorMoves

(* thread_num stays exact, and nothing is counted any more once the        *)
(* launcher has seen it zero.                                              *)
LEMMA WorksExiters ==
  ASSUME EInv, NEW t \in Threads, Works(t)
  PROVE  threadNum' \in Nat /\ ExitersAreCounted'
  <1>0. EInv /\ ExitTypeOK /\ ExitersAreCounted /\ IsFiniteSet(Counted)
    BY FS_Subset DEF EInv, Counted
  <1>1. Mutator(t) /\ epc[t] = "none" /\ epc' = epc
    BY DEF Works
  <1>2. threadNum' = Cardinality(Counted') /\ threadNum' \in Nat
    <2>1. threadNum = Cardinality(Counted) /\ threadNum \in Nat
      BY <1>0 DEF ExitersAreCounted, ExitTypeOK
    <2>2. ASSUME NEW c \in Threads, c \notin Counted,
                 Counted' = Counted \union {c}, threadNum' = threadNum + 1
          PROVE  threadNum' = Cardinality(Counted') /\ threadNum' \in Nat
      <3>1. Cardinality(Counted \union {c}) = Cardinality(Counted) + 1
        BY <1>0, <2>2, FS_AddElement
      <3> QED BY <2>1, <2>2, <3>1
    <2>3. ASSUME t \in Counted, Counted' = Counted \ {t}, threadNum' = threadNum - 1
          PROVE  threadNum' = Cardinality(Counted') /\ threadNum' \in Nat
      <3>1. Cardinality(Counted \ {t}) = Cardinality(Counted) - 1
        BY <1>0, <2>3, FS_RemoveElement
      <3>2. Cardinality(Counted \ {t}) \in Nat
        BY <1>0, FS_RemoveElement, FS_CardinalityType
      <3> QED BY <2>1, <2>3, <3>1, <3>2
    <2> QED BY <1>0, <1>1, <2>1, <2>2, <2>3, WorksCounted
  <1>3. \A u \in Threads : epc'[u] \notin {"none", "gone"} => pc'[u] = "run"
    BY <1>0, <1>1, WorksOthers DEF ExitersAreCounted
  <1>4. pc'[Main] \notin {"none", "alloc", "count", "xcount", "xdie"}
    BY <1>0, <1>1, WorksOthers
  <1>5. lpc' = lpc
    BY <1>0, <1>1, WorksStarters
  <1>6. lpc # "join" => t # Main
    BY <1>0, <1>1, WorksOthers DEF ExitersAreCounted
  <1>7. lpc' # "join" => pc'[Main] = "dead" \/ epc'[Main] = "gone"
    BY <1>0, <1>1, <1>5, <1>6, WorksOthers DEF ExitersAreCounted
  <1>8. lpc' \in {"cancel", "joinGc", "end"} => Counted' = {}
    <2> SUFFICES ASSUME lpc \in {"cancel", "joinGc", "end"} PROVE Counted' = {}
      BY <1>5
    <2>1. Counted = {} /\ t # Main
      BY <1>0, <1>6 DEF ExitersAreCounted
    <2> QED BY <1>0, <1>1, <2>1, WorksCounted
  <1> QED BY <1>2, <1>3, <1>4, <1>7, <1>8 DEF ExitersAreCounted

-----------------------------------------------------------------------------
(* The launcher passes its wait for thread_num only when nobody is counted. *)
LEMMA LaunchesStep ==
  ASSUME EInv, Launches
  PROVE  EInv'
  <1>1. UNCHANGED <<pc, child, threadNum, epc>>
    BY DEF Launches, exitVars, Launcher, JoinMain, SignalAllPatch, SpinThreadNum,
           CancelGc, JoinGcAndEnd, JoinCancelledMain, threadVars
  <1>2. Counted' = Counted /\ IsFiniteSet(Counted)
    BY <1>1, FS_Subset DEF Counted
  <1>3. StartersHaveChildren'
    BY <1>1 DEF EInv, StartersHaveChildren
  <1>4. lpc' \in LPcs
    BY DEF EInv, ExitTypeOK, Launches, Launcher, JoinMain, SignalAllPatch,
           SpinThreadNum, CancelGc, JoinGcAndEnd, JoinCancelledMain
  <1>5. lpc' # "join" => pc[Main] = "dead" \/ epc[Main] = "gone"
    BY DEF EInv, ExitersAreCounted, Launches, Launcher, JoinMain, SignalAllPatch,
           SpinThreadNum, CancelGc, JoinGcAndEnd, JoinCancelledMain
  <1>6. lpc' \in {"cancel", "joinGc", "end"} => Counted = {}
    <2>1. CASE SpinThreadNum
      BY <1>2, <2>1, FS_EmptySet DEF SpinThreadNum, EInv, ExitersAreCounted
    <2>2. CASE JoinMain \/ SignalAllPatch \/ CancelGc \/ JoinGcAndEnd \/ JoinCancelledMain
      BY <2>2 DEF EInv, ExitersAreCounted, JoinMain, SignalAllPatch, CancelGc,
                  JoinGcAndEnd, JoinCancelledMain
    <2> QED BY <2>1, <2>2 DEF Launches, Launcher
  <1> QED BY <1>1, <1>2, <1>3, <1>4, <1>5, <1>6
          DEF EInv, ExitTypeOK, ExitersAreCounted

(* The other steps: of a thread on its way out or cancelled, which stays   *)
(* where it is in its java program, and of the collector.                  *)
LEMMA ExitStep ==
  ASSUME EInv, NEW t \in Threads,
         Halt(t) \/ Cancelled(t) \/ CancelledInWait(t) \/ Exits(t)
  PROVE  EInv'
  <1>1. UNCHANGED <<pc, child, threadNum, lpc>>
    BY DEF Halt, Cancelled, CancelledInWait, Exits, TakeLock, Look, Cancel,
           Unlock, CancelGcThread, ExitProcess, vars, threadVars, endVars
  <1>2. \E l \in Epcs : epc' = [epc EXCEPT ![t] = l]
    BY DEF EInv, ExitTypeOK, Halt, Cancelled, CancelledInWait, Exits, TakeLock,
           Look, Cancel, Unlock, CancelGcThread, ExitProcess, In, Exit
  <1>3. epc[t] # "gone"
    BY DEF Halt, Cancelled, CancelledInWait, Exits, TakeLock, Look, Cancel,
           Unlock, CancelGcThread, ExitProcess, In
  <1>4. epc'[t] = "gone" \/ pc[t] = "run"
    BY DEF EInv, ExitTypeOK, ExitersAreCounted, Halt, Cancelled, CancelledInWait,
           Exits, TakeLock, Look, Cancel, Unlock, CancelGcThread, ExitProcess,
           In, Exit
  <1>5. Counted' = Counted
    BY <1>1 DEF Counted
  <1>6. ExitTypeOK'
    BY <1>1, <1>2 DEF EInv, ExitTypeOK
  <1>7. StartersHaveChildren'
    BY <1>1 DEF EInv, StartersHaveChildren
  <1>8. ExitersAreCounted'
    BY <1>1, <1>2, <1>3, <1>4, <1>5 DEF EInv, ExitTypeOK, ExitersAreCounted
  <1> QED BY <1>6, <1>7, <1>8 DEF EInv

LEMMA CollectsStep ==
  ASSUME EInv, Collects
  PROVE  EInv'
  <1>1. UNCHANGED <<pc, child, threadNum, lpc, epc>>
    BY DEF Collects, exitVars, Collector, GcWait, GcDetect, GcScan, GcScanDone,
           GcFinish, GcResume, threadVars, endVars
  <1> QED BY <1>1 DEF EInv, ExitTypeOK, StartersHaveChildren, ExitersAreCounted,
                      Counted

-----------------------------------------------------------------------------
(* The invariant holds initially ...                                       *)
LEMMA EInvInit == ShutdownInit => EInv
  <1> SUFFICES ASSUME ShutdownInit PROVE EInv
    OBVIOUS
  <1>1. Counted = {}
    BY DEF ShutdownInit, Init, Counted
  <1> QED BY <1>1, FS_EmptySet
          DEF ShutdownInit, Init, EInv, ExitTypeOK, StartersHaveChildren,
              ExitersAreCounted

(* ... and every step preserves it.                                        *)
LEMMA EInvStep == EInv /\ [ShutdownNext]_allVars => EInv'
  <1> SUFFICES ASSUME EInv, [ShutdownNext]_allVars PROVE EInv'
    OBVIOUS
  <1>1. ASSUME NEW t \in Threads, Works(t) PROVE EInv'
    <2>1. Mutator(t) /\ epc' = epc
      BY <1>1 DEF Works
    <2> QED BY <1>1, <2>1, WorksStarters, WorksExiters DEF EInv, ExitTypeOK
  <1>2. CASE UNCHANGED allVars
    BY <1>2 DEF allVars, vars, exitVars, threadVars, endVars, EInv, ExitTypeOK,
                StartersHaveChildren, ExitersAreCounted, Counted
  <1> QED BY <1>1, <1>2, ExitStep, CollectsStep, LaunchesStep DEF ShutdownNext

(* A thread on the exit path is in its java program: it is counted, or it  *)
(* is the main thread, which the launcher has joined.                      *)
LEMMA EInvEndsAlone == EInv => LauncherEndsAlone
  BY DEF EInv, ExitersAreCounted, LauncherEndsAlone, Counted

(* LauncherEndsAlone: the launcher cancels the collector and frees the     *)
(* heap (vm_thread::launch) only when no thread is on the exit path        *)
(* (main_thread_exception), which would do both again.                     *)
THEOREM EndsAlone == ShutdownSpec => []LauncherEndsAlone
  <1>1. ShutdownSpec => ShutdownInit /\ [][ShutdownNext]_allVars
    BY PTL DEF ShutdownSpec
  <1>2. ShutdownInit /\ [][ShutdownNext]_allVars => []EInv
    BY EInvInit, EInvStep, PTL
  <1> QED BY <1>1, <1>2, EInvEndsAlone, PTL
=============================================================================
