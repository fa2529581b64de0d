------------------------------- MODULE Frames -------------------------------
(***************************************************************************)
(* The frames of one java thread: calls of java and native methods, the    *)
(* monitors of synchronized methods, calls back from natives, <clinit>s,   *)
(* and the way of an exception through them.                               *)
(*                                                                         *)
(* BytecodeEngine::execute is recursive: a call pushes a StackFrame and    *)
(* calls execute again.  There is one pc per thread, which each call saves *)
(* and restores.  An exception without a handler in its frame is returned  *)
(* to the caller like a value; the mark has_exception in the caller's      *)
(* frame tells it apart.                                                   *)
(*                                                                         *)
(* The program is arbitrary, within what javac produces: a frame that owns *)
(* a monitor by monitorenter catches everything and leaves it before it    *)
(* returns.                                                                *)
(***************************************************************************)
EXTENDS Naturals, Sequences

CONSTANTS Exceptions,    \* the throwable classes a handler tells apart
          None,          \* no exception
          ClinitsThrow,  \* whether a <clinit> may complete abruptly
          MaxDepth,      \* bound: frames that calls push
          MaxLocks       \* bound: monitors one frame enters

ASSUME FramesAssumption ==
  /\ None \notin Exceptions
  /\ ClinitsThrow \in BOOLEAN
  /\ MaxDepth \in Nat \ {0}
  /\ MaxLocks \in Nat

VARIABLES frames,     \* vm_thread::vm_stack, the current frame last
          pc,         \* vm_thread::pc: whose code it points into, 0 = nullptr
          monitorNum, \* vm_thread::monitor_num
          exc,        \* the exception at exception_handler in the top frame
          status      \* "alive", "done", "uncaught", or "aborted" by an assert

vars == <<frames, pc, monitorNum, exc, status>>

(* site: where the call was made, that is, who gets what it returns.       *)
(* catches: the exceptions for which the exception table has a handler at  *)
(* the frame's current instruction.  ret: the pc saved by the call.        *)
(* pending: what a native will return as an exception.  base: history, the *)
(* monitors owned when the call began.                                     *)
Frame == [kind    : {"java", "native"},
          site    : {"bottom", "invoke", "native", "clinit", "dispatch"},
          sync    : BOOLEAN,
          catches : SUBSET Exceptions,
          locks   : 0 .. MaxLocks,
          mark    : BOOLEAN,
          pending : Exceptions \union {None},
          ret     : Nat,
          base    : Nat]

-----------------------------------------------------------------------------
Depth == Len(frames)

Cur == frames[Depth]

Owned(f) == f.locks + (IF f.sync THEN 1 ELSE 0)

NewFrame(kind, site, sync, ret) ==
  [kind |-> kind, site |-> site, sync |-> sync, catches |-> {}, locks |-> 0,
   mark |-> FALSE, pending |-> None, ret |-> ret, base |-> monitorNum]

Popped == SubSeq(frames, 1, Depth - 1)

(* The frames with f instead of the n-th.                                  *)
With(s, n, f) == [s EXCEPT ![n] = f]

Marked(f) == [f EXCEPT !.mark = TRUE]

Unmarked(f) == [f EXCEPT !.mark = FALSE]

Running(kind) ==
  status = "alive" /\ exc = None /\ Cur.kind = kind

(* The exception table at the current instruction has handlers for c; in a *)
(* synchronized block, and in a <clinit> that must not throw, for all.     *)
Covers(c) ==
  Cur.locks > 0 \/ (Cur.site = "clinit" /\ ~ClinitsThrow) => c = Exceptions

-----------------------------------------------------------------------------
(* invokeVirtual and invokeStatic: the monitor of a synchronized method,   *)
(* then a frame; a native runs with pc = 0.                                *)
InvokeAs(kind, sync, c, newPc) ==
  /\ Running("java")
  /\ Depth < MaxDepth
  /\ Covers(c)
  /\ frames' = Append(With(frames, Depth, [Cur EXCEPT !.catches = c]),
                      NewFrame(kind, "invoke", sync, pc))
  /\ pc' = newPc
  /\ monitorNum' = monitorNum + (IF sync THEN 1 ELSE 0)
  /\ UNCHANGED <<exc, status>>

InvokeJava(sync, c) == InvokeAs("java", sync, c, Depth + 1)

InvokeNative_KeepsPc(sync, c) == InvokeAs("native", sync, c, pc)

InvokeNative(sync, c) == InvokeAs("native", sync, c, 0)

(* add_frame_and_execute: no monitor is taken, not even for a synchronized *)
(* method.  initial_clinit calls it for <clinit>, natives for run(),       *)
(* constructors and methods invoked by reflection.                         *)
AddFrame_Synchronized(site) ==
  /\ Depth < MaxDepth
  /\ frames' = Append(frames, NewFrame("java", site, FALSE, pc))
  /\ pc' = Depth + 1
  /\ monitorNum' = monitorNum + 1
  /\ UNCHANGED <<exc, status>>

AddFrame(site) ==
  /\ Depth < MaxDepth
  /\ frames' = Append(frames, NewFrame("java", site, FALSE, pc))
  /\ pc' = Depth + 1
  /\ UNCHANGED <<monitorNum, exc, status>>

InitialClinit == Running("java") /\ AddFrame("clinit")

CallBack == Running("native") /\ Cur.pending = None /\ AddFrame("native")

(* native_throw_Exception: the frame below is marked and the constructor   *)
(* of the exception executed; the native then returns the exception.       *)
NativeThrow(e) ==
  /\ Running("native")
  /\ Cur.pending = None
  /\ Depth < MaxDepth
  /\ LET below  == With(frames, Depth - 1, Marked(frames[Depth - 1]))
         native == [Cur EXCEPT !.pending = e]
     IN frames' = Append(With(below, Depth, native),
                         NewFrame("java", "native", FALSE, pc))
  /\ pc' = Depth + 1
  /\ UNCHANGED <<monitorNum, exc, status>>

MonitorEnter ==
  /\ Running("java")
  /\ Cur.locks < MaxLocks
  /\ frames' = With(frames, Depth, [Cur EXCEPT !.locks = @ + 1])
  /\ monitorNum' = monitorNum + 1
  /\ UNCHANGED <<pc, exc, status>>

MonitorExit ==
  /\ Running("java")
  /\ Cur.locks > 0
  /\ frames' = With(frames, Depth, [Cur EXCEPT !.locks = @ - 1])
  /\ monitorNum' = monitorNum - 1
  /\ UNCHANGED <<pc, exc, status>>

-----------------------------------------------------------------------------
(* The unsynchronization after a call.                                     *)
Released_NotWhenThrown ==
  monitorNum' = IF Cur.sync /\ ~frames[Depth - 1].mark /\ exc = None
                THEN monitorNum - 1 ELSE monitorNum

Released_Always == monitorNum' = monitorNum - 1

Released == monitorNum' = IF Cur.sync THEN monitorNum - 1 ELSE monitorNum

(* The code after invokeVirtual and invokeStatic: in a marked frame what   *)
(* was returned has to be an exception, which is thrown on here.           *)
AfterInvoke_KeepsMark(r, marked) ==
  LET caller == frames[Depth - 1]
  IN \/ /\ ~caller.mark /\ ~marked
        /\ frames' = Popped
        /\ exc' = None
        /\ UNCHANGED status
     \/ /\ caller.mark \/ marked
        /\ frames' = With(Popped, Depth - 1, Marked(caller))
        /\ exc' = r
        /\ status' = IF r = None THEN "aborted" ELSE status

AfterInvoke(r, marked) ==
  LET caller == frames[Depth - 1]
  IN \/ /\ ~caller.mark /\ ~marked
        /\ frames' = Popped
        /\ exc' = None
        /\ UNCHANGED status
     \/ /\ caller.mark \/ marked
        /\ frames' = With(Popped, Depth - 1, Unmarked(caller))
        /\ exc' = r
        /\ status' = IF r = None THEN "aborted" ELSE status

(* The end of the thread: in its first frame, or when                      *)
(* dispatchUncaughtException is over.                                      *)
EndThread ==
  /\ status' = IF Cur.site = "bottom" THEN "done" ELSE "uncaught"
  /\ UNCHANGED exc

(* A return of the current frame; r is the exception object it returns, if *)
(* what it returns is one.  Whoever called add_frame_and_execute goes on.  *)
Return(r) ==
  /\ Running("java")
  /\ Cur.locks = 0
  /\ pc' = Cur.ret
  /\ Released
  /\ \/ /\ Cur.site \in {"bottom", "dispatch"}
        /\ EndThread
        /\ UNCHANGED frames
     \/ /\ Cur.site = "invoke"
        /\ AfterInvoke(r, FALSE)
     \/ /\ Cur.site \in {"native", "clinit"}
        /\ frames' = Popped
        /\ UNCHANGED <<exc, status>>

(* A native returns a value, or the exception it has made.                 *)
NativeReturn ==
  /\ Running("native")
  /\ pc' = Cur.ret
  /\ Released
  /\ AfterInvoke(Cur.pending, FALSE)

-----------------------------------------------------------------------------
(* athrow, at an instruction with handlers for c.                          *)
Throw(e, c) ==
  /\ Running("java")
  /\ Covers(c)
  /\ exc' = e
  /\ frames' = With(frames, Depth, [Cur EXCEPT !.catches = c])
  /\ UNCHANGED <<pc, monitorNum, status>>

Thrown == status = "alive" /\ exc # None

(* where_is_catch finds a handler in this frame.                           *)
Handle ==
  /\ Thrown
  /\ exc \in Cur.catches
  /\ exc' = None
  /\ UNCHANGED <<frames, pc, monitorNum, status>>

(* No handler here: the caller's frame is marked and gets the exception    *)
(* for a result.  The code after an invocation clears the mark and throws  *)
(* on; initial_clinit and natives go on as if nothing had happened.        *)
Unwind_Unmarked ==
  /\ Thrown
  /\ exc \notin Cur.catches
  /\ Depth > 1
  /\ pc' = Cur.ret
  /\ Released
  /\ \/ /\ Cur.site = "invoke"
        /\ AfterInvoke(exc, FALSE)
     \/ /\ Cur.site = "dispatch"
        /\ EndThread
        /\ frames' = With(frames, Depth - 1, Marked(frames[Depth - 1]))
     \/ /\ Cur.site \in {"native", "clinit"}
        /\ frames' = With(Popped, Depth - 1, Marked(frames[Depth - 1]))
        /\ exc' = None
        /\ UNCHANGED status

Unwind_AboveTwo ==
  /\ Thrown
  /\ exc \notin Cur.catches
  /\ Depth > 2
  /\ pc' = Cur.ret
  /\ Released
  /\ \/ /\ Cur.site = "invoke"
        /\ AfterInvoke(exc, TRUE)
     \/ /\ Cur.site = "dispatch"
        /\ EndThread
        /\ frames' = With(frames, Depth - 1, Marked(frames[Depth - 1]))
     \/ /\ Cur.site \in {"native", "clinit"}
        /\ frames' = With(Popped, Depth - 1, Marked(frames[Depth - 1]))
        /\ exc' = None
        /\ UNCHANGED status

Unwind ==
  /\ Thrown
  /\ exc \notin Cur.catches
  /\ Depth > 1
  /\ pc' = Cur.ret
  /\ Released
  /\ \/ /\ Cur.site = "invoke"
        /\ AfterInvoke(exc, TRUE)
     \/ /\ Cur.site = "dispatch"
        /\ EndThread
        /\ frames' = With(frames, Depth - 1, Marked(frames[Depth - 1]))
     \/ /\ Cur.site \in {"native", "clinit"}
        /\ frames' = With(Popped, Depth - 1, Marked(frames[Depth - 1]))
        /\ exc' = None
        /\ UNCHANGED status

(* An exception leaves the thread's first frame: dispatchUncaughtException *)
(* is executed on top of it, then the thread ends.                         *)
Uncaught ==
  /\ Thrown
  /\ exc \notin Cur.catches
  /\ Depth = 1
  /\ frames' = Append(frames, NewFrame("java", "dispatch", FALSE, Cur.ret))
  /\ pc' = Depth + 1
  /\ exc' = None
  /\ UNCHANGED <<monitorNum, status>>

-----------------------------------------------------------------------------
Init ==
  /\ frames = <<[kind |-> "java", site |-> "bottom", sync |-> FALSE,
                 catches |-> {}, locks |-> 0, mark |-> FALSE,
                 pending |-> None, ret |-> 1, base |-> 0]>>
  /\ pc = 1
  /\ monitorNum = 0
  /\ exc = None
  /\ status = "alive"

Next ==
  \/ \E sync \in BOOLEAN, c \in SUBSET Exceptions :
       InvokeJava(sync, c) \/ InvokeNative(sync, c)
  \/ InitialClinit
  \/ CallBack
  \/ \E e \in Exceptions : NativeThrow(e)
  \/ MonitorEnter
  \/ MonitorExit
  \/ \E r \in Exceptions \union {None} : Return(r)
  \/ NativeReturn
  \/ \E e \in Exceptions, c \in SUBSET Exceptions : Throw(e, c)
  \/ Handle
  \/ Unwind
  \/ Uncaught

Spec == Init /\ [][Next]_vars

(* A thread that has an exception at hand is executing the virtual         *)
(* machine's own code, which is scheduled.                                 *)
FairSpec == Spec /\ WF_vars(Handle \/ Unwind \/ Uncaught)

-----------------------------------------------------------------------------
(* Every variable has its type.                                            *)
TypeOK ==
  /\ frames \in Seq(Frame) \ {<<>>}
  /\ pc \in Nat
  /\ monitorNum \in Nat
  /\ exc \in Exceptions \union {None}
  /\ status \in {"alive", "done", "uncaught", "aborted"}

(* However a method is left - by a return, by an exception through java    *)
(* and native frames, by a native's exception - its thread owns as many    *)
(* monitors as when the method was called.                                 *)
MonitorsBalanced ==
  [][Len(frames') < Len(frames) => monitorNum' = frames[Len(frames)].base]_vars

(* A thread that ends, with or without an uncaught exception, owns no      *)
(* monitor: nobody waits for it for ever.                                  *)
NothingHeldAtEnd ==
  status \in {"done", "uncaught"} => monitorNum = 0

(* The one pc of the thread and the saved ones point into the code of the  *)
(* frame they belong to, and are null for natives: what get_stack_trace    *)
(* subtracts code addresses from.                                          *)
PcOf(i) == IF i = Depth THEN pc ELSE frames[i + 1].ret

PcsMatchFrames ==
  status \in {"alive", "aborted"} =>
    \A i \in DOMAIN frames :
      PcOf(i) = IF frames[i].kind = "java" THEN i ELSE 0

(* The mark of a java frame is set only on the way from a native that      *)
(* throws, under that native: java code never runs in a marked frame, and  *)
(* the asserts behind the invocations hold.                                *)
MarksAreConsumed ==
  status # "aborted" /\
  \A i \in DOMAIN frames :
    frames[i].kind = "java" /\ frames[i].mark =>
      \/ /\ i < Depth
         /\ frames[i + 1].kind = "native"
         /\ frames[i + 1].pending # None
      \/ status = "uncaught"

(* An exception at hand is handled in the innermost frame that has a       *)
(* handler, ends the thread or reaches a native that called back; it does  *)
(* not disappear, and it is not replaced by another.                       *)
NoExceptionLost ==
  [][exc # None /\ exc' # exc =>
       \/ exc \in Cur.catches
       \/ Cur.site \in {"bottom", "native"}]_vars

(* The asserts behind the invocations: what a marked frame finds on its    *)
(* operand stack is a Throwable.                                           *)
AssertsHold == status # "aborted"

(* Every exception comes to a handler, a native, or the end of the thread. *)
ExceptionsSettle == exc # None ~> exc = None \/ status # "alive"
=============================================================================
