# A TLA+ model of wind_jvm

wind_jvm is a small Java virtual machine in C++: a class file parser, class
loaders, a bytecode interpreter with one `pthread` per java thread, natives for
the JDK 8 class library, and a stop-the-world copying collector. This directory
holds TLA+ modules translated from its source, TLC configurations that check
them on small instances, and TLAPS proofs of what matters most.

Paths below are those of the repository (`src/runtime/gc.cpp`, ...).

    tlc -config MCSafepoint.cfg MCSafepoint      # check one configuration
    tlapm SafepointProofs.tla                    # check the proofs

## Inventory of the system

| Part | Source | State it keeps | Operations | Correct when |
|---|---|---|---|---|
| Threads, safepoints | `gc.cpp`, `thread.cpp`, `wind_jvm.cpp`, `java_lang_Thread.cpp` | `gc`, `inited`, the ThreadTable, each `vm_thread`'s state, `monitor_num` and `the_first_wait_executed`, one mutex and condition variable, `thread_num` | `start0`, first wait, safepoint poll, `detect_ready`, resume, thread end, `wind_jvm::end` | nobody runs bytecode while objects move; everybody resumes; memory is freed after the last thread |
| Locks, monitors | `utils/lock.*`, `utils/monitor.hpp`, `java_lang_Object.cpp` | a recursive mutex and a condition variable per object | enter, leave, wait, notify | mutual exclusion; no monitor held across a collection |
| Copying collector | `gc.cpp`, `oop.cpp` | old and new objects, `new_oop_map`, the pool, the roots | visit roots, copy, forward, swap the StringTable, delete the old pool | the reachable graph is preserved, nothing dangles, garbage is dropped |
| Exit path | `wind_jvm.cpp`, `bytecodeEngine.cpp` | the tables above | uncaught exception in main, SIGINT, `System.exit` | the process ends, no lock is orphaned |
| Interpreter | `bytecodeEngine.cpp` | frames, operand stacks, pc | the opcodes, invocation, return, throw | JVM semantics; monitors balanced |
| Class initialization | `bytecodeEngine.cpp` 388-414 | `InstanceKlass::state` | `initial_clinit` | initialised once, before use |
| Class loaders | `classloader.cpp`, `jarLister.cpp` | `system_classmap`, `classmap` | `loadClass`, array classes, delegation | one klass per name and loader; no deadlock |
| Klass linking | `klass.cpp`, `field.cpp`, `method.cpp` | field layouts, vtable, itable, method tables | layout, resolution, subtyping | offsets agree with superclasses; the most specific method is chosen |
| Constant pool | `constantpool.cpp` | `rt_pool` | lazy resolution | resolved once, to the right thing |
| Class parser | `class_parser.cpp`, `annotation.cpp` | the parsed file | read | the file's content |
| String table | `java_lang_String.cpp` | a set of strings | `intern`, hash | one object per content |
| Exceptions | `bytecodeEngine.cpp` 3505-3640, `method.cpp` | the frame stack | handler search, unwinding | the innermost handler; monitors released |
| Method handles | `java_lang_invoke_*.cpp` | `member_name_table`, call sites | link, invoke | the target is called |
| Unsafe | `sun_misc_Unsafe.cpp` | fields by offset | get, put, compare-and-swap, park | atomicity |
| Reflection, I/O, system natives | `src/native/*` | little | translate | as the JDK expects |

How they interact. The interpreter calls the natives through a table of
function pointers; natives call java code by pushing a frame and calling
`execute` recursively. All threads share the class maps, the StringTable, the
object pool, the ThreadTable and the collection request, each under a lock of
its own. At every entry of `execute` a thread that owns no monitor polls the
collection request; the collector thread waits until every registered thread is
stopped and then reads and writes the frames of all of them without a lock.

What is hard to test here: the order in which threads read `gc`, take
`_all_thread_wait_mutex` and block; a condition variable signalled when nobody
waits; threads that are created, start or end around a collection; pointers
replaced while they are walked; class initialization and constant pool
resolution without a lock; threads cancelled while they hold or wait for a
mutex. The full list, line by line, is under `hazards` in `PROJECT.json`.

## Modules and runs

| Module | Part | Builds on | Checked by | Proved in |
|---|---|---|---|---|
| `Safepoint` | threads, the stop of the world, the end of the process | | `MCSafepoint` | `SafepointProofs` |
| `Shutdown` | exit while other threads run | extends `Safepoint` | `MCShutdown` | `SafepointProofs` |
| `Collector` | what the collector does while the world is stopped | | `MCCollector` | `CollectorProofs` |
| `ClassInit` | `<clinit>` with several threads | | `MCClassInit` | `ClassInitProofs` |
| `Frames` | frames, exceptions, monitors, call backs | | `MCFrames` | `FramesProofs` |
| `ClassLoaders` | loaders, StringTable, constant pools with several threads | implements `ClassTable` | `MCClassLoaders` | `ClassLoadersProofs` |
| `Linking` | layouts, vtables, lookups | | `MCLinking` | `LinkingProofs` |
| `ClassFile` | the class file reader | | `MCClassFile` | `ClassFileProofs` |
| `Boxes` | operands, variables, fields, elements | implements `JavaMachine` | `MCBoxes` | `BoxesProofs` |
| `Arithmetic` | arithmetic and branches | | `MCArithmetic` | |

`ClassTable` and `JavaMachine` are abstract specifications; the detailed modules
name them with `INSTANCE ... WITH` and the runs check `Abstract!Spec` and
`Java!Spec` as properties.

| Run | Instance | Shows |
|---|---|---|
| `safepoint` | main, two threads, two monitors, three operations, collection at three threads | five safety properties of the stop and the end |
| `safepoint_live` | one monitor, two operations, collection at two threads | no thread unknown to the collector exists while it collects, a begun collection completes, `start0` returns |
| `safepoint_lost_broadcast` | as above, collection at three threads | violation: `system_gc` broadcasts without the mutex, a thread about to block misses it |
| `shutdown` | main, one thread, three operations | the heap is not freed twice, an exit ends the process or hangs in one of two named ways |
| `collector` | all heaps of three objects with up to two references | the graph is preserved, nothing dangles, garbage is dropped, the collection ends |
| `classinit` | two threads, a chain of three classes, two uses each | no recursion, one run per thread, the superclass has begun, every use returns |
| `frames` | four frames, two exceptions | monitors balanced, no exception lost, no mark left, saved pcs fit |
| `loaders` | two threads, seven classes, two requests | one table of classes and strings, everybody is answered but for one deadlock |
| `linking` | two classes and two interfaces over Object, seven bodies | layouts, field and method lookups, `instanceof` follow the language |
| `classfile` | tables of up to two entries | each structure is read to its last byte, annotation stubs are complete, the pool is released |
| `boxes` | two variables, one field, one element, two frames, ints and doubles | the machine of boxes implements the machine of values, for the programs described under *Boxes* |
| `arithmetic` | ints of 8 bits, longs of 16 | results are those of java where the code gets them right, every branch and switch but one label goes where java says |

One run expects a violation; its finding in `PROJECT.json` quotes the comment it
refutes. What else the code does differently is listed under *Known divergences*, with how to see it.

Every safety property of the passing runs but the two of `Arithmetic` is a
theorem, and so are both refinements (*Proved, checked, not modelled*).

## Safepoint

`Safepoint.tla` models the life of every java thread (`pc`), the collector
thread (`gcPc`) and the process's initial thread, the launcher (`lpc`). A step
is a section of code between two points at which another thread can interfere:
a lock that is taken and released without blocking in between is one step, a
lock held across a blocking point (`_all_thread_wait_mutex` around
`pthread_cond_wait`; `gc_lock` while `detect_ready` counts) is a variable or a
predicate (`waitMutex`, `GcLockFree`).

| Actions | Code |
|---|---|
| `Start0`, `Launch`, `AwaitFirstWait` | `JVM_StartThread`, `vm_thread::launch` |
| `Register`, `FirstWaitLock`, `FirstPark`, `FirstWake`, `Boot` | `scapegoat`, `add_a_thread`, `wait_cur_thread_and_set_bit`, `start` |
| `Entry`, `Poll`, `SignalOne`, `StopLock`, `Check`, `Park`, `Wake`, `Leave` | the top of `execute`, `set_safepoint_here`, `signal_one_thread`, `wait_cur_thread` |
| `Invoke`, `MonitorInc`, `MonitorEnter`, `MonitorExit`, `ObjectWait`, `Uncaught`, `Finish` | what the program does |
| `CountDown`, `Die` | the end of `vm_thread::start`, of `athrow` |
| `GcWait`, `GcDetect`, `GcScan`, `GcScanDone`, `GcFinish`, `GcResume` | `gc_thread`, `detect_ready`, `system_gc`, `signal_all_thread` |
| `JoinMain`, `SignalAllPatch`, `SpinThreadNum`, `CancelGc`, `JoinGcAndEnd` | `vm_thread::launch` for main, `wind_jvm::end` |

The program is arbitrary: a thread may call methods, enter and leave monitors,
wait on one, start a thread, finish or die of an exception, at most `MaxOps`
times (the only bound on behaviours). The interpreter is entered at its poll;
`detect_ready` reads the states one thread at a time, in any order, without the
mutex, as the code does. A ThreadTable entry may be replaced by a new thread
with the `pthread_t` of a dead one.

The code requests its one collection when three threads are in the table. With
that threshold a thread signalled before the request may sleep through it; it
takes three operations of main. With a threshold of two, as in `safepoint_live`,
a third thread may be on its way into the table. Two started threads are enough
for a starter, its child and a bystander, and for a table entry to be reused;
two monitors for a nested entry and a blocked one; three operations for a
collection requested while a monitor is held, a start and a call. Children are
symmetric in `safepoint`; the runs with liveness use no symmetry. The six safety
properties are also proved, for every threshold and any number of operations.

Fairness (`FairSpec`) is strong fairness of the steps of each thread, of the
collector and of the launcher. A preemptive scheduler runs every thread that is
not blocked, and a mutex that others release again and again is granted in the
end. A thread's program is part of its steps: it goes on, to a call or to its
end, and with the bounded number of operations every thread ends at last. That
a thread inside an endless loop without calls never polls, and blocks the
collection, is therefore assumed away.

Not in the model: spurious wake-ups. The lost request when the collector is not
yet waiting is modelled (`InitGc` moves the collector only from its wait); the
liveness property speaks of collections the collector has begun.

### Proofs

`SafepointProofs.tla` proves, for any finite set of threads, any monitors, any
threshold and any `MaxOps`, that the invariant `IInv` is inductive, and from it
six theorems: `TypeCorrect`, `StopsTheWorld`, `NoMonitorHeld`, `Registered`,
`EndIsSafe` and `ResumesAfterGc` (an action property). `IInv` adds to the safety
properties how the parties hang together: the published state matches the
place in the code (`StateMatchesPc`), the mutex has the owner the places say
(`MutexMatchesPc`), `monitor_num` counts the owned monitors
(`MonitorsCounted`), nobody is stopped before the request is made
(`RequestMatchesPcs`), a thread that has not reached its first wait has a
parent in `start0` (`StartersWait`), the table holds who has registered
(`TableMatchesPc`), and whom `detect_ready` has counted stays quiet while `gc`
is set (`CountedStayQuiet`) - the argument that reading the states one by one
without the mutex is enough - and `thread_num` is the number of started threads
that have not counted themselves down (`LauncherMatchesPcs`). The assumption is
`ConstantsAssumption`. Liveness is checked by TLC only.

## Collector

`Collector.tla` models `system_gc` with one step per visited pointer. The heap
is a sequence of objects, an address an index, allocation `Append`; an object is
the sequence of the references it holds. Root slots are visited in the code's
order (`Kind`); the recursion of the marker is the variable `stack`;
`new_oop_map` is the partial function `fwd`; `pool` is the set of objects that
are not deleted. When a string is put into the new StringTable its hash is
computed, and a string whose cached hash is 0 gets a newly allocated box
(`NextRoot`). `BootRead` and `BootPush` are the one thing `Safepoint` shows can
run meanwhile: a thread that pushes its bottom frame. `raced` records that it
read its argument on one side of the collector's visit of its frame and pushed
it on the other; the safety properties are claimed for all other schedules, in
which the start is harmless.

Three objects with two references have cycles, self-references, sharing, chains
of three and garbage; the five slots are a string, a klass's static field, a
thread's argument, its frame and its ThreadTable entry. `WF(GcStep)` is the
collector thread being scheduled; nothing in `system_gc` blocks.

`GarbageDropped` says "reachable" without recursion: the copied objects are
closed under references and contained in every closed set that contains the
roots. That makes it provable.

`CollectorProofs.tla` proves for every number of objects, every object graph and
every list of root slots: `TypeCorrect`, the invariant `CInv` inductive
(`MarkingCorrect`), and from it `NoDanglingReference`, `SameGraph` and
`KeepsTheReachable`. `CInv` says, of an unraced collection, that old objects are
never written, that `fwd` is injective into fresh addresses, that roots behind
the cursor and fields the marker has passed are forwarded while the others still
hold the old reference (`RootsForwarded`, `CopiesForwarded`), that each copy is
on the recursion stack at most once, and that only reachable objects are copied.
The assumption is `CollectorAssumption` (an argument slot is followed by its
thread's frame slot). Termination is checked by TLC only.

## ClassInit

`ClassInit.tla` models `initial_clinit` with one step per access to shared
state. `stack[t]` holds the thread's activations of `initial_clinit`; the
recursive call for the superclass and the uses of other classes by the code of a
`<clinit>` push one, `Return` pops one. `Use` stands for every caller:
`getstatic` and `putstatic` (of the class and of the field's type, two uses),
`invokestatic` and `invokespecial`, `new`, `ensureClassInitialized` and
`forName0`. The test of the state (`Test`) and its change (`SetInitializing`)
are two steps, because the code takes no lock. `HoldByHand` and `ReleaseByHand`
are the `set_state` calls of `init_and_do_main` for System, Debug, Perf and
PerfCounter.

Two threads race; the chain of three classes, one of them without `<clinit>`,
gives nested recursive calls; two uses per thread let a `<clinit>` use the class
being initialised or one of its relatives. `java.lang.Object` is initialised
before a second thread exists and is left out. That one class's `<clinit>` may
run on two threads is the code's behaviour; the properties count per thread.
`EveryUseReturns` assumes weak fairness of each thread's steps and that every
`<clinit>` ends; that no call of `initial_clinit` ever waits for another thread
is what makes it true, and what makes `ParentInitializedFirst` (below) false.

`ClassInitProofs.tla` proves five theorems for all threads, classes, superclass
relations and bounds: `TypeCorrect`, `RecursionIsCut`,
`RunsAtMostOncePerThread`, `ParentHasBegun` and `InitializedClassesAreRun`. The
invariant says of each thread's stack (`Good`): only the innermost activation
can be at the test, the others wait for a parent or for their `<clinit>`
(`Nested`); a class with an activation past the test is not NotInitialized
(`BegunMarked`), hence the test cuts every further recursion (`Distinct`); a
class whose `<clinit>` the thread has run has no activation on its way to run it
again (`RunsOnce`); above an activation that waits for its parent is the
parent's, and once it is gone the parent has begun (`ParentAwaited`,
`ParentBegun`). No step makes a class NotInitialized again, so the stacks of the
threads that do not move stay good (`GoodMonotone`). The assumption is
`ClassAssumption`.

## Frames

`Frames.tla` models the stack of one thread; no other thread touches it while
the thread runs. `frames` is `vm_thread::vm_stack`; a frame's `site` tells who
gets its result: the code after an invocation, a native that called
`add_frame_and_execute`, `initial_clinit`, the end of the thread, or the caller
of `dispatchUncaughtException`. `pc` says in whose code `vm_thread::pc` points
(the index of a java frame, 0 for a null pointer), `ret` what a call saved.
`exc` is the exception at the label `exception_handler` of the top frame.

| Actions | Code |
|---|---|
| `InvokeJava`, `InvokeNative` | `invokeVirtual`, `invokeStatic` |
| `InitialClinit`, `CallBack`, `NativeThrow` | `add_frame_and_execute` from `initial_clinit`, from natives, from `native_throw_Exception` |
| `MonitorEnter`, `MonitorExit` | the two opcodes |
| `Return`, `NativeReturn` with `Released` and `AfterInvoke` | the return opcodes, the unsynchronization, the code behind the invocations |
| `Throw`, `Handle`, `Unwind`, `Uncaught` | `athrow` |

Which exceptions the current instruction has handlers for (`catches`) is the
program's choice at each call and throw, limited by what javac guarantees: a
frame that owns a monitor by `monitorenter` has a handler for everything and
leaves it before it returns (`Covers`, the guard of `Return`).
`invokedynamic` and the internal calls of the method handle natives are left
out.

Four frames are a first method, a call, a native and its call back, with the
constructor of a native's exception and `dispatchUncaughtException` as the
frame on top; two exceptions tell a handler that fits from one that does not.
In the run a `<clinit>` does not throw (`ClinitsThrow = FALSE`). `FairSpec` lets the virtual machine's own code go on while there is an
exception; the program may stop. The claim of `NoExceptionLost` ends at a native
that called back: doPrivileged, `Method.invoke` and `newInstance` receive the
exception as a result and decide by themselves.

`FramesProofs.tla` proves for any set of exceptions, any depth and any number of
monitors per frame: `TypeCorrect`, `BalancedMonitors`, `EndsWithNothing` and
`PcsRight`, also when `<clinit>`s throw; `MarksDoNotStay` and `ExceptionsStay`
under the hypothesis that none does, which is needed (*Known divergences*). The invariant `IInv` links each frame
with the one it called (`Link`): `base`, a history variable, adds up the
monitors below; the saved pc is the caller's; a native's result goes to the code
after an invocation, and only a native is called back to. Lemmas about
sequences (`ChainPush`, `ChainPop`, `ChainTop`, `ChainAlike`) carry the links
through the changes of the stack, so that each action needs only the facts about
its own frame. A second invariant, `MInv`, excuses each marked java frame by a
native above it that is throwing. The assumption is `FramesAssumption`;
`ExceptionsSettle` is checked by TLC only.

## Shutdown

`Shutdown.tla` extends `Safepoint` by the exit path and re-uses its actions:
`Works` is any step of a thread there, `Collects` and `Launches` those of the
collector and the launcher. A thread that calls `System.exit`, or whose
exception leaves `main`, goes through `main_thread_exception` (`Halt`,
`TakeLock`, `Look`, `Cancel`, `Unlock`), `cancel_gc_thread`
(`CancelGcThread`) and `wind_jvm::end` with `exit` (`ExitProcess`). A thread
with a request of `pthread_cancel` may go on until it reaches a cancellation
point (`Cancelled`); one that waits for a condition first gets the mutex back
and never gives it up (`CancelledInWait`).

`LauncherEndsAlone`: the launcher does not free the heap a second time, although
the cancelled `main` ends its `pthread_join`, because the thread that exits is
still counted in `thread_num`. `ExitEnds`: an exit ends the process unless the
wait mutex stays with a dead waiter or the request of a collection stays; these
two hangs are real (`ExitAlwaysEnds` is violated).

Two threads with three operations are enough for a waiter that is cancelled
before the loop has ended and for a request that stays. Three threads, one of
them half way through `start0`, were explored with one operation (25,744
states) and, for the safety property, with two (877,947 states); these take
longer than the run should. Fairness is strong for every thread and actor: a
mutex is granted in the end to a thread that asks again and again. Nobody has
to exit, and no thread has to reach a cancellation point.

The last part of `SafepointProofs.tla` proves `LauncherEndsAlone` for any threads,
monitors, threshold and `MaxOps` (`EndsAlone`). The invariant `IInv` of `Safepoint`
does not hold here: a cancelled thread dies in the middle of the protocol, with
the mutex, a monitor or a published state that no place in the code accounts
for. `EInv` is what survives: the types of the places and of the requests
(`ExitTypeOK`), that a thread on its way through `start0` has the child to
itself (`StartersHaveChildren`), and that `thread_num` is the number of threads
that have been started and have not counted themselves down, those that exit or
were cancelled included (`ExitersAreCounted`). The steps of `Safepoint` fall into
those that only move a thread between places that count alike (`Moves`) and
four that start or end one, so each is treated once. TLC checks `EInv` on the
instance of the run and on the two larger ones above.

## ClassLoaders and ClassTable

`ClassLoaders.tla` models `BootStrapClassLoader` and `MyClassLoader` with their
maps and recursive locks, the natives and instructions that ask them (`Request`
has one action for each), `java_lang_string::intern` with the StringTable, and
the lazily resolved entries of one run-time constant pool. `loadClass` calls
itself, for the superclass, the superinterfaces, the element of an array and the
array of one dimension less, so each thread has a stack of calls (`stack`), and
each call is cut where another thread can interfere: at the lock, at each nested
call, at each access to the pool's pair. A name is a record of its dimension, its
base and its form (with dots, cut or bare), because the code spells names
differently in different places and that decides what is found.

`ClassTable.tla` is what all this promises: a table in which each class and each
string appears once, after what it needs, and from which every answer comes.
`ImplementsClassTable` is the refinement: what was made is numbered (`made`), and
the table has, for each thing, the first that was made under its name (`First`,
`Table`), whichever map of the code it is in. The table is read off `made` and
not off the maps, so a second copy in another map, or under another key, is not
hidden. `LoadsReturn` says that everybody is answered.

Two threads race for a class, its array and a string; `Circle` needs `Shape`, so
that one load waits in another; the anonymous class `Lambda` is defined twice.
`MaxRequests` = 2 makes any two requests meet at every point. The one deadlock,
of `findLoadedClass` with a load by `MyClassLoader`, is named (`Deadlocked`) and excepted in `LoadsReturn`; `LoadsAlwaysReturn`
without the exception is violated. The listing of `rt.jar` and the directory are
constants, and class files are legal.

Fairness is weak for each thread's steps (not its requests): a thread that does
not wait for a lock runs on. That suffices for the locks, because with a bounded
number of requests the other threads stop taking them.

**Proof.** `ClassLoadersProofs` proves the refinement for any threads, classes,
superclasses, dimensions of arrays, strings, constant pools and number of
requests (`LoadersImplementTable`). The invariant is `TableInv`: the maps and
`made` agree (`MapsOK`: each class is in the map of its loader, once and under its
name; an interned string is the first of its content), a pair of the pool is empty
or right (`PoolOK`), a lock's depth is the number of calls of its owner that have
taken it (`LocksOK`), each frame knows what its place in the code knows
(`FrameOK`: a call that goes on to make its class found it missing, and has what
it asked for so far), each call is what the one below it waits for and its result
is the class of the table (`StackOK`, `Given`), and so is the answer of a request
(`RequestOK`). It is needed in this strength because of the recursion: that a
class is still missing when it is put into the map follows, for other threads,
from the lock (`OthersAbsent`), and for the frames below on the same stack from the
classes they wait for: each frame waits for a class its own is made from, so if
one of them were for the class now being made, a class would be there before one
it needs (`NoOther`).

The second part is one lemma per way to change the table or to answer
(`TableGrows` for a new class or string, `ReplyAnswers`, `FindAnswers`); all other
steps leave it alone (`StepQuiet`). The hypothesis `Packaged = {}` is needed:
`defineClass1` of a class in a package puts it under a second key, and the
refinement fails, as listed under *Known divergences*. `HasFirsts`, that there is
a first among those made under a name, is true of every finite list, but by an
induction the provers cannot do; it is carried along as a part of the invariant.
TLC finds `TableInv` invariant on the instance of the run (108,986 states).

## Linking

`Linking.tla` builds one class or interface after the other (`Link`), each with a
superclass, superinterfaces and a body chosen among those a compiler accepts
(`Legal`, `Members`), and gives it what `parse_fields`, `parse_interfaces` and
`parse_methods` do. The lookups are functions of the result: `get_field`,
`get_all_field_offset`, `get_interface_method`, `get_class_method`,
`search_vtable`, `check_instanceof`. Where the code iterates over a hash map, a
lookup is the set of its possible results; where it returns a variable nothing
has assigned, the result is `stale`, any pointer. The invariants compare them
with the rules of the language, stated over the supertypes: `LayoutSound`,
`FieldsResolve`, `SelectionRight`, `InstanceOfRight`.

Every hierarchy over Object, two classes and two interfaces is built; a class
under a class under Object with interfaces at every level is the deepest, which
reaches each branch of the recursive lookups. A body of the run has fields or a
method, not both, because no lookup reads both. The two classes are symmetric.

`LinkingProofs.tla` proves all four properties for any classes and interfaces,
in hierarchies of any depth, and any sets of legal bodies, with any number of
members of both kinds: `LayoutsAreSound`, `FieldsAreResolved`,
`SelectionOverrides` and `InstanceOfDecides`. The invariant `LInv` says where a
class may stand (`Hierarchy`), that it is still what the constructor makes of
its class file and of the classes above it (`Built`), and that no class is above
itself (`Grounded`). Grounded is also what replaces induction over the
hierarchy: the classes without the wanted property, if there were any, would
have one with nothing of the set directly above it. The lookups of the code
recurse over the hierarchy, and the prover knows of a recursive function only
what is proved of it: that a function with the given equation exists is an
invariant of its own (`Recursive`), kept by every `Link`, as a new class is
above nobody. TLC cannot evaluate that conjunct, which quantifies over all
sets; `LInv` it has checked on the instance of the run with fewer bodies (20,264
states). The assumption is `LinkingAssumption`. That the two ways to reach an
interface's default method may find different ones stays in the statement: the
theorem says that one of the defaults is chosen, not which, and only when the
pointer that `get_class_method` leaves unassigned (`stale`) is null. That the
override of a superclass is found needs no such premise.

## ClassFile

`ClassFile.tla` models the reader as a stack of what is still to be read
(`todo`); the file itself is chosen while it is read, every attribute at every
place it is handled and every tag. The reader skips nothing by
`attribute_length`, so `FitsItsLength` compares the bytes each reader takes with
what the format gives the structure. For annotations the bytes are put together
again from the parts (`Injected`); `StubsComplete` says none is missing.
`PoolReleased` is about the destructors, which step over the second slot of a
long. The lengths of the format (`AttributeLength`, `EntryLength`, ...) are
external: they are those of the class file format, and not of the code.

A table has up to two entries, so that a reader that confuses an entry with a
count is found; three slots of the pool hold a long followed by another
constant; annotations nest as long as at most ten symbols are to be read. As
nothing is shared between structures, longer files repeat these cases.

`ClassFileProofs.tla` proves the three properties for tables of any length,
pools of any size, annotations nested to any depth and every tag there is:
`EveryStructureFits`, `EveryStubIsComplete` and `PoolIsReleased`. For the last,
`PInv` says that the two slots of a long or double stand together and that the
slots before the next to be deleted are those that were; TLC has checked it with
the run. For the other two, the invariant `CInv` relates `todo` to the structures
being read: there is a distribution of what is to be read over the open
structures (`Fits`), so that each will have taken just the bytes the format
gives it, and have put together just the bytes of its stub, once its part is
read. What a symbol still takes is fixed by one lemma for each reader of the code
(`Weighs`), and a step replaces a symbol by symbols of the same weight. TLC does
not evaluate `CInv`, which speaks of the existence of a function into an infinite
set; the proof is that it is inductive and implies what the run checks.

## Boxes and JavaMachine

Every primitive value is in a heap object of its own. `Boxes.tla` models which
instructions copy the box and which the pointer, for variables, operands,
fields, elements, calls, `new` and `Unsafe`; `JavaMachine.tla` is the machine of
plain values. `ImplementsJava` is the refinement: `Meaning` replaces each pointer
by the value in its box. Two instructions write into a box, `iinc` and
`compareAndSwap`; `StoredLocalsAreOwned` is why the first is harmless for
variables the method has stored. The history variable `literal` is the constant
that the last instruction names, so that the machine of values can say that this
one, and no other, is pushed.

A value is a kind and a number. The kinds besides int are `Kinds`, a part of
float, long and double; `Numbers` are the numbers constants of these kinds name,
and `Precise` stands for a double that no float is. Five things go wrong, and the
programs that do them are excluded unless `AllPrograms` (*Known divergences*):
an `iinc` of a parameter the method has not stored; a compare-and-swap of a
field whose box is shared; a float or a long that one of the `dup` instructions
copies, as `copy_BasicOop_value` reads either as a double (`Garbage` is what it
finds behind a float); `dconst_0` and `dconst_1`, which push 1.0 and 2.0; and
`Precise`, since the constructor of `DoubleOop` takes a float and rounds. With
`AllPrograms` the modules do what the code does in these cases, too. That floats
and doubles have no element instructions is modelled by their absence. Which
copy of a `dup` is on top decides who shares a box with a field: `dup` pushes the
copy on the original, the other five put the copy below it.

Boxes are renumbered in the order they are met after each step (`Become`), which
keeps the state space finite: an address means nothing, and boxes nobody points
to are forgotten. Two frames of two variables, three operands (two during a
call), one field and one element, an int that is 0 or 1 and doubles of one
number are enough for a box shared between any two kinds of places, for a
compare-and-swap, for wide operands and arguments, and for the six of the twelve
forms of the `dup` family that leave at most three operands (88,389 states). The
other six, and floats and longs, have the proof, which is for any number of
operands and all kinds. TLC finds a violation of `ImplementsJava` for each of a
`dup` of a float, a `dup` of a long, a `dconst` and an `ldc2_w` of `Precise`
when the condition that excludes just that is dropped (with all three kinds and
`Numbers = {0, 1}`).

**Proof.** `BoxesProofs.tla` proves both properties for any numbers of
variables, cells, frames, operands and boxes, any `Kinds` and
`Numbers`, and any split of the cells into fields and elements. The invariant `IInv` says that
every place holds null, the object or a box there is, that every box holds a
value (`TypeOK`), and that a stored variable's box is in no other place
(`Owned`, the property itself). It is inductive in *every* program
(`StoredLocalsStayOwned`): an operand or a cell never holds a stored variable's
box (`Loose`), since loads copy it, and whatever is popped, pushed, put or
passed comes from operands and cells or is new.

`BoxesImplementJava` is the refinement. Its hypothesis is `~AllPrograms`: a
program that increments a parameter it has not stored, swaps an integer in a
field whose box somebody else holds, duplicates a float or a long, or names a
double by `dconst` or one that no float is, does something else than java, as the
code stands. The argument has three layers. `Become` forgets
and renumbers boxes, and that changes the meaning of nothing
(`RenamedMeansTheSame`), so from there on the proof is about the frames, cells
and values an instruction passes to it. New boxes at the end change the meaning
of nothing that was there (`ExtendedMeans`), which settles the instructions that
copy, push, put, call and return. The two that write into a box change the
meaning of the places that hold it, and `Owned`, or `Alone`, says which these
are (`Changes`). `NextDone` has one lemma per instruction or per family of them,
each of which gives the invariant and java's step together. That wide values
take two words in `dup2` and its relatives, and two variables in a call, is
where the engine looks at a box's kind and java at the value's: `WideIs` says
they agree. A constant is one step of java's machine that names the value pushed
(`ConstantDone`), and the steps of all other instructions name none
(`UnnamedDone`, `NamesNone`).

## Arithmetic

`Arithmetic.tla` executes one instruction on any operands, as C++ on the machine
computes it, with widths as parameters: ints of 8 bits and longs of 16 in the
run, with the operands around zero and around every limit. `NumbersAreJavas`
states results by their defining equations (a quotient by its remainder, a shift
bit by bit). `JumpsAreJavas` is about every branch and every switch
(`BranchesAreJavas`, `SwitchesAreJavas`): a branch of one operand, of two, of
references, a test for null or a `goto` ends at its own address plus its offset
when the sign of the operands' difference is one the condition names, and behind
itself otherwise; a switch at the target of its key or at the default, unless a
label is `INT_MAX`. The address is that after the loop has added the length of the
instruction. A trap has no result. Floats are integers and the three constants the engine tests for; the
properties about them are restricted to what the code gets right
(*Known divergences*).

## Known divergences

While the modules were written from the code, these turned out to differ from
what the code's comments or java say. One is a run. For the others the modules
keep a definition, or a constant, that shows them: add the property to the cfg, or
set the constant.

| Where | What | To see it |
|---|---|---|
| `Safepoint` | a thread about to block misses the collector's broadcast | run `safepoint_lost_broadcast` |
| | a thread that begins its first wait after the launcher's only broadcast is not woken by it | `StartedThreadsAreWoken` |
| | a thread signalled before the request boots during `system_gc` | `OnlyTheCollectorRuns` |
| `Shutdown` | a cancelled waiter keeps the wait mutex, or a request stays, and the exit hangs | `ExitAlwaysEnds` |
| | threads that run on while the heap is freed; two threads that exit at once; `pthread_cancel` of a thread half way through `start0` | `Works`, `ExitProcess`, `Cancel` (comments there) |
| `Collector` | the hash box of an empty string is deleted with the old pool | `StringsRemain` |
| | a copy is copied when a thread pushes its frame in the window | `NoDuplication` |
| `ClassInit` | a `<clinit>` runs while another thread is still initialising the superclass | `ParentInitializedFirst` |
| `Frames` | an exception that leaves a `<clinit>` is dropped, its mark stays, and the next invocation fails its assert | `ClinitsThrow = TRUE`, `AssertsHold` |
| `ClassLoaders` | `findLoadedClass` and a load take two locks in opposite orders | `LoadsAlwaysReturn` |
| | `defineClass1` of a class in a package uses another key than the loader, and the class is loaded twice | `Packaged = {"Circle"}` |
| | an array of two dimensions of a user class ends the process (`classloader.cpp` 329-331), so does `Array.newInstance` of an array of objects, and a torn read of a pool entry | the `Exit` branches of `LoadArray`, `AfterBoot`, `PoolCopy` |
| `Linking` | `invokevirtual` of an inherited default method finds no entry in the vtable | say `invokevirtual` in the second part of `SelectionRight` |
| | with two defaults the first in hash order is taken, not the most specific one; arrays of interfaces, and arrays of different dimension, fail an assert in `instanceof` | the premises of `InstanceOfRight` |
| `Boxes` | `iinc` of a parameter changes the caller's field; a compare-and-swap changes every field that shares the box; a float or long that `dup`, or another of the six, copies is read as a double (`bytecodeEngine.cpp` 256-259) | `AllPrograms = TRUE` |
| | the opcodes of `dconst_0` and `dconst_1` push 1.0 and 2.0 (`bytecodeEngine.cpp` 1147-1158); `DoubleOop`'s constructor takes a float, so every double is rounded (`oop.hpp` 209) | `AllPrograms = TRUE` |
| `Arithmetic` | the NaN of `fadd` is not the NaN `fcmp` knows; `fdiv` divides the wrong way round; two tests ask about one operand twice; `tableswitch` up to `INT_MAX`, `lookupswitch` with the label `INT_MAX`; a switch leaves its key; division by zero and `MIN % -1` trap | the premises of `NaNIsContagious` and `SwitchesAreJavas`, `Traps` |

Found on the way and outside the modules: `saload`, `sastore` and the element
instructions of floats and doubles are missing; `iastore` does not test its index
for a negative one; an unknown attribute fails an assert; the constants of
annotations are read as UTF-8 whatever their tag (`annotation.cpp` 28-40);
`Monitor::wait` adds milliseconds to microseconds; `Class.forName` of a missing
class fails an assert instead of throwing.

## Proved, checked, not modelled

**Proved** for all values of the constants: in the eight `*Proofs` modules, as
described above; `PROJECT.json` lists the theorems. They rest on the named
assumptions of the constants and on nothing else.

**Model-checked only**: liveness, which needs `ENABLED`, and the two
properties of `Arithmetic`. `Arithmetic` computes with powers of two and with
the bits of `Bitwise`: what `2^n`, a shift or a bitwise operator yields at every
width is induction over a recursive definition, which the prover does not
support, and no module that reaches `Bitwise` can hold a theorem. The run tries
every pair of the operands around the limits.

**Not modelled**: `SIGINT_handler`, which interrupts its own thread at any
instruction, also inside `wind_jvm::end`; method handles and `invokedynamic`,
whose state is in the JDK's java code; `multianewarray`; I/O natives (thin
wrappers of system calls); reflection natives that only translate; `park`, raw
memory and the natives of atomics; modified UTF-8 and other decodings; logging,
paths, printers, the tests and tools. `PROJECT.json` gives the status of every
part. Of the hazards listed there, these have no property: addresses taken for
identities or held in C++ locals across a collection (the locals of natives are
not part of any module's state), the signal handler, and the timed wait's
arithmetic.
