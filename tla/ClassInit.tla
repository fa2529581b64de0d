----------------------------- MODULE ClassInit -----------------------------
(***************************************************************************)
(* The initialisation of classes: BytecodeEngine::initial_clinit and its   *)
(* callers (getstatic, putstatic, invokestatic and invokespecial, new,     *)
(* Unsafe.ensureClassInitialized, Class.forName0), and the states that     *)
(* vm_thread::init_and_do_main sets by hand while it boots the library.    *)
(*                                                                         *)
(* The state of a class is a plain field that all threads read and write   *)
(* without a lock.  initial_clinit is recursive: it calls itself for the   *)
(* superclass, and the code of a <clinit> uses other classes.  The stack   *)
(* of a thread holds its activations of initial_clinit, the innermost one  *)
(* last; under them is ordinary code.                                      *)
(***************************************************************************)
EXTENDS Naturals, Sequences

CONSTANTS Threads,    \* the threads that run java code
          Main,       \* the one that executes init_and_do_main
          Classes,    \* the instance classes
          NoClass,    \* no parent (left to initialise)
          Parent,     \* get_parent()
          WithClinit, \* the classes that declare a <clinit>
          Banned,     \* Perf, PerfCounter: set Initializing by hand, for good
          Deferred,   \* System, Debug: set Initialized by hand later
          MaxUses     \* bound: instructions that use a class, per thread

ByHand == Banned \union Deferred

ASSUME ClassAssumption ==
  /\ Main \in Threads
  /\ NoClass \notin Classes
  /\ Parent \in [Classes -> Classes \union {NoClass}]
  /\ WithClinit \subseteq Classes
  /\ Banned \subseteq Classes
  /\ Deferred \subseteq Classes
  /\ MaxUses \in Nat

VARIABLES state,     \* Klass::state
          stack,     \* the activations of initial_clinit, per thread
          held,      \* the classes init_and_do_main has set Initializing
          constants, \* the classes whose ConstantValue fields are set
          uses,      \* instructions executed, per thread
          runs,      \* history: <clinit> invocations, per thread and class
          ended      \* history: the classes of which a <clinit> has ended

vars == <<state, stack, held, constants, uses, runs, ended>>

KlassState == {"NotInitialized", "Initializing", "Initialized"}

(* Where an activation of initial_clinit(cls) is: about to read the state, *)
(* to set it to Initializing, to initialise the parent, to set the static  *)
(* constants, to look for <clinit>, in <clinit>, to set Initialized.       *)
Points == {"test", "set", "parent", "constants", "clinit", "running", "mark"}

Activation == [cls : Classes, pc : Points]

-----------------------------------------------------------------------------
(* Stacks of activations: the innermost one moves to p; it calls           *)
(* initial_clinit(c); it returns.                                          *)
Moved(s, p) == [s EXCEPT ![Len(s)] = [cls |-> s[Len(s)].cls, pc |-> p]]

Call(s, c) == Append(s, [cls |-> c, pc |-> "test"])

Returned(s) == SubSeq(s, 1, Len(s) - 1)

Top(t) == stack[t][Len(stack[t])]

At(t, p) == stack[t] # <<>> /\ Top(t).pc = p

Goto(t, p) == stack' = [stack EXCEPT ![t] = Moved(@, p)]

Return(t) == stack' = [stack EXCEPT ![t] = Returned(@)]

-----------------------------------------------------------------------------
(* An instruction of ordinary code or of a <clinit> uses the class c.      *)
Use(t, c) ==
  /\ uses[t] < MaxUses
  /\ stack[t] = <<>> \/ At(t, "running")
  /\ stack' = [stack EXCEPT ![t] = Call(@, c)]
  /\ uses' = [uses EXCEPT ![t] = @ + 1]
  /\ UNCHANGED <<state, held, constants, runs, ended>>

(* initial_clinit does nothing unless the class is NotInitialized: a class *)
(* that some thread, this one or another, is initialising is passed over.  *)
Test_Waits(t) ==
  /\ At(t, "test")
  /\ state[Top(t).cls] # "Initializing"
  /\ IF state[Top(t).cls] = "NotInitialized" THEN Goto(t, "set") ELSE Return(t)
  /\ UNCHANGED <<state, held, constants, uses, runs, ended>>

Test_UnlessInitialized(t) ==
  /\ At(t, "test")
  /\ IF state[Top(t).cls] # "Initialized" THEN Goto(t, "set") ELSE Return(t)
  /\ UNCHANGED <<state, held, constants, uses, runs, ended>>

Test(t) ==
  /\ At(t, "test")
  /\ IF state[Top(t).cls] = "NotInitialized" THEN Goto(t, "set") ELSE Return(t)
  /\ UNCHANGED <<state, held, constants, uses, runs, ended>>

SetInitializing_Forgotten(t) ==
  /\ At(t, "set")
  /\ Goto(t, "parent")
  /\ UNCHANGED <<state, held, constants, uses, runs, ended>>

SetInitializing_AsInitialized(t) ==
  /\ At(t, "set")
  /\ state' = [state EXCEPT ![Top(t).cls] = "Initialized"]
  /\ Goto(t, "parent")
  /\ UNCHANGED <<held, constants, uses, runs, ended>>

SetInitializing(t) ==
  /\ At(t, "set")
  /\ state' = [state EXCEPT ![Top(t).cls] = "Initializing"]
  /\ Goto(t, "parent")
  /\ UNCHANGED <<held, constants, uses, runs, ended>>

(* The recursive call for the parent, if there is one.                     *)
InitParent_Skipped(t) ==
  /\ At(t, "parent")
  /\ Goto(t, "constants")
  /\ UNCHANGED <<state, held, constants, uses, runs, ended>>

InitParent_OfObject(t) ==
  /\ At(t, "parent")
  /\ stack' = [stack EXCEPT
                 ![t] = Call(Moved(@, "constants"), Parent[Top(t).cls])]
  /\ UNCHANGED <<state, held, constants, uses, runs, ended>>

InitParent(t) ==
  /\ At(t, "parent")
  /\ LET p == Parent[Top(t).cls]
     IN IF p = NoClass
        THEN Goto(t, "constants")
        ELSE stack' = [stack EXCEPT ![t] = Call(Moved(@, "constants"), p)]
  /\ UNCHANGED <<state, held, constants, uses, runs, ended>>

(* initialize_final_static_field.                                          *)
InitConstants(t) ==
  /\ At(t, "constants")
  /\ constants' = constants \union {Top(t).cls}
  /\ Goto(t, "clinit")
  /\ UNCHANGED <<state, held, uses, runs, ended>>

(* <clinit> of this class only, if it has one.                             *)
StartClinit(t) ==
  /\ At(t, "clinit")
  /\ LET c == Top(t).cls
     IN \/ /\ c \in WithClinit
           /\ runs' = [runs EXCEPT ![t] = [runs[t] EXCEPT ![c] = @ + 1]]
           /\ Goto(t, "running")
        \/ /\ c \notin WithClinit
           /\ Goto(t, "mark")
           /\ UNCHANGED runs
  /\ UNCHANGED <<state, held, constants, uses, ended>>

(* <clinit> returns, or an exception leaves it: initial_clinit does not    *)
(* look at which.                                                          *)
EndClinit(t) ==
  /\ At(t, "running")
  /\ ended' = ended \union {Top(t).cls}
  /\ Goto(t, "mark")
  /\ UNCHANGED <<state, held, constants, uses, runs>>

SetInitialized(t) ==
  /\ At(t, "mark")
  /\ state' = [state EXCEPT ![Top(t).cls] = "Initialized"]
  /\ Return(t)
  /\ UNCHANGED <<held, constants, uses, runs, ended>>

(* init_and_do_main sets the state of System, of the Debug class, of Perf  *)
(* and PerfCounter itself, whatever it is, once it has initialised         *)
(* java.lang.Thread and with it java.lang.Object, their parent.            *)
HoldByHand(c) ==
  /\ stack[Main] = <<>>
  /\ c \in ByHand \ held
  /\ Parent[c] # NoClass => state[Parent[c]] = "Initialized"
  /\ held' = held \union {c}
  /\ state' = [state EXCEPT ![c] = "Initializing"]
  /\ UNCHANGED <<stack, constants, uses, runs, ended>>

(* System and Debug become Initialized when initializeSystemClass and the  *)
(* initialisation of SecurityManager are over.                             *)
ReleaseByHand(c) ==
  /\ stack[Main] = <<>>
  /\ c \in Deferred \intersect held
  /\ state[c] # "Initialized"
  /\ state' = [state EXCEPT ![c] = "Initialized"]
  /\ UNCHANGED <<stack, held, constants, uses, runs, ended>>

-----------------------------------------------------------------------------
Init ==
  /\ state = [c \in Classes |-> "NotInitialized"]
  /\ stack = [t \in Threads |-> <<>>]
  /\ held = {}
  /\ constants = {}
  /\ uses = [t \in Threads |-> 0]
  /\ runs = [t \in Threads |-> [c \in Classes |-> 0]]
  /\ ended = {}

(* A step of initial_clinit, or the end of the <clinit> it called.         *)
Step(t) ==
  \/ Test(t)
  \/ SetInitializing(t)
  \/ InitParent(t)
  \/ InitConstants(t)
  \/ StartClinit(t)
  \/ EndClinit(t)
  \/ SetInitialized(t)

Next ==
  \/ \E t \in Threads : Step(t) \/ \E c \in Classes : Use(t, c)
  \/ \E c \in ByHand : HoldByHand(c) \/ ReleaseByHand(c)

Spec == Init /\ [][Next]_vars

(* A thread that can go on does, and every <clinit> comes to its end.      *)
FairSpec == Spec /\ \A t \in Threads : WF_vars(Step(t))

-----------------------------------------------------------------------------
(* Every variable has its type.                                            *)
TypeOK ==
  /\ state \in [Classes -> KlassState]
  /\ stack \in [Threads -> Seq(Activation)]
  /\ held \subseteq ByHand
  /\ constants \subseteq Classes
  /\ uses \in [Threads -> 0 .. MaxUses]
  /\ runs \in [Threads -> [Classes -> Nat]]
  /\ ended \subseteq Classes

(* The points at which an activation has passed the test for good.         *)
Begun(a) == a.pc \notin {"test", "set"}

(* No thread initialises a class from within its own initialisation of the *)
(* class, whatever its <clinit> and those of the superclasses use: what    *)
(* the state Initializing is for (the comment at KlassState).              *)
NoRecursiveInitialization ==
  \A t \in Threads : \A i, j \in DOMAIN stack[t] :
    /\ i # j
    /\ stack[t][i].cls = stack[t][j].cls
    => stack[t][i].pc = "test" \/ stack[t][j].pc = "test"

(* No thread runs the <clinit> of a class twice.                           *)
OneRunPerThread ==
  \A t \in Threads, c \in Classes : runs[t][c] <= 1

(* The initialisation of a class goes past the recursive call only once    *)
(* that of its superclass has at least begun.                              *)
ParentBegunFirst ==
  \A t \in Threads : \A i \in DOMAIN stack[t] :
    LET a == stack[t][i]
    IN /\ a.pc \in {"clinit", "running", "mark"}
       /\ Parent[a.cls] # NoClass
       => state[Parent[a.cls]] # "NotInitialized"

(* Code that finds a class Initialized finds its constants set and its     *)
(* <clinit> executed by someone, except for the classes set by hand.       *)
InitializedMeansRun ==
  \A c \in Classes \ ByHand :
    state[c] = "Initialized" =>
      /\ c \in constants
      /\ c \in WithClinit => c \in ended

(* Every call of initial_clinit returns, whatever cycles the uses of the   *)
(* <clinit>s form within a thread and between threads.                     *)
EveryUseReturns ==
  \A t \in Threads : stack[t] # <<>> ~> stack[t] = <<>>

(* The comment in initial_clinit: the parent is initialised first, "so     *)
(* java.lang.Object must be the first".  When the <clinit> of a class      *)
(* starts, its superclass is Initialized, or this very thread is           *)
(* initialising it further out.                                            *)
ParentInitializedFirst ==
  \A t \in Threads :
    LET c == Top(t).cls
        p == Parent[c]
    IN At(t, "clinit") /\ p \in Classes \ ByHand =>
         \/ state[p] = "Initialized"
         \/ \E i \in DOMAIN stack[t] : stack[t][i].cls = p
=============================================================================
