---------------------------- MODULE ClassLoaders ----------------------------
(***************************************************************************)
(* The two class loaders, each with a map and a recursive lock, the string *)
(* table and a run-time constant pool, used by several threads.  A thread  *)
(* that loads has a stack of calls: loadClass calls itself for the classes *)
(* a class is made from, and MyClassLoader asks the bootstrap loader.      *)
(* Whatever is made gets the next identity, its position in "made".        *)
(***************************************************************************)
EXTENDS Integers, Sequences, FiniteSets

CONSTANTS Threads,
          SystemClasses, \* classes in the listing of the bootstrap loader
          UserFiles,     \* classes with a file in the working directory
          Packaged,      \* those in a package: "a.B" is not "a/B"
          AnonClasses,   \* anonymous classes, which have bytes only
          Supers,        \* superclass and superinterfaces of a class
          Strings,       \* strings of constant pools
          Self, Entries, \* a class, and the entries of its constant pool
          Asked,         \* the names of classes that are asked for
          MaxRequests    \* requests of all threads together

VARIABLES vm,                 \* "up" or "exited"
          made,               \* all classes and strings, by identity
          system_classmap, classmap, anonymous_klassmap, string_table,
          pool,               \* the pair of each entry of the constant pool
          locks,              \* owner and depth of the two locks
          stack,              \* calls, the current one last
          ret,                \* what the last call to end has returned
          request,            \* what each thread is asking for
          requests,           \* how many there have been
          answer              \* the answer to the last

maps == <<made, system_classmap, classmap, anonymous_klassmap, string_table>>
calls == <<locks, stack, ret>>
asks == <<request, requests, answer>>
vars == <<vm, maps, pool, calls, asks>>

Classes == SystemClasses \union UserFiles \union AnonClasses

(* The name of a class, an array of it, or a string.  The form of a name   *)
(* is "/", or "." when its package is spelled with dots, "cut" without its *)
(* last character, "bare" when an array's lacks L and ;.                   *)
Named(dim, base, form) == [dim |-> dim, base |-> base, form |-> form]
Name(dim, base) == Named(dim, base, "/")
String(s) == Named(0, s, "string")

(* An entry holds a class or a string.                                     *)
EntryName(e) == IF e.kind = "string" THEN String(e.of) ELSE Name(0, e.of)

NoThread == "none"

ASSUME LoadersAssumption ==
  /\ {"Object", "String"} \subseteq SystemClasses
  /\ \A c \in Classes :
       Supers[c] \in Seq(IF c \in SystemClasses THEN SystemClasses
                        ELSE SystemClasses \union UserFiles)
  /\ AnonClasses \intersect (SystemClasses \union UserFiles) = {}
  /\ Packaged \subseteq UserFiles /\ Self \in UserFiles \ SystemClasses
  /\ \A n \in Asked :
       n = Name(n.dim, n.base) /\ n.dim \in Nat /\ (n.dim = 0 => n.base \in Classes)
  /\ \A e \in Entries : e.kind \in {"class", "ref", "string"} /\
       e.of \in IF e.kind = "string" THEN Strings ELSE Classes
  /\ NoThread \notin Threads /\ MaxRequests \in Nat

InJar(n) == n.form = "/" /\ n.dim = 0 /\ n.base \in SystemClasses
IsArray(n) == n.dim > 0
IsBasic(n) == n.base \notin Classes

-----------------------------------------------------------------------------
(* Locks are recursive.                                                    *)

(* A mutant: the loaders do not lock.                                      *)
Free_Unlocked(t, l) == TRUE

Free(t, l) == locks[l].owner \in {t, NoThread}

Locked(t, l) == [locks EXCEPT ![l].owner = t, ![l].depth = @ + 1]

(* A mutant: a lock taken twice is not released.                           *)
Unlocked_Once(l) ==
  [locks EXCEPT ![l].depth = @ - 1,
                ![l].owner = IF locks[l].depth = 1 /\ l = "sys" THEN NoThread
                             ELSE @]

Unlocked(l) ==
  [locks EXCEPT ![l].depth = @ - 1,
                ![l].owner = IF locks[l].depth = 1 THEN NoThread ELSE @]

LockOf == [bs |-> "sys", my |-> "my", find |-> "sys", findboot |-> "sys"]

(* A map keeps what it has under a key.                                    *)
With(map, n, id) ==
  [k \in DOMAIN map \union {n} |-> IF k \in DOMAIN map THEN map[k] ELSE id]

(* Calls.                                                                  *)
Frame(proc, n) == [proc |-> proc, name |-> n, pc |-> "lock", at |-> 0]

Front(s) == SubSeq(s, 1, Len(s) - 1)

Top(t) == stack[t][Len(stack[t])]

In(t, procs, pc) ==
  /\ vm = "up" /\ stack[t] # <<>>
  /\ Top(t).proc \in procs /\ Top(t).pc = pc

At(t, pc, at) == [stack[t] EXCEPT ![Len(stack[t])] = [@ EXCEPT !.pc = pc, !.at = at]]

Goto(t, pc, at) ==
  /\ stack' = [stack EXCEPT ![t] = At(t, pc, at)]
  /\ UNCHANGED <<vm, maps, pool, locks, ret, asks>>

Call(t, pc, at, frame) ==
  /\ stack' = [stack EXCEPT ![t] = Append(At(t, pc, at), frame)]
  /\ UNCHANGED <<vm, maps, pool, locks, ret, asks>>

Leave(t, id) ==
  /\ stack' = [stack EXCEPT ![t] = Front(@)]
  /\ ret' = [ret EXCEPT ![t] = id]
  /\ locks' = IF Top(t).proc \in DOMAIN LockOf
              THEN Unlocked(LockOf[Top(t).proc]) ELSE locks
  /\ UNCHANGED <<vm, pool, asks>>

Return(t, id) == Leave(t, id) /\ UNCHANGED maps

(* A failing assertion, an exception nobody catches, or exit(-1).          *)
Exit ==
  /\ vm' = "exited"
  /\ UNCHANGED <<maps, pool, calls, asks>>

(* The constructor of LockGuard.                                           *)
Lock(t) ==
  /\ In(t, DOMAIN LockOf, "lock")
  /\ Free(t, LockOf[Top(t).proc])
  /\ locks' = Locked(t, LockOf[Top(t).proc])
  /\ stack' = [stack EXCEPT ![t] = At(t, "begin", 0)]
  /\ UNCHANGED <<vm, maps, pool, ret, asks>>

-----------------------------------------------------------------------------
(* Of an array, the class of its elements is loaded first, then the array  *)
(* of one dimension less; MyClassLoader drops the last character too.      *)
ElementOf(n) == [n EXCEPT !.dim = 0]
LowerOf(proc, n) ==
  Named(n.dim - 1, n.base, IF proc = "my" THEN "cut" ELSE n.form)

LoadObject(t, lower) ==
  Call(t, "object", lower, Frame("bs", Name(0, "Object")))

LoadLower(t) ==
  LET f == Top(t) IN
  IF f.name.dim = 1 THEN LoadObject(t, 0)
  ELSE Call(t, "lower", 0, Frame(f.proc, LowerOf(f.proc, f.name)))

LoadArray(t) ==
  LET f == Top(t) IN
  \/ f.name.form = "bare" /\ Exit
  \/ f.name.form # "bare" /\ IsBasic(f.name) /\ LoadLower(t)
  \/ /\ f.name.form # "bare" /\ ~IsBasic(f.name)
     /\ Call(t, "element", 0, Frame(f.proc, ElementOf(f.name)))

(* BootStrapClassLoader::loadClass.                                        *)
BootLoad(t) ==
  /\ In(t, {"bs"}, "begin")
  /\ LET n == Top(t).name IN
     \/ n \in DOMAIN system_classmap /\ Return(t, system_classmap[n])
     \/ n \notin DOMAIN system_classmap /\ InJar(n) /\ Goto(t, "supers", 1)
     \/ n \notin DOMAIN system_classmap /\ IsArray(n) /\ LoadArray(t)
     \/ ~InJar(n) /\ ~IsArray(n) /\ Return(t, 0)

(* MyClassLoader::loadClass: anonymous, or after the bootstrap loader.     *)
MyLoad(t) ==
  /\ In(t, {"my"}, "begin")
  /\ IF Top(t).name.form = "anonymous" THEN Goto(t, "supers", 1)
     ELSE Call(t, "asked", 0, Frame("bs", Top(t).name))

Hidden(n) == {k \in DOMAIN anonymous_klassmap :
                n.form = "/" /\ made[anonymous_klassmap[k]].base = n.base}

(* A name with dots comes with bytes, any other is looked for in a file.   *)
LoadFile(t) ==
  LET n == Top(t).name
      found == n.form = "." \/ (n.form = "/" /\ n.base \in UserFiles)
  IN  \/ found /\ Goto(t, "supers", 1)
      \/ /\ ~found /\ Hidden(n) # {}
         /\ \E k \in Hidden(n) :
              /\ \A j \in Hidden(n) : k =< j
              /\ Return(t, anonymous_klassmap[k])
      \/ ~found /\ Hidden(n) = {} /\ Exit

AfterBoot(t) ==
  /\ In(t, {"my"}, "asked")
  /\ LET n == Top(t).name IN
     \/ ret[t] # 0 /\ Return(t, ret[t])
     \/ ret[t] = 0 /\ n \in DOMAIN classmap /\ Return(t, classmap[n])
     \/ ret[t] = 0 /\ n \notin DOMAIN classmap /\ ~IsArray(n) /\ LoadFile(t)
     \/ ret[t] = 0 /\ n \notin DOMAIN classmap /\ IsArray(n) /\ LoadArray(t)

(* A new class goes into the loader's map, which keeps what it has.        *)
Insert(t, others) ==
  LET f == Top(t)
      id == Len(made) + 1
  IN  /\ made' = Append(others, [base |-> f.name.base, dim |-> f.name.dim,
                                 loader |-> f.proc, higher |-> 0])
      /\ system_classmap' = IF f.proc = "bs"
                            THEN With(system_classmap, f.name, id)
                            ELSE system_classmap
      /\ classmap' = IF f.proc = "my" /\ f.name.form # "anonymous"
                     THEN With(classmap, f.name, id) ELSE classmap
      /\ anonymous_klassmap' = IF f.name.form = "anonymous"
                               THEN Append(anonymous_klassmap, id)
                               ELSE anonymous_klassmap
      /\ UNCHANGED string_table
      /\ Leave(t, id)

(* The constructor loads the superclass, then each superinterface.         *)
LoadSupers(t) ==
  /\ In(t, {"bs", "my"}, "supers")
  /\ LET f == Top(t)
         supers == Supers[f.name.base]
     IN  IF f.at > 1 /\ ret[t] = 0 THEN Exit
         ELSE \/ /\ f.at =< Len(supers)
                 /\ Call(t, "supers", f.at + 1,
                         Frame(f.proc, Name(0, supers[f.at])))
              \/ f.at > Len(supers) /\ Insert(t, made)

ElementLoaded(t) ==
  /\ In(t, {"bs", "my"}, "element")
  /\ IF ret[t] = 0 THEN Return(t, 0) ELSE LoadLower(t)

LowerLoaded(t) ==
  /\ In(t, {"bs", "my"}, "lower")
  /\ IF ret[t] = 0 THEN Exit ELSE LoadObject(t, ret[t])

(* The lower array is told of this one, and must not have been.            *)
ObjectLoaded(t) ==
  /\ In(t, {"bs", "my"}, "object")
  /\ LET lower == Top(t).at IN
     IF lower = 0 THEN Insert(t, made)
     ELSE IF made[lower].higher # 0 THEN Exit
     ELSE Insert(t, [made EXCEPT ![lower].higher = Len(made) + 1])

Loading(t) ==
  \/ Lock(t) \/ BootLoad(t) \/ MyLoad(t) \/ AfterBoot(t) \/ LoadSupers(t)
  \/ ElementLoaded(t) \/ LowerLoaded(t) \/ ObjectLoaded(t)

-----------------------------------------------------------------------------
(* java_lang_string::intern makes a string, for which it loads String, and *)
(* under the table's lock keeps it or takes the one that is there.         *)
intern_to_oop(t) ==
  /\ In(t, {"intern"}, "begin")
  /\ Call(t, "made", 0, Frame("bs", Name(0, "String")))

intern(t) ==
  /\ In(t, {"intern"}, "made")
  /\ LET s == Top(t).name
         id == Len(made) + 1
     IN  /\ made' = Append(made, [base |-> s.base, dim |-> 0,
                                  loader |-> "string", higher |-> 0])
         /\ string_table' = With(string_table, s, id)
         /\ Leave(t, string_table'[s])
  /\ UNCHANGED <<system_classmap, classmap, anonymous_klassmap>>

Intern(s) == [Frame("intern", String(s)) EXCEPT !.pc = "begin"]

(* An entry of a constant pool: its pair is tested, filled member by       *)
(* member, and copied, without a lock.                                     *)
PoolTest(t) ==
  /\ In(t, {"pool"}, "begin")
  /\ LET e == Top(t).name IN
     \/ pool[e].first /\ Goto(t, "copy", 0)
     \/ /\ ~pool[e].first
        /\ \/ /\ e.kind = "class" /\ e.of = Self
              /\ Goto(t, "first", classmap[Name(0, Self)])
           \/ /\ e.kind \in {"class", "ref"}
              /\ <<e.kind, e.of>> # <<"class", Self>>
              /\ Call(t, "loaded", 0, Frame("my", Name(0, e.of)))
           \/ /\ e.kind = "string"
              /\ Call(t, "loaded", 0, Intern(e.of))

PoolLoaded(t) ==
  /\ In(t, {"pool"}, "loaded")
  /\ IF ret[t] = 0 THEN Exit ELSE Goto(t, "first", ret[t])

PoolAssign(t) ==
  \/ /\ In(t, {"pool"}, "first")
     /\ pool' = [pool EXCEPT ![Top(t).name].first = TRUE]
     /\ stack' = [stack EXCEPT ![t] = At(t, "second", Top(t).at)]
     /\ UNCHANGED <<vm, maps, locks, ret, asks>>
  \/ /\ In(t, {"pool"}, "second")
     /\ pool' = [pool EXCEPT ![Top(t).name].second = Top(t).at]
     /\ stack' = [stack EXCEPT ![t] = At(t, "copy", 0)]
     /\ UNCHANGED <<vm, maps, locks, ret, asks>>

(* A copy without a value cannot be cast to the class it should hold.      *)
PoolCopy(t) ==
  /\ In(t, {"pool"}, "copy")
  /\ LET e == Top(t).name IN
     IF pool[e].second = 0 THEN Exit ELSE Return(t, pool[e].second)

Pool(e) == [Frame("pool", e) EXCEPT !.pc = "begin"]

-----------------------------------------------------------------------------
(* Requests: what asks whom for which name.  "must" fails without a class. *)
None == [how |-> "none"]

Answer(how, thing, id) == [how |-> how, thing |-> thing, id |-> id]

NoAnswer == [how |-> "none", id |-> 0]

Ask(t, how, thing, must, frame) ==
  /\ vm = "up" /\ request[t] = None
  /\ requests < MaxRequests
  /\ request' = [request EXCEPT ![t] =
                   [how |-> how, thing |-> thing, must |-> must]]
  /\ requests' = requests + 1
  /\ stack' = [stack EXCEPT ![t] = <<frame>>]
  /\ UNCHANGED <<vm, maps, pool, locks, ret, answer>>

HowOf(loader) == IF loader = "bs" THEN "boot" ELSE "my"

JVM_ForClassName(t) ==
  \E n \in Asked : Ask(t, "boot", n, TRUE, Frame("bs", n))

JVM_FindBootStrapClass(t) ==
  \E n \in Asked : Ask(t, "boot", n, FALSE, Frame("findboot", n))

JVM_FindLoadedClass(t) ==
  \E n \in Asked : Ask(t, "find", n, FALSE, Frame("find", n))

(* parse_argument_list and parse_return_type ask MyClassLoader.            *)
parse_type(t) ==
  \E n \in Asked : Ask(t, "my", n, TRUE, Frame("my", n))

(* The type of a field is asked of the loader of its class.                *)
FieldType(t) ==
  \E id \in DOMAIN made, n \in Asked :
    LET loader == IF made[id].loader = "bs" THEN "bs" ELSE "my" IN
    /\ made[id].loader \in {"bs", "my"} /\ made[id].dim = 0
    /\ loader = "bs" => n.base \notin UserFiles \union AnonClasses
    /\ Ask(t, HowOf(loader), n, TRUE, Frame(loader, n))

(* defineClass1 is given the name as java spells it, defineClass with /.   *)
JVM_DefineClass(t) ==
  \E n \in Asked, dots \in BOOLEAN :
    /\ n.base \in UserFiles /\ n.dim = 0
    /\ Ask(t, "my", n, TRUE,
           Frame("my", IF dots /\ n.base \in Packaged THEN [n EXCEPT !.form = "."]
                       ELSE n))

JVM_DefineAnonymousClass(t) ==
  \E c \in AnonClasses :
    Ask(t, "anonymous", Name(0, c), TRUE, Frame("my", Named(0, c, "anonymous")))

(* anewarray makes an array of the class k, an array or not.               *)
anewarray(t) ==
  \E id \in DOMAIN made :
    LET k == made[id]
        n == Name(k.dim + 1, k.base)
        loader == IF k.loader = "bs" THEN "bs" ELSE "my"
    IN  /\ k.loader \in {"bs", "my"} /\ n \in Asked
        /\ Ask(t, HowOf(loader), n, TRUE, Frame(loader, n))

(* Array.newInstance names an array of arrays of objects by their class.   *)
JVM_NewArray(t) ==
  \E id \in DOMAIN made :
    LET k == made[id]
        n == Name(k.dim + 1, k.base)
        loader == IF k.loader = "bs" THEN "bs" ELSE "my"
        asked == IF k.dim > 0 /\ ~IsBasic(k) THEN Named(1, k.base, "bare") ELSE n
    IN  /\ k.loader \in {"bs", "my"} /\ n \in Asked
        /\ Ask(t, HowOf(loader), n, TRUE, Frame(loader, asked))

Resolve(t) ==
  \E e \in Entries :
    Ask(t, "my", EntryName(e), TRUE, Pool(e))

JVM_Intern(t) == \E s \in Strings : Ask(t, "my", String(s), TRUE, Intern(s))

Request(t) ==
  \/ JVM_ForClassName(t) \/ JVM_FindBootStrapClass(t) \/ JVM_FindLoadedClass(t)
  \/ parse_type(t) \/ FieldType(t) \/ JVM_DefineClass(t)
  \/ JVM_DefineAnonymousClass(t) \/ anewarray(t) \/ JVM_NewArray(t)
  \/ Resolve(t) \/ JVM_Intern(t)

Answered(t, id) ==
  /\ answer' = [answer EXCEPT ![t] = Answer(request[t].how, request[t].thing, id)]
  /\ request' = [request EXCEPT ![t] = None]
  /\ UNCHANGED <<vm, maps, pool, requests>>

(* JVM_FindBootStrapClass and JVM_FindLoadedClass, under the first lock.   *)
FindBoot(t) ==
  \/ /\ In(t, {"findboot"}, "begin")
     /\ Call(t, "found", 0, Frame("bs", Top(t).name))
  \/ In(t, {"findboot"}, "found") /\ Return(t, ret[t])

FindLoaded(t) ==
  /\ In(t, {"find"}, "begin")
  /\ IF Top(t).name \in DOMAIN system_classmap
     THEN Return(t, system_classmap[Top(t).name])
     ELSE Goto(t, "other", 0)

find_in_classmap(t) ==
  /\ In(t, {"find"}, "other")
  /\ Free(t, "my")
  /\ LET n == Top(t).name IN
     \/ n \in DOMAIN classmap /\ Return(t, classmap[n])
     \/ /\ n \notin DOMAIN classmap
        /\ stack' = [stack EXCEPT ![t] = <<>>]
        /\ locks' = Unlocked("sys")
        /\ Answered(t, 0)
        /\ UNCHANGED ret

(* The native or the instruction that asked goes on with the class.        *)
Reply(t) ==
  /\ vm = "up" /\ request[t] # None /\ stack[t] = <<>>
  /\ IF ret[t] = 0 /\ request[t].must THEN Exit
     ELSE Answered(t, ret[t]) /\ UNCHANGED calls

Step(t) ==
  \/ Loading(t)
  \/ intern_to_oop(t) \/ intern(t)
  \/ PoolTest(t) \/ PoolLoaded(t) \/ PoolAssign(t) \/ PoolCopy(t)
  \/ FindBoot(t) \/ FindLoaded(t) \/ find_in_classmap(t)
  \/ Reply(t)

Next == \E t \in Threads : Request(t) \/ Step(t)

(* The virtual machine has loaded these before a second thread runs: two   *)
(* of its own classes and the program's.                                   *)
Init ==
  /\ vm = "up"
  /\ made = <<[base |-> "Object", dim |-> 0, loader |-> "bs", higher |-> 0],
              [base |-> "String", dim |-> 0, loader |-> "bs", higher |-> 0],
              [base |-> Self, dim |-> 0, loader |-> "my", higher |-> 0]>>
  /\ system_classmap = With(With(<<>>, Name(0, "Object"), 1), Name(0, "String"), 2)
  /\ classmap = With(<<>>, Name(0, Self), 3)
  /\ anonymous_klassmap = <<>>
  /\ string_table = <<>>
  /\ pool = [e \in Entries |-> [first |-> FALSE, second |-> 0]]
  /\ locks = [l \in {"sys", "my"} |-> [owner |-> NoThread, depth |-> 0]]
  /\ stack = [t \in Threads |-> <<>>]
  /\ ret = [t \in Threads |-> 0]
  /\ request = [t \in Threads |-> None]
  /\ requests = 0
  /\ answer = [t \in Threads |-> NoAnswer]

(* The system runs every thread that can run.                              *)
Spec == Init /\ [][Next]_vars /\ \A t \in Threads : WF_vars(Step(t))

-----------------------------------------------------------------------------
Things ==
  {Name(0, c) : c \in Classes} \union {String(s) : s \in Strings}
    \union UNION {{Name(d, n.base) : d \in 1 .. n.dim} : n \in Asked}

NeedsOf(x) ==
  IF x.form = "string" THEN {Name(0, "String")}
  ELSE IF x.dim = 0 THEN {Name(0, Supers[x.base][k]) : k \in DOMAIN Supers[x.base]}
  ELSE {Name(0, "Object")}
         \union (IF IsBasic(x) THEN {} ELSE {ElementOf(x)})
         \union (IF x.dim > 1 THEN {LowerOf("bs", x)} ELSE {})

(* Of what was made under a name, the first.                               *)
IsMade(id, x) ==
  /\ made[id].base = x.base /\ made[id].dim = x.dim
  /\ made[id].loader = "string" <=> x.form = "string"

First(x) ==
  IF \A id \in DOMAIN made : ~IsMade(id, x) THEN 0
  ELSE CHOOSE id \in DOMAIN made : IsMade(id, x) /\ \A j \in 1 .. id - 1 : ~IsMade(j, x)

Table == [x \in Things |-> First(x)]

Abstract ==
  INSTANCE ClassTable WITH
    Things <- Things,
    Needs <- [x \in Things |-> NeedsOf(x)],
    Boot <- {x \in Things : x.base \notin UserFiles \union AnonClasses},
    Nameless <- {Name(0, c) : c \in AnonClasses},
    Ids <- Nat \ {0},
    table <- Table

(* The loaders, the string table and the constant pools, whoever uses them *)
(* at a time, implement one table: a class or a string is made once, after *)
(* what it is made from, and every answer is the one in the table; so what *)
(* is compared by address, classes and interned strings, may be.           *)
ImplementsClassTable == Abstract!Spec

(* findLoadedClass holds the lock of the system's map and wants the one of *)
(* MyClassLoader; a thread that loads has the second and wants the first.  *)
Deadlocked ==
  \E t, u \in Threads :
    /\ In(t, {"find"}, "other") /\ locks["my"].owner = u
    /\ In(u, {"bs"}, "lock") /\ locks["sys"].owner = t
    /\ t # u

(* Whoever asks a loader, the string table or a constant pool is answered, *)
(* unless the virtual machine ends or findLoadedClass meets a load in that *)
(* one way: the two locks, taken again by the calls of loadClass in itself *)
(* and by the natives, keep nobody else waiting for ever.                  *)
LoadsReturn ==
  \A t \in Threads :
    request[t] # None ~> (request[t] = None \/ vm = "exited" \/ Deadlocked)

(* java_lang_ClassLoader.cpp:38, of the search in the second loader's map: *)
(* "fix: find in MyClassLoader, too."  That search refutes the property.   *)
LoadsAlwaysReturn ==
  \A t \in Threads : request[t] # None ~> (request[t] = None \/ vm = "exited")
-----------------------------------------------------------------------------
(* The inductive invariant behind ImplementsClassTable.                    *)
Bases == Classes \union Strings \union {n.base : n \in Asked}
Forms == {"/", ".", "cut", "bare", "string", "anonymous"}
Names == [dim : Nat, base : Bases, form : Forms]

(* The bootstrap loader can load all that is not the user's.               *)
OfUser(n) == n.base \in Classes \ SystemClasses

KeyOf(k) == Name(k.dim, k.base)

Pcs == {"lock", "begin", "supers", "element", "lower", "object", "asked", "found",
        "other", "made", "loaded", "first", "second", "copy"}

Frames == [proc : {"bs", "my", "find", "findboot", "intern", "pool"},
           name : Names \union Entries, pc : Pcs, at : Nat]

(* The calls a request can make.                                           *)
Procs == [boot |-> {"bs", "findboot"}, my |-> {"my", "pool", "intern"},
          find |-> {"find"}, anonymous |-> {"my"}]

Requests == [how : DOMAIN Procs, thing : Things, must : BOOLEAN]

TypesOK ==
  /\ vm \in {"up", "exited"}
  /\ stack \in [Threads -> Seq(Frames)]
  /\ ret \in [Threads -> Nat]
  /\ request \in [Threads -> {None} \union Requests]

(* What was made is in a map, under its name, as the only one or the first. *)
MapsOK ==
  /\ made \in Seq([base : Bases, dim : Nat, loader : {"bs", "my", "string"},
                   higher : Nat])
  /\ \A id \in DOMAIN made :
       LET k == made[id] IN
       /\ k.loader = "bs" => /\ KeyOf(k) \in DOMAIN system_classmap
                             /\ system_classmap[KeyOf(k)] = id
       /\ k.loader = "my" =>
            IF k.dim = 0 /\ k.base \in AnonClasses
            THEN \E j \in DOMAIN anonymous_klassmap : anonymous_klassmap[j] = id
            ELSE /\ KeyOf(k) \in DOMAIN classmap
                 /\ classmap[KeyOf(k)] = id
       /\ k.loader = "string" => /\ String(k.base) \in DOMAIN string_table
                                 /\ string_table[String(k.base)] =< id
  /\ \A n \in DOMAIN system_classmap :
       /\ n \in Names /\ n.form = "/" /\ ~OfUser(n)
       /\ system_classmap[n] \in DOMAIN made
       /\ made[system_classmap[n]].loader = "bs"
       /\ KeyOf(made[system_classmap[n]]) = n
  /\ \A n \in DOMAIN classmap :
       /\ n \in Names /\ n.form = "/" /\ OfUser(n)
       /\ n.dim = 0 => n.base \notin AnonClasses
       /\ classmap[n] \in DOMAIN made
       /\ made[classmap[n]].loader = "my"
       /\ KeyOf(made[classmap[n]]) = n
  /\ \A s \in DOMAIN string_table :
       /\ s \in Names /\ s = String(s.base)
       /\ string_table[s] \in DOMAIN made
       /\ made[string_table[s]].loader = "string"
       /\ KeyOf(made[string_table[s]]) = Name(0, s.base)
  /\ anonymous_klassmap \in Seq(DOMAIN made)
  /\ \A j \in DOMAIN anonymous_klassmap :
       LET k == made[anonymous_klassmap[j]] IN
       /\ k.loader = "my" /\ k.dim = 0 /\ k.base \in AnonClasses
       /\ \A i \in 1 .. j - 1 : anonymous_klassmap[i] < anonymous_klassmap[j]
  /\ {Name(0, "Object"), Name(0, "String")} \subseteq DOMAIN system_classmap
  /\ Name(0, Self) \in DOMAIN classmap

PoolOK ==
  /\ pool \in [Entries -> [first : BOOLEAN, second : Nat]]
  /\ \A e \in Entries : pool[e].second \in {0, First(EntryName(e))}

(* A lock counts the calls of its owner that have taken it.                *)
Holding(t, l) ==
  {i \in DOMAIN stack[t] : LET f == stack[t][i] IN
     f.proc \in DOMAIN LockOf /\ LockOf[f.proc] = l /\ f.pc # "lock"}

LocksOK ==
  /\ locks \in [{"sys", "my"} -> [owner : Threads \union {NoThread}, depth : Nat]]
  /\ \A l \in {"sys", "my"} :
       /\ locks[l].owner = NoThread => locks[l].depth = 0
       /\ \A t \in Threads :
            IF locks[l].owner = t THEN locks[l].depth = Cardinality(Holding(t, l))
            ELSE Holding(t, l) = {}

(* A call of loadClass has not found the class in its map, and has loaded  *)
(* what it has asked for so far.                                           *)
Pending == {"supers", "element", "lower", "object"}

LoadOK(f) ==
  LET n == f.name IN
  /\ n \in Names /\ n.form \in {"/", "cut", "bare", "anonymous"}
  /\ f.pc \in {"lock", "begin"} \union Pending \union (IF f.proc = "my" THEN {"asked"} ELSE {})
  /\ n.dim = 0 => n.base \in Classes
  /\ n.form = "cut" => OfUser(n) /\ f.pc \notin {"supers", "lower", "object"}
  /\ n.form = "bare" => n.dim > 0 /\ f.pc \notin Pending
  /\ n.form = "anonymous" =>
       f.proc = "my" /\ n.dim = 0 /\ n.base \in AnonClasses /\ f.pc \in {"lock", "begin", "supers"}
  /\ f.proc = "bs" /\ f.pc \in Pending =>
       n \notin DOMAIN system_classmap /\ (f.pc # "element" => ~OfUser(n))
  /\ f.proc = "my" /\ f.pc \in Pending =>
       /\ OfUser(n)
       /\ n.form = "/" => n \notin DOMAIN classmap /\ (n.dim = 0 => n.base \notin AnonClasses)
  /\ f.pc = "supers" =>
       /\ n.dim = 0 /\ f.at \in 1 .. Len(Supers[n.base]) + 1
       /\ \A k \in 1 .. f.at - 2 : First(Name(0, Supers[n.base][k])) # 0
  /\ f.pc \in {"element", "lower", "object"} => n.dim > 0
  /\ f.pc = "element" => ~IsBasic(n)
  /\ f.pc = "lower" => n.dim > 1
  /\ f.pc \in {"lower", "object"} => IsBasic(n) \/ First(ElementOf(n)) # 0
  /\ f.pc = "object" /\ n.dim > 1 => f.proc = "bs" /\ First(LowerOf("bs", n)) # 0

FrameOK(f) ==
  /\ f.proc \in {"bs", "my"} => LoadOK(f)
  /\ f.proc = "find" =>
       /\ f.name \in Asked /\ f.pc \in {"lock", "begin", "other"}
       /\ f.pc = "other" => f.name \notin DOMAIN system_classmap
  /\ f.proc = "findboot" => f.name \in Asked /\ f.pc \in {"lock", "begin", "found"}
  /\ f.proc = "intern" =>
       f.name \in {String(s) : s \in Strings} /\ f.pc \in {"begin", "made"}
  /\ f.proc = "pool" =>
       /\ f.name \in Entries /\ f.pc \in {"begin", "loaded", "first", "second", "copy"}
       /\ f.pc \in {"first", "second"} => f.at = First(EntryName(f.name)) /\ f.at # 0

(* Whom a call waits for, and what it may be answered.                     *)
Waits(f) ==
  \/ f.pc = "supers" /\ f.at > 1
  \/ f.pc \in {"asked", "element", "lower", "object", "found", "made", "loaded"}

Callee(f) ==
  CASE f.pc = "supers" -> <<f.proc, Name(0, Supers[f.name.base][f.at - 1])>>
    [] f.pc = "element" -> <<f.proc, ElementOf(f.name)>>
    [] f.pc = "lower" -> <<f.proc, LowerOf(f.proc, f.name)>>
    [] f.pc = "object" -> <<"bs", Name(0, "Object")>>
    [] f.pc \in {"asked", "found"} -> <<"bs", f.name>>
    [] f.pc = "made" -> <<"bs", Name(0, "String")>>
    [] f.pc = "loaded" -> <<IF f.name.kind = "string" THEN "intern" ELSE "my",
                            EntryName(f.name)>>

Given(proc, n, id) ==
  /\ n.form # "bare"
  /\ n.form = "cut" => id = 0
  /\ n.form = "string" => id # 0
  /\ n.form = "anonymous" =>
       /\ id \in DOMAIN made /\ made[id].loader = "my" /\ KeyOf(made[id]) = Name(0, n.base)
  /\ n.form # "anonymous" /\ id # 0 => id = First(n)
  /\ proc = "bs" => (id = 0 <=> OfUser(n))

StackOK(t) ==
  /\ \A i \in DOMAIN stack[t] : FrameOK(stack[t][i])
  /\ \A i \in 1 .. Len(stack[t]) - 1 :
       LET f == stack[t][i]
           g == stack[t][i + 1]
       IN  Waits(f) /\ Callee(f) = <<g.proc, g.name>>
  /\ \A i, j \in 1 .. Len(stack[t]) :
       i < j /\ stack[t][i].proc = "bs" => stack[t][j].proc = "bs"
  /\ stack[t] # <<>> /\ Waits(Top(t)) =>
       Given(Callee(Top(t))[1], Callee(Top(t))[2], ret[t])

(* The call a request has made, and the answer it will get.                *)
RequestOK(t) ==
  LET r == request[t] IN
  IF r = None THEN stack[t] = <<>>
  ELSE /\ r.how \in {"my", "anonymous"} => r.must
       /\ r.thing.form = "string" => r.how = "my"
       /\ r.how = "anonymous" => r.thing.dim = 0 /\ r.thing.base \in AnonClasses
       /\ IF stack[t] # <<>>
          THEN LET f == stack[t][1] IN
               /\ f.proc \in Procs[r.how]
               /\ IF f.proc = "pool" THEN EntryName(f.name) = r.thing
                  ELSE IF r.how = "anonymous"
                  THEN f.name = [r.thing EXCEPT !.form = "anonymous"]
                  ELSE f.name = r.thing \/ f.name.form = "bare"
          ELSE IF r.how = "anonymous"
          THEN Given("my", [r.thing EXCEPT !.form = "anonymous"], ret[t])
          ELSE /\ Given("my", r.thing, ret[t])
               /\ ret[t] = 0 => r.how # "find"
               /\ ret[t] = 0 /\ r.how = "boot" => OfUser(r.thing)

TableInv ==
  /\ TypesOK /\ MapsOK /\ PoolOK /\ LocksOK
  /\ \A t \in Threads : StackOK(t) /\ RequestOK(t)
=============================================================================
