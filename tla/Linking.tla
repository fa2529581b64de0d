------------------------------ MODULE Linking ------------------------------
(***************************************************************************)
(* Klass linking: what the constructor of InstanceKlass makes of a class   *)
(* file (parse_superclass, parse_fields, parse_interfaces, parse_methods), *)
(* and the lookups the interpreter and the natives make in the result:     *)
(* fields by signature and by Unsafe offset, resolution and selection of   *)
(* methods, instanceof.                                                    *)
(*                                                                         *)
(* A class is built after its superclass and superinterfaces; its field    *)
(* layout and its vtable start as copies of those of the superclass.  The  *)
(* hash maps of the code are iterated in an arbitrary order: a lookup      *)
(* that iterates over one denotes the set of its possible results.         *)
(***************************************************************************)
EXTENDS Naturals, Sequences, FiniteSets

CONSTANTS Object,          \* java/lang/Object
          ClassNames,      \* the other classes
          InterfaceNames,  \* the interfaces
          ArrayInterfaces, \* Cloneable and Serializable
          FieldSigs,       \* name:descriptor of fields
          MethodSigs,      \* name:descriptor of methods
          Bodies,          \* what class files may declare: see Body
          NoKlass,         \* null
          NoMethod,        \* null
          Garbage          \* a wild pointer

Names == {Object} \union ClassNames \union InterfaceNames

MethodKinds == {"public", "private", "static", "abstract"}

(* The members a class file declares: its instance fields and its static   *)
(* fields, each in their order, and the kind of each of its methods.       *)
Body == [fields : Seq(FieldSigs),
         statics : Seq(FieldSigs),
         methods : UNION {[S -> MethodKinds] : S \in SUBSET MethodSigs}]

ASSUME LinkingAssumption ==
  /\ Object \notin ClassNames \union InterfaceNames
  /\ ClassNames \intersect InterfaceNames = {}
  /\ ArrayInterfaces \subseteq InterfaceNames
  /\ NoKlass \notin Names
  /\ NoMethod \notin Names
  /\ Garbage \notin Names \union {NoMethod}
  /\ "int" \notin Names
  /\ Bodies \subseteq Body

VARIABLES klass, \* the classes that are linked: InstanceKlass by name
          stale  \* what an uninitialised Method* holds

vars == <<klass, stale>>

Linked == DOMAIN klass

IsInterface(c) == c \in InterfaceNames

-----------------------------------------------------------------------------
(* parse_fields.  The instance fields of the superclass keep their offsets *)
(* and the new ones follow; the key of an instance field names the class   *)
(* that declares it.  Static fields are numbered apart and not inherited.  *)
(* The loop over the superinterfaces finds none: parse_interfaces runs     *)
(* later.                                                                  *)
Inherited(p) == IF p = NoKlass THEN <<>> ELSE klass[p].fields_layout

Total_Forgotten(p) == 0

Total(p) == IF p = NoKlass THEN 0 ELSE klass[p].total_non_static_fields_num

fields_layout(c, p, b) ==
  LET new == {<<c, b.fields[n]>> : n \in DOMAIN b.fields}
      pos(k) == CHOOSE n \in DOMAIN b.fields : b.fields[n] = k[2]
  IN  [k \in DOMAIN Inherited(p) \union new |->
         IF k \in new THEN Total(p) + pos(k) - 1 ELSE Inherited(p)[k]]

static_fields_layout(b) ==
  [s \in {b.statics[n] : n \in DOMAIN b.statics} |->
     (CHOOSE n \in DOMAIN b.statics : b.statics[n] = s) - 1]

(* parse_methods: the vtable of the superclass, in which every method of   *)
(* the class, static and private ones included, replaces the one with its  *)
(* signature; new entries are made for instance methods.                   *)
vtable_KeepsInherited(c, p, b) ==
  LET above == IF p = NoKlass THEN <<>> ELSE klass[p].vtable
      new == {s \in DOMAIN b.methods : b.methods[s] # "static"}
  IN  [s \in DOMAIN above \union new |->
         IF s \in DOMAIN above THEN above[s] ELSE c]

vtable(c, p, b) ==
  LET above == IF p = NoKlass THEN <<>> ELSE klass[p].vtable
      new == {s \in DOMAIN b.methods : b.methods[s] # "static"}
  IN  [s \in DOMAIN above \union new |->
         IF s \in DOMAIN b.methods THEN c ELSE above[s]]

InstanceKlass(c, p, is, b) ==
  [parent |-> p,
   interfaces |-> is,
   fields_layout |-> fields_layout(c, p, b),
   static_fields_layout |-> static_fields_layout(b),
   total_non_static_fields_num |-> Total(p) + Len(b.fields),
   methods |-> b.methods,
   vtable |-> vtable(c, p, b)]

-----------------------------------------------------------------------------
(* The class c and all it extends and implements; its superclasses.        *)
Direct(c) == (klass[c].interfaces \union {klass[c].parent}) \ {NoKlass}

Supers(c) ==
  LET S[d \in Linked] == {d} \union UNION {S[e] : e \in Direct(d)}
  IN  S[c]

Chain(c) == {d \in Supers(c) : ~IsInterface(d)}

(* The compiler's rules for a method that a supertype declares: it is not  *)
(* hidden by a method of another kind or of weaker access.                 *)
Legal(p, is, b) ==
  \A d \in UNION {Supers(e) : e \in is \union ({p} \ {NoKlass})} :
    \A s \in DOMAIN klass[d].methods \intersect DOMAIN b.methods :
      CASE klass[d].methods[s] = "private" -> TRUE
        [] klass[d].methods[s] = "static" -> b.methods[s] = "static"
        [] OTHER -> b.methods[s] \in {"public", "abstract"}

(* What a class file of that sort may declare.                             *)
Members(c, b) ==
  IF IsInterface(c)
  THEN /\ b.fields = <<>>
       /\ \A s \in DOMAIN b.methods : b.methods[s] # "private"
  ELSE c = Object =>
         /\ b.fields = <<>> /\ b.statics = <<>>
         /\ \A s \in DOMAIN b.methods : b.methods[s] = "public"

Link(c) ==
  \E p \in Linked \union {NoKlass}, is \in SUBSET (Linked \intersect InterfaceNames),
     b \in Bodies :
    /\ c \notin Linked
    /\ p = NoKlass <=> c = Object
    /\ c = Object => is = {}
    /\ IsInterface(c) => p = Object
    /\ ~IsInterface(c) => p \notin InterfaceNames
    /\ Members(c, b) /\ Legal(p, is, b)
    /\ klass' = [d \in Linked \union {c} |->
                   IF d = c THEN InstanceKlass(c, p, is, b) ELSE klass[d]]
    /\ UNCHANGED stale

Init ==
  /\ klass = <<>>
  /\ stale \in {NoMethod, Garbage}

Next == \E c \in Names : Link(c)

Spec == Init /\ [][Next]_vars

-----------------------------------------------------------------------------
(* get_field(descriptor): the declaring class of the field that a Fieldref *)
(* to class c resolves to.  The layout searched for an instance field is   *)
(* that of c itself, under the name of each superclass in turn.            *)
get_field_SuperclassFirst(c, s) ==
  LET search[k \in Linked \X Linked] ==
        LET this == k[1]
            at == k[2]
            up == IF klass[at].parent = NoKlass THEN {}
                  ELSE search[<<this, klass[at].parent>>]
        IN  IF <<at, s>> \in DOMAIN klass[this].fields_layout
               \/ s \in DOMAIN klass[at].static_fields_layout THEN {at}
            ELSE IF up # {} THEN up
            ELSE UNION {search[<<i, i>>] : i \in klass[at].interfaces}
  IN  search[<<c, c>>]

get_field(c, s) ==
  LET search[k \in Linked \X Linked] ==
        LET this == k[1]
            at == k[2]
            up == UNION {search[<<i, i>>] : i \in klass[at].interfaces}
        IN  IF <<at, s>> \in DOMAIN klass[this].fields_layout
               \/ s \in DOMAIN klass[at].static_fields_layout THEN {at}
            ELSE IF up # {} THEN up
            ELSE IF klass[at].parent = NoKlass THEN {}
            ELSE search[<<this, klass[at].parent>>]
  IN  search[<<c, c>>]

(* get_all_field_offset: the offset Unsafe hands out for a field.          *)
get_all_field_offset(c, s) ==
  IF <<c, s>> \in DOMAIN klass[c].fields_layout
  THEN klass[c].fields_layout[<<c, s>>]
  ELSE klass[c].static_fields_layout[s] + klass[c].total_non_static_fields_num

(* get_inner_oop_from_instance_oop_of_static_or_non_static_fields: the     *)
(* field an offset denotes in an object of class c.                        *)
FieldsAt(c, offset) ==
  IF klass[c].total_non_static_fields_num <= offset
  THEN {<<c, s>> : s \in {s \in DOMAIN klass[c].static_fields_layout :
          klass[c].static_fields_layout[s]
            = offset - klass[c].total_non_static_fields_num}}
  ELSE {k \in DOMAIN klass[c].fields_layout :
          klass[c].fields_layout[k] = offset}

(* The first result that is not null, of calls made in an arbitrary order. *)
FirstOf(results) ==
  ((UNION results) \ {NoMethod})
    \union (IF \A r \in results : NoMethod \in r THEN {NoMethod} ELSE {})

(* get_interface_method and get_class_method.  Each ends with a test of    *)
(* target, which nothing has assigned when java/lang/Object is reached.    *)
get_interface_method(c, s) ==
  LET search[d \in Linked] ==
        LET up == FirstOf({search[i] : i \in klass[d].interfaces})
            parent == IF klass[d].parent = NoKlass THEN {stale}
                      ELSE search[klass[d].parent]
        IN  IF s \in DOMAIN klass[d].methods THEN {d}
            ELSE (up \ {NoMethod})
                   \union (IF NoMethod \in up THEN parent ELSE {})
  IN  search[c]

get_class_method(c, s) ==
  LET search[d \in Linked] ==
        LET up == FirstOf({get_interface_method(i, s) : i \in klass[d].interfaces})
            parent == IF klass[d].parent = NoKlass THEN {stale}
                      ELSE search[klass[d].parent]
        IN  IF s \in DOMAIN klass[d].methods THEN {d}
            ELSE (parent \ {NoMethod})
                   \union (IF NoMethod \in parent THEN up ELSE {})
  IN  search[c]

search_vtable(c, s) ==
  IF s \in DOMAIN klass[c].vtable THEN klass[c].vtable[s] ELSE NoMethod

(* The selection of invokevirtual and of invokeinterface in an object of   *)
(* class c, by the signature of the resolved method.                       *)
Selected(instruction, c, s) ==
  IF instruction = "invokevirtual" THEN {search_vtable(c, s)}
  ELSE get_class_method(c, s)

-----------------------------------------------------------------------------
(* check_interfaces, check_parent and check_instanceof.  A type is a class *)
(* or a primitive type under a number of array dimensions.                 *)
check_interfaces_OwnOnly(c, i) ==
  LET check[d \in Linked] ==
        i \in klass[d].interfaces \/ \E e \in klass[d].interfaces : check[e]
  IN  check[c]

check_interfaces(c, i) ==
  LET check[d \in Linked] ==
        \/ i \in klass[d].interfaces
        \/ \E e \in klass[d].interfaces : check[e]
        \/ klass[d].parent # NoKlass /\ check[klass[d].parent]
  IN  check[c]

check_parent(c, e) ==
  LET check[d \in Linked] ==
        /\ klass[d].parent # NoKlass
        /\ klass[d].parent = e \/ check[klass[d].parent]
  IN  check[c]

TypeArrays == {[elem |-> "int", dim |-> n] : n \in 1 .. 2}

Types == [elem : Linked, dim : 0 .. 2] \union TypeArrays

check_instanceof(ref, type) ==
  IF ref.dim = 0
  THEN /\ type.dim = 0
       /\ \/ ref.elem = type.elem
          \/ IF IsInterface(type.elem) THEN check_interfaces(ref.elem, type.elem)
             ELSE check_parent(ref.elem, type.elem)
  ELSE CASE type.dim = 0 -> type.elem \in {Object} \union ArrayInterfaces
         [] type \in TypeArrays -> ref \in TypeArrays
         [] OTHER -> /\ ref \notin TypeArrays
                     /\ \/ ref.elem = type.elem
                        \/ check_parent(ref.elem, type.elem)

-----------------------------------------------------------------------------
(* The rules of the language the lookups are compared with.                *)

(* Of the classes D on one chain, the lowest.                              *)
Nearest(D) == {d \in D : \A e \in D : d \in Chain(e) => e = d}

Declaring(c, s) == {d \in Chain(c) : s \in DOMAIN klass[d].methods}

Overriders(c, s) ==
  {d \in Declaring(c, s) : klass[d].methods[s] \in {"public", "abstract"}}

DeclaresField(d, s) ==
  \/ <<d, s>> \in DOMAIN klass[d].fields_layout
  \/ s \in DOMAIN klass[d].static_fields_layout

Defaults(c, s) ==
  {i \in Supers(c) : IsInterface(i) /\ s \in DOMAIN klass[i].methods}

SubType(ref, type) ==
  \/ ref.dim = type.dim /\ ref.elem = type.elem
  \/ /\ ref \notin TypeArrays /\ type \notin TypeArrays
     /\ ref.dim = type.dim
     /\ type.elem \in Supers(ref.elem)
  \/ /\ ref.dim > type.dim
     /\ type.elem \in {Object} \union ArrayInterfaces

(* Every field of an object has a place of its own, in the object of every *)
(* subclass the same one: a field of a class c is found at one offset,     *)
(* which is below the length of the object, in all its subclasses, and the *)
(* offset Unsafe computes from c denotes that field in each of them.  The  *)
(* code never re-numbers a field once a subclass has copied its layout     *)
(* (parse_fields).                                                         *)
LayoutSound ==
  \A c \in Linked :
    LET layout == klass[c].fields_layout IN
    /\ \A j, k \in DOMAIN layout : layout[j] = layout[k] => j = k
    /\ \A k \in DOMAIN layout :
         /\ layout[k] < klass[c].total_non_static_fields_num
         /\ FieldsAt(c, get_all_field_offset(k[1], k[2])) = {k}
    /\ \A d \in Chain(c) : \A s \in FieldSigs :
         <<d, s>> \in DOMAIN klass[d].fields_layout => <<d, s>> \in DOMAIN layout
    /\ \A s \in DOMAIN klass[c].static_fields_layout :
         FieldsAt(c, get_all_field_offset(c, s)) = {<<c, s>>}

(* A field reference resolves to the field the language means (JVMS        *)
(* 5.4.3.2): one the class declares, else one of its superinterfaces, else *)
(* the one its superclass resolves to; and to none only when no supertype  *)
(* declares one.  get_field gets there through the layout of the class the *)
(* search began at and the static layouts of the others.                   *)
FieldsResolve ==
  \A c \in Linked, s \in FieldSigs :
    LET found == get_field(c, s)
        own(d) == {i \in UNION {Supers(j) : j \in klass[d].interfaces} :
                     IsInterface(i) /\ DeclaresField(i, s)}
        levels == {d \in Chain(c) : DeclaresField(d, s) \/ own(d) # {}}
    IN  /\ found = {} <=> \A d \in Supers(c) : ~DeclaresField(d, s)
        /\ \A f \in found : f \in Supers(c) /\ DeclaresField(f, s)
        /\ ~IsInterface(c) =>
             \A d \in Nearest(levels) :
               IF DeclaresField(d, s) THEN found = {d} ELSE found \subseteq own(d)

(* The method an invokevirtual or an invokeinterface runs is the one that  *)
(* overrides: the declaration nearest to the object's class among its      *)
(* superclasses, whatever the uninitialised pointer of get_class_method    *)
(* holds; and when no superclass declares one, invokeinterface runs a      *)
(* method of a superinterface, provided the pointer happens to be null.    *)
SelectionRight ==
  \A c \in Linked \ InterfaceNames, s \in MethodSigs :
    /\ Overriders(c, s) # {} =>
         \A instruction \in {"invokevirtual", "invokeinterface"} :
           Selected(instruction, c, s) = Nearest(Overriders(c, s))
    /\ Declaring(c, s) = {} /\ Defaults(c, s) # {} /\ stale = NoMethod =>
         /\ Selected("invokeinterface", c, s) # {}
         /\ Selected("invokeinterface", c, s) \subseteq Defaults(c, s)

(* instanceof, checkcast and the search for an exception handler decide    *)
(* the subtype relation, for the types check_instanceof is prepared for:   *)
(* arrays of the same dimension, whose element is not an interface.        *)
InstanceOfRight ==
  \A ref, type \in Types :
    /\ ref.dim = 0 => ref.elem \notin InterfaceNames
    /\ type.dim \in {0, ref.dim}
    /\ type.dim > 0 => type.elem \notin InterfaceNames
    => (check_instanceof(ref, type) <=> SubType(ref, type))

-----------------------------------------------------------------------------
(* The inductive invariant behind the four.                                *)

(* Where a class may stand: under Object, over what it extends.            *)
Hierarchy ==
  /\ Linked \subseteq Names
  /\ \A c \in Linked :
       /\ klass[c].parent \in Linked \union {NoKlass}
       /\ klass[c].interfaces \subseteq Linked \intersect InterfaceNames
       /\ klass[c].parent = NoKlass <=> c = Object
       /\ c = Object => klass[c].interfaces = {}
       /\ IF IsInterface(c) THEN klass[c].parent = Object
          ELSE klass[c].parent \notin InterfaceNames

(* A class is still what the constructor made of its class file, and of    *)
(* the classes above it as they are now.                                   *)
Built ==
  \A c \in Linked :
    \E p \in Linked \union {NoKlass}, is \in SUBSET Linked, b \in Bodies :
      /\ klass[c] = InstanceKlass(c, p, is, b)
      /\ Members(c, b) /\ Legal(p, is, b)

(* No class is above itself: in every set of classes, one has nothing of   *)
(* the set directly above it.                                              *)
Grounded ==
  \A D \in SUBSET Linked :
    D # {} => \E d \in D : Direct(d) \intersect D = {}

LInv ==
  /\ klass = [c \in Linked |-> klass[c]]
  /\ stale \in {NoMethod, Garbage}
  /\ Hierarchy
  /\ Built
  /\ Grounded
=============================================================================
