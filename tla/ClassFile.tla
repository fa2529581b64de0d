----------------------------- MODULE ClassFile -----------------------------
(***************************************************************************)
(* The class file reader, class_parser.cpp.  It reads field after field    *)
(* from the stream, steered by the counts and tags it meets; it skips      *)
(* nothing, and the attribute_length of an attribute decides (but for      *)
(* SourceDebugExtension) nothing: whether the next structure is read from  *)
(* where it begins depends on every reader before it having read as many   *)
(* bytes as the format gives that structure.  Of annotations it keeps the  *)
(* bytes, for java.lang.reflect, by injecting again what it has read.      *)
(*                                                                         *)
(* What is still to be read is a stack of symbols, the next one first:     *)
(*   Field(w)     a value of w bytes on which nothing depends              *)
(*   Table(w, x)  a count of w bytes, and that many x                      *)
(*   Tag(x)       one byte, and what that byte makes of x                  *)
(*   Part(x)      what the operator >> of x reads                          *)
(* The file itself is chosen as it is read.                                *)
(***************************************************************************)
EXTENDS Integers, Sequences

CONSTANTS MaxCount,   \* bound: entries of a table
          MaxPool,    \* bound: slots of the constant pool
          MaxPending  \* bound: symbols on the stack, for nested annotations

ASSUME BoundsAssumption ==
  MaxCount \in Nat /\ MaxPool \in Nat /\ MaxPending \in Nat

VARIABLES todo,  \* the stack of what is still to be read
          open,  \* the structures that are being read, the innermost first
          pool,  \* constant_pool: of the slots in use, whether Long or Double
          freed  \* the slots of the constant pool that were deleted

vars == <<todo, open, pool, freed>>

Field(w) == <<"field", w>>
Table(w, x) == <<"table", w, x>>
Tag(x) == <<"tag", x>>
Part(x) == <<"part", x>>

-----------------------------------------------------------------------------
(* What the readers read.                                                  *)

(* ClassFile: the header, and after the constant pool the class itself.    *)
HeaderReads == <<Field(4), Field(2), Field(2), Field(2), <<"pool">>>>

ClassReads ==
  <<Field(2), Field(2), Field(2),
    Table(2, "interface"), Table(2, "field_info"), Table(2, "method_info"),
    Table(2, "class_attribute")>>

ConstantReads(tag) ==
  CASE tag \in {7, 8, 16} -> <<Field(1), Field(2)>>
    [] tag \in {9, 10, 11, 12, 18} -> <<Field(1), Field(2), Field(2)>>
    [] tag \in {3, 4} -> <<Field(1), Field(4)>>
    [] tag \in {5, 6} -> <<Field(1), Field(4), Field(4)>>
    [] tag = 1 -> <<Field(1), Table(2, "byte")>>
    [] tag = 15 -> <<Field(1), Field(1), Field(2)>>

MemberReads ==
  [interface |-> <<Field(2)>>,
   byte |-> <<Field(1)>>,
   field_info |-> <<Field(2), Field(2), Field(2), Table(2, "field_attribute")>>,
   method_info |-> <<Field(2), Field(2), Field(2), Table(2, "method_attribute")>>]

CodeReads ==
  [Code |-> <<Field(2), Field(2), Table(4, "byte"),
              Table(2, "exception_table_t"), Table(2, "code_attribute")>>,
   exception_table_t |-> <<Field(2), Field(2), Field(2), Field(2)>>]

StackMapReads ==
  [StackMapTable |-> <<Table(2, "stack_map_frame")>>,
   stack_map_frame |-> <<Tag("frame")>>,
   verification_type_info |-> <<Tag("verification_type")>>]

(* A mutant: the offset of an Uninitialized variable is not read.          *)
VerificationTypeReads_ObjectOnly(tag) == IF tag = 7 THEN <<Field(2)>> ELSE <<>>

(* create_verification_type and peek_stackmaptable_frame, by the tag that  *)
(* they peek and their reader reads again.                                 *)
VerificationTypeReads(tag) == IF tag \in {7, 8} THEN <<Field(2)>> ELSE <<>>

Locals(n) == [i \in 1 .. n |-> Part("verification_type_info")]

FrameReads(tag) ==
  CASE tag \in 0 .. 63 -> <<>>
    [] tag \in 64 .. 127 -> Locals(1)
    [] tag = 247 -> <<Field(2)>> \o Locals(1)
    [] tag \in 248 .. 251 -> <<Field(2)>>
    [] tag \in 252 .. 254 -> <<Field(2)>> \o Locals(tag - 251)
    [] tag = 255 -> <<Field(2), Table(2, "verification_type_info"),
                      Table(2, "verification_type_info")>>

PlainReads ==
  [ConstantValue |-> <<Field(2)>>,
   Exceptions |-> <<Table(2, "exception_index")>>,
   exception_index |-> <<Field(2)>>,
   InnerClasses |-> <<Table(2, "classes_t")>>,
   classes_t |-> <<Field(2), Field(2), Field(2), Field(2)>>,
   EnclosingMethod |-> <<Field(2), Field(2)>>,
   Synthetic |-> <<>>,
   Signature |-> <<Field(2)>>,
   SourceFile |-> <<Field(2)>>,
   LineNumberTable |-> <<Table(2, "line_number_table_t")>>,
   line_number_table_t |-> <<Field(2), Field(2)>>,
   LocalVariableTable |-> <<Table(2, "local_variable_table_t")>>,
   local_variable_table_t |->
     <<Field(2), Field(2), Field(2), Field(2), Field(2)>>,
   LocalVariableTypeTable |-> <<Table(2, "local_variable_type_table_t")>>,
   local_variable_type_table_t |->
     <<Field(2), Field(2), Field(2), Field(2), Field(2)>>,
   Deprecated |-> <<>>]

ElementReads ==
  [element_value |-> <<Tag("element")>>,
   const_value_t |-> <<Field(2)>>,
   enum_const_value_t |-> <<Field(2), Field(2)>>,
   class_info_t |-> <<Field(2)>>,
   array_value_t |-> <<Table(2, "element_value")>>,
   annotation |-> <<Field(2), Table(2, "element_value_pairs_t")>>,
   element_value_pairs_t |-> <<Field(2), Part("element_value")>>]

ConstTags == {"B", "C", "D", "F", "I", "J", "S", "Z", "s"}

ElementValueReads(tag) ==
  CASE tag \in ConstTags -> <<Part("const_value_t")>>
    [] tag = "e" -> <<Part("enum_const_value_t")>>
    [] tag = "c" -> <<Part("class_info_t")>>
    [] tag = "@" -> <<Part("annotation")>>
    [] tag = "[" -> <<Part("array_value_t")>>

TypeAnnotationReads ==
  [type_annotation |-> <<Tag("target"), Part("type_path"), Part("annotation")>>,
   type_parameter_target |-> <<Field(1)>>,
   supertype_target |-> <<Field(2)>>,
   type_parameter_bound_target |-> <<Field(1), Field(1)>>,
   empty_target |-> <<>>,
   formal_parameter_target |-> <<Field(1)>>,
   throws_target |-> <<Field(2)>>,
   localvar_target |-> <<Table(2, "table_t")>>,
   table_t |-> <<Field(2), Field(2), Field(2)>>,
   catch_target |-> <<Field(2)>>,
   offset_target |-> <<Field(2)>>,
   type_argument_target |-> <<Field(2), Field(1)>>,
   type_path |-> <<Table(1, "path_t")>>,
   path_t |-> <<Field(1), Field(1)>>]

TargetReads(tag) ==
  CASE tag \in {0, 1} -> <<Part("type_parameter_target")>>
    [] tag = 16 -> <<Part("supertype_target")>>
    [] tag \in {17, 18} -> <<Part("type_parameter_bound_target")>>
    [] tag \in 19 .. 21 -> <<Part("empty_target")>>
    [] tag = 22 -> <<Part("formal_parameter_target")>>
    [] tag = 23 -> <<Part("throws_target")>>
    [] tag \in {64, 65} -> <<Part("localvar_target")>>
    [] tag = 66 -> <<Part("catch_target")>>
    [] tag \in 67 .. 70 -> <<Part("offset_target")>>
    [] tag \in 71 .. 75 -> <<Part("type_argument_target")>>

RuntimeReads ==
  [RuntimeVisibleAnnotations |-> <<Part("parameter_annotations_t")>>,
   RuntimeInvisibleAnnotations |-> <<Part("parameter_annotations_t")>>,
   parameter_annotations_t |-> <<Table(2, "annotation")>>,
   RuntimeVisibleParameterAnnotations |-> <<Table(1, "parameter_annotations_t")>>,
   RuntimeInvisibleParameterAnnotations |-> <<Table(1, "parameter_annotations_t")>>,
   RuntimeVisibleTypeAnnotations |-> <<Table(2, "type_annotation")>>,
   RuntimeInvisibleTypeAnnotations |-> <<Table(2, "type_annotation")>>,
   AnnotationDefault |-> <<Part("element_value")>>,
   BootstrapMethods |-> <<Table(2, "bootstrap_methods_t")>>,
   bootstrap_methods_t |-> <<Field(2), Table(2, "bootstrap_argument")>>,
   bootstrap_argument |-> <<Field(2)>>,
   MethodParameters |-> <<Table(1, "parameters_t")>>,
   parameters_t |-> <<Field(2), Field(2)>>]

(* new_attribute, and the operators >> called for each part.               *)
Readers == {MemberReads, CodeReads, StackMapReads, PlainReads, ElementReads,
            TypeAnnotationReads, RuntimeReads}

Reads(x) == (CHOOSE r \in Readers : x \in DOMAIN r)[x]

TagReads(x, tag) ==
  CASE x = "verification_type" -> VerificationTypeReads(tag)
    [] x = "frame" -> FrameReads(tag)
    [] x = "element" -> ElementValueReads(tag)
    [] x = "target" -> TargetReads(tag)

(* The bytes each operator >> injects into its CodeStub of its own: the    *)
(* widths are those its struct declares.  The stubs of its parts follow.   *)
Injected ==
  [const_value_t |-> 2, enum_const_value_t |-> 2 + 2, class_info_t |-> 2,
   array_value_t |-> 2, element_value |-> 1, element_value_pairs_t |-> 2,
   annotation |-> 2 + 2, parameter_annotations_t |-> 2]

(* A mutant: the length of a type_path is left out.                        *)
InjectedByTargets_NoPathLength ==
  [type_parameter_target |-> 1, supertype_target |-> 2,
   type_parameter_bound_target |-> 1 + 1, empty_target |-> 0,
   formal_parameter_target |-> 1, throws_target |-> 2, localvar_target |-> 2,
   table_t |-> 2 + 2 + 2, catch_target |-> 2, offset_target |-> 2,
   type_argument_target |-> 2 + 1, type_path |-> 0, path_t |-> 1 + 1,
   type_annotation |-> 1]

InjectedByTargets ==
  [type_parameter_target |-> 1, supertype_target |-> 2,
   type_parameter_bound_target |-> 1 + 1, empty_target |-> 0,
   formal_parameter_target |-> 1, throws_target |-> 2, localvar_target |-> 2,
   table_t |-> 2 + 2 + 2, catch_target |-> 2, offset_target |-> 2,
   type_argument_target |-> 2 + 1, type_path |-> 1, path_t |-> 1 + 1,
   type_annotation |-> 1]

(* The attributes that keep a stub, and what they add to those of their    *)
(* parts (or compare with attribute_length).                               *)
InjectedByAttributes ==
  [RuntimeVisibleAnnotations |-> 0, RuntimeInvisibleAnnotations |-> 0,
   RuntimeVisibleParameterAnnotations |-> 1,
   RuntimeInvisibleParameterAnnotations |-> 1,
   RuntimeVisibleTypeAnnotations |-> 2, RuntimeInvisibleTypeAnnotations |-> 2,
   AnnotationDefault |-> 0]

StubOf(x) ==
  CASE x \in DOMAIN Injected -> Injected[x]
    [] x \in DOMAIN InjectedByTargets -> InjectedByTargets[x]
    [] x \in DOMAIN InjectedByAttributes -> InjectedByAttributes[x]
    [] OTHER -> 0

(* The attributes the constructors of InstanceKlass, Field_info and Method *)
(* handle (any other is an assertion failure).                             *)
ClassHandles ==
  {"InnerClasses", "EnclosingMethod", "Synthetic", "Signature", "SourceFile",
   "SourceDebugExtension", "Deprecated", "RuntimeVisibleAnnotations",
   "RuntimeInvisibleAnnotations", "RuntimeVisibleTypeAnnotations",
   "RuntimeInvisibleTypeAnnotations", "BootstrapMethods"}

FieldHandles ==
  {"ConstantValue", "Synthetic", "Signature", "Deprecated",
   "RuntimeVisibleAnnotations", "RuntimeInvisibleAnnotations",
   "RuntimeVisibleTypeAnnotations", "RuntimeInvisibleTypeAnnotations"}

CodeHandles ==
  {"StackMapTable", "LineNumberTable", "LocalVariableTable",
   "LocalVariableTypeTable", "RuntimeVisibleTypeAnnotations",
   "RuntimeInvisibleTypeAnnotations"}

MethodHandles ==
  {"Code", "Exceptions", "Synthetic", "Signature", "Deprecated",
   "RuntimeVisibleAnnotations", "RuntimeInvisibleAnnotations",
   "RuntimeVisibleParameterAnnotations", "RuntimeInvisibleParameterAnnotations",
   "RuntimeVisibleTypeAnnotations", "RuntimeInvisibleTypeAnnotations",
   "AnnotationDefault", "MethodParameters"}

Handles(place) ==
  CASE place = "class_attribute" -> ClassHandles
    [] place = "field_attribute" -> FieldHandles
    [] place = "method_attribute" -> MethodHandles
    [] place = "code_attribute" -> CodeHandles

-----------------------------------------------------------------------------
(* What the format gives each structure: chapter 4 of the specification of *)
(* the virtual machine, which the repository's reader follows (external).  *)
(* Tables, and what a tag decides, are counted when they are announced.    *)

ConstantLength(tag) ==
  CASE tag \in {7, 8, 16} -> 3
    [] tag \in {3, 4, 9, 10, 11, 12, 18} -> 5
    [] tag \in {5, 6} -> 9
    [] tag = 1 -> 3
    [] tag = 15 -> 4

AttributeLength(kind) ==
  CASE kind \in {"Synthetic", "Deprecated", "SourceDebugExtension"} -> 0
    [] kind \in {"RuntimeVisibleParameterAnnotations",
                 "RuntimeInvisibleParameterAnnotations",
                 "AnnotationDefault", "MethodParameters"} -> 1
    [] kind = "EnclosingMethod" -> 4
    [] kind = "Code" -> 12
    [] OTHER -> 2

EntryLength(x) ==
  CASE x \in {"byte", "stack_map_frame", "verification_type_info",
              "element_value"} -> 1
    [] x \in {"interface", "exception_index", "bootstrap_argument",
              "parameter_annotations_t", "path_t"} -> 2
    [] x = "element_value_pairs_t" -> 3
    [] x \in {"line_number_table_t", "bootstrap_methods_t", "parameters_t",
              "annotation"} -> 4
    [] x \in {"class_attribute", "field_attribute", "method_attribute",
              "code_attribute", "table_t", "type_annotation"} -> 6
    [] x \in {"field_info", "method_info", "exception_table_t", "classes_t"} -> 8
    [] x \in {"local_variable_table_t", "local_variable_type_table_t"} -> 10

FrameLength(tag) ==
  CASE tag < 64 -> 0
    [] tag \in 64 .. 127 -> 1
    [] tag = 247 -> 3
    [] tag \in 248 .. 251 -> 2
    [] tag \in 252 .. 254 -> 2 + (tag - 251)
    [] tag = 255 -> 6

TargetLength(tag) ==
  CASE tag \in {0, 1, 22} -> 1
    [] tag \in 19 .. 21 -> 0
    [] tag \in 71 .. 75 -> 3
    [] OTHER -> 2

TagLength(x, tag) ==
  CASE x = "verification_type" -> IF tag \in {7, 8} THEN 2 ELSE 0
    [] x = "frame" -> FrameLength(tag)
    [] x = "element" -> IF tag \in {"e", "@"} THEN 4 ELSE 2
    [] x = "target" -> TargetLength(tag)

(* The tags of the format.                                                 *)
Tags(x) ==
  CASE x = "verification_type" -> 0 .. 8
    [] x = "frame" -> 0 .. 127 \cup 247 .. 255
    [] x = "element" -> ConstTags \cup {"e", "c", "@", "["}
    [] x = "target" -> 0 .. 1 \cup 16 .. 23 \cup 64 .. 75

ConstantTags == {1, 15, 16, 18} \cup 3 .. 12

-----------------------------------------------------------------------------
(* Reading.  An open structure counts the bytes of the format that are not *)
(* read yet, and those not yet in its stub.                                *)

Opened(kind, length) ==
  [kind |-> kind, left |-> length,
   missing |-> IF kind \in DOMAIN InjectedByAttributes
                 THEN length - InjectedByAttributes[kind]
                 ELSE 0]

KeepsStub(s) == s.kind \in DOMAIN InjectedByAttributes

Close == <<"close">>

(* The innermost structure after reading r bytes that announce more bytes. *)
Reading(r, more) ==
  LET s == Head(open)
  IN  <<[s EXCEPT !.left = @ - r + more,
                  !.missing = IF KeepsStub(s) THEN @ + more ELSE 0]>>
        \o Tail(open)

Is(symbol) == todo # <<>> /\ Head(todo)[1] = symbol

ReadField ==
  /\ Is("field")
  /\ open' = Reading(Head(todo)[2], 0)
  /\ todo' = Tail(todo)
  /\ UNCHANGED <<pool, freed>>

ReadTable ==
  /\ Is("table")
  /\ \E n \in 0 .. MaxCount :
       LET w == Head(todo)[2]
           x == Head(todo)[3]
       IN  /\ open' = Reading(w, n * EntryLength(x))
           /\ todo' = [i \in 1 .. n |-> Part(x)] \o Tail(todo)
  /\ UNCHANGED <<pool, freed>>

(* An annotation in an annotation, and an array, only within the bound.    *)
ReadTag ==
  /\ Is("tag")
  /\ \E tag \in Tags(Head(todo)[2]) :
       LET x == Head(todo)[2]
       IN  /\ x = "element" /\ tag \in {"@", "["} => Len(todo) =< MaxPending
           /\ open' = Reading(1, TagLength(x, tag))
           /\ todo' = TagReads(x, tag) \o Tail(todo)
  /\ UNCHANGED <<pool, freed>>

Places == {"class_attribute", "field_attribute", "method_attribute",
           "code_attribute"}

(* The operator >> of a part; it injects, too, into the stub.              *)
ReadPart ==
  /\ Is("part")
  /\ LET x == Head(todo)[2]
         s == Head(open)
     IN  /\ x \notin Places
         /\ open' = <<[s EXCEPT !.missing =
                         IF KeepsStub(s) THEN @ - StubOf(x) ELSE 0]>> \o Tail(open)
         /\ todo' = Reads(x) \o Tail(todo)
  /\ UNCHANGED <<pool, freed>>

(* new_attribute: attribute_info, then what the name in the constant pool  *)
(* says.  SourceDebugExtension alone is read by its attribute_length.      *)
new_attribute ==
  /\ Is("part") /\ Head(todo)[2] \in Places
  /\ \E kind \in Handles(Head(todo)[2]), n \in 0 .. MaxCount :
       LET debug == kind = "SourceDebugExtension"
           reads == IF debug THEN [i \in 1 .. n |-> Field(1)] ELSE Reads(kind)
       IN  /\ n = 0 \/ debug
           /\ open' = <<Opened(kind, AttributeLength(kind) + n)>> \o Reading(6, 0)
           /\ todo' = reads \o <<Close>> \o Tail(todo)
  /\ UNCHANGED <<pool, freed>>

(* One constant; a Long or a Double takes two slots.                       *)
ReadConstant ==
  /\ Is("pool")
  /\ \E tag \in ConstantTags :
       LET slots == IF tag \in {5, 6} THEN <<"wide", "unused">> ELSE <<"one">>
       IN  /\ Len(pool) + Len(slots) =< MaxPool
           /\ pool' = pool \o slots
           /\ open' = <<Opened("constant", ConstantLength(tag))>> \o open
           /\ todo' = ConstantReads(tag) \o <<Close>> \o todo
  /\ UNCHANGED freed

EndPool ==
  /\ Is("pool")
  /\ todo' = ClassReads \o Tail(todo)
  /\ UNCHANGED <<open, pool, freed>>

CloseStructure ==
  /\ Is("close")
  /\ open' = Tail(open)
  /\ todo' = Tail(todo)
  /\ UNCHANGED <<pool, freed>>

(* ~ClassFile and ~InstanceKlass: the slot the loop deletes next.          *)
NextSlot_EverySlot == Len(freed) + 1

NextSlot ==
  IF freed = <<>>
    THEN 1
    ELSE LET i == freed[Len(freed)]
         IN  IF pool[i] = "wide" THEN i + 2 ELSE i + 1

Release ==
  /\ todo = <<>>
  /\ NextSlot =< Len(pool)
  /\ freed' = Append(freed, NextSlot)
  /\ UNCHANGED <<todo, open, pool>>

(* The class file begins; 24 bytes are of fixed structure.                 *)
Init ==
  /\ todo = HeaderReads \o <<Close>>
  /\ open = <<Opened("ClassFile", 24)>>
  /\ pool = <<>>
  /\ freed = <<>>

Next ==
  \/ ReadField
  \/ ReadTable
  \/ ReadTag
  \/ ReadPart
  \/ new_attribute
  \/ ReadConstant
  \/ EndPool
  \/ CloseStructure
  \/ Release

Spec == Init /\ [][Next]_vars

-----------------------------------------------------------------------------
(* Every structure -- the class file, a constant, an attribute at any      *)
(* place, whatever its counts and tags -- is read to its last byte and no  *)
(* further, so the next one is read from where it begins.                  *)
FitsItsLength ==
  /\ \A i \in 1 .. Len(open) : open[i].left >= 0
  /\ Is("close") => Head(open).left = 0

(* When an attribute of annotations has been read its stub, by which       *)
(* java.lang.reflect reads them a second time and which the reader asserts *)
(* to be attribute_length long, holds as many bytes as were read.          *)
StubsComplete == Is("close") => Head(open).missing = 0

(* The destructor deletes every slot that holds a constant once, and none  *)
(* of the slots after a Long or a Double, which hold no pointer.           *)
PoolReleased ==
  LET constants == {i \in 1 .. Len(pool) : pool[i] # "unused"}
  IN  /\ \A k \in 1 .. Len(freed) : freed[k] \in constants
      /\ \A k \in 1 .. Len(freed) : k > 1 => freed[k - 1] < freed[k]
      /\ todo = <<>> /\ NextSlot > Len(pool) =>
           constants = {freed[k] : k \in 1 .. Len(freed)}

(* Inductive, of the pool: a Long or a Double and the slot after it go     *)
(* together, and the slots before the next one to be deleted are those     *)
(* that were.                                                              *)
PInv ==
  /\ pool \in Seq({"wide", "unused", "one"})
  /\ freed \in Seq(Nat)
  /\ \A i \in 1 .. Len(pool) :
       /\ pool[i] = "wide" => i < Len(pool) /\ pool[i + 1] = "unused"
       /\ pool[i] = "unused" => i > 1 /\ pool[i - 1] = "wide"
  /\ freed # <<>> => todo = <<>>
  /\ \A k \in 1 .. Len(freed) :
       /\ freed[k] \in 1 .. Len(pool) /\ pool[freed[k]] # "unused"
       /\ freed[k] < NextSlot
       /\ k > 1 => freed[k - 1] < freed[k]
  /\ \A i \in 1 .. Len(pool) : pool[i] # "unused" /\ i < NextSlot =>
       \E k \in 1 .. Len(freed) : freed[k] = i
=============================================================================
