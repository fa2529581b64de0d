---------------------------- MODULE ClassFileProofs ----------------------------
(* The class file reader, for tables of any length, constant pools of any  *)
(* size and annotations nested to any depth.                               *)
EXTENDS ClassFile, SequenceTheorems, TLAPS

-----------------------------------------------------------------------------
(* The constant pool.                                                      *)

(* The next slot is one of a constant.                                     *)
LEMMA NextSlotHolds ==
  ASSUME PInv
  PROVE  /\ NextSlot \in Nat \ {0}
         /\ NextSlot =< Len(pool) => pool[NextSlot] # "unused"
  <1>1. CASE freed = <<>>
    BY <1>1 DEF PInv, NextSlot
  <1>2. CASE freed # <<>>
    <2> DEFINE i == freed[Len(freed)]
    <2>1. Len(freed) \in 1 .. Len(freed) /\ Len(pool) \in Nat
      BY <1>2 DEF PInv
    <2>2. i \in 1 .. Len(pool) /\ pool[i] # "unused"
      BY <2>1 DEF PInv
    <2>3. NextSlot = IF pool[i] = "wide" THEN i + 2 ELSE i + 1
      BY <1>2 DEF NextSlot
    <2>4. pool[i] = "wide" => pool[i + 1] = "unused" /\ i + 1 \in 1 .. Len(pool)
      BY <2>1, <2>2 DEF PInv
    <2>5. NextSlot =< Len(pool) /\ pool[NextSlot] = "unused" => pool[NextSlot - 1] = "wide"
      BY <2>1, <2>2, <2>3 DEF PInv
    <2> HIDE DEF i
    <2> QED BY <2>1, <2>2, <2>3, <2>4, <2>5
  <1> QED BY <1>1, <1>2

(* Reading a constant keeps the slots in pairs.                            *)
LEMMA PInvReadConstant == PInv /\ ReadConstant => PInv'
  <1> SUFFICES ASSUME PInv, ReadConstant PROVE PInv'
    OBVIOUS
  <1>1. PICK tag \in ConstantTags :
          pool' = pool \o (IF tag \in {5, 6} THEN <<"wide", "unused">> ELSE <<"one">>)
    BY DEF ReadConstant
  <1>2. todo # <<>> /\ freed = <<>> /\ freed' = <<>>
    BY DEF ReadConstant, Is, PInv
  <1>3. pool \in Seq({"wide", "unused", "one"}) /\ Len(pool) \in Nat
    BY DEF PInv
  <1>4. NextSlot' = 1
    BY <1>2 DEF NextSlot
  <1>5. CASE tag \in {5, 6}
    <2>1. pool' = pool \o <<"wide", "unused">>
      BY <1>1, <1>5
    <2>2. /\ pool' \in Seq({"wide", "unused", "one"})
          /\ Len(pool') = Len(pool) + 2
          /\ \A i \in 1 .. Len(pool) : pool'[i] = pool[i]
          /\ pool'[Len(pool) + 1] = "wide"
          /\ pool'[Len(pool) + 2] = "unused"
      BY <1>3, <2>1
    <2>3. ASSUME NEW i \in 1 .. Len(pool')
          PROVE  /\ pool'[i] = "wide" => i < Len(pool') /\ pool'[i + 1] = "unused"
                 /\ pool'[i] = "unused" => i > 1 /\ pool'[i - 1] = "wide"
      <3>1. CASE i \in 1 .. Len(pool)
        <4>1. /\ pool[i] = "wide" => i < Len(pool) /\ pool[i + 1] = "unused"
              /\ pool[i] = "unused" => i > 1 /\ pool[i - 1] = "wide"
          BY <3>1 DEF PInv
        <4>2. pool'[i] = pool[i] /\ i \in Nat
          BY <2>2, <3>1
        <4>3. i < Len(pool) => i + 1 \in 1 .. Len(pool) /\ pool'[i + 1] = pool[i + 1]
          BY <1>3, <2>2, <3>1
        <4>4. i > 1 => i - 1 \in 1 .. Len(pool) /\ pool'[i - 1] = pool[i - 1]
          BY <1>3, <2>2, <3>1
        <4> QED BY <1>3, <2>2, <4>1, <4>2, <4>3, <4>4
      <3>2. CASE i = Len(pool) + 1
        BY <1>3, <2>2, <3>2
      <3>3. CASE i = Len(pool) + 2
        BY <1>3, <2>2, <3>3
      <3> QED BY <1>3, <2>2, <3>1, <3>2, <3>3
    <2> QED BY <1>2, <1>4, <2>2, <2>3 DEF PInv
  <1>6. CASE tag \notin {5, 6}
    <2>1. pool' = pool \o <<"one">>
      BY <1>1, <1>6
    <2>2. /\ pool' \in Seq({"wide", "unused", "one"})
          /\ Len(pool') = Len(pool) + 1
          /\ \A i \in 1 .. Len(pool) : pool'[i] = pool[i]
          /\ pool'[Len(pool) + 1] = "one"
      BY <1>3, <2>1
    <2>3. ASSUME NEW i \in 1 .. Len(pool')
          PROVE  /\ pool'[i] = "wide" => i < Len(pool') /\ pool'[i + 1] = "unused"
                 /\ pool'[i] = "unused" => i > 1 /\ pool'[i - 1] = "wide"
      <3>1. CASE i \in 1 .. Len(pool)
        <4>1. /\ pool[i] = "wide" => i < Len(pool) /\ pool[i + 1] = "unused"
              /\ pool[i] = "unused" => i > 1 /\ pool[i - 1] = "wide"
          BY <3>1 DEF PInv
        <4>2. pool'[i] = pool[i] /\ i \in Nat
          BY <2>2, <3>1
        <4>3. i < Len(pool) => i + 1 \in 1 .. Len(pool) /\ pool'[i + 1] = pool[i + 1]
          BY <1>3, <2>2, <3>1
        <4>4. i > 1 => i - 1 \in 1 .. Len(pool) /\ pool'[i - 1] = pool[i - 1]
          BY <1>3, <2>2, <3>1
        <4> QED BY <1>3, <2>2, <4>1, <4>2, <4>3, <4>4
      <3>2. CASE i = Len(pool) + 1
        BY <1>3, <2>2, <3>2
      <3> QED BY <1>3, <2>2, <3>1, <3>2
    <2> QED BY <1>2, <1>4, <2>2, <2>3 DEF PInv
  <1> QED BY <1>5, <1>6

(* So does deleting one.                                                   *)
LEMMA PInvRelease == PInv /\ Release => PInv'
  <1> SUFFICES ASSUME PInv, Release PROVE PInv'
    OBVIOUS
  <1> DEFINE n == NextSlot
  <1>1. /\ todo = <<>> /\ todo' = todo /\ pool' = pool
        /\ n =< Len(pool) /\ freed' = Append(freed, n)
    BY DEF Release
  <1>2. n \in Nat \ {0} /\ pool[n] # "unused" /\ n \in 1 .. Len(pool)
    BY <1>1, NextSlotHolds DEF PInv
  <1>3. freed \in Seq(Nat) /\ Len(freed) \in Nat /\ Len(pool) \in Nat
    BY DEF PInv
  <1>4. NextSlot' = IF pool[n] = "wide" THEN n + 2 ELSE n + 1
    <2>1. freed' # <<>> /\ freed'[Len(freed')] = n
      BY <1>1, <1>2, <1>3
    <2> HIDE DEF n
    <2> QED BY <1>1, <2>1 DEF NextSlot
  <1>5. \A k \in 1 .. Len(freed) : freed[k] < n /\ freed[k] \in 1 .. Len(pool)
    BY DEF PInv
  <1>6. \A i \in 1 .. Len(pool) : pool[i] # "unused" /\ i < n =>
          \E k \in 1 .. Len(freed) : freed[k] = i
    BY DEF PInv
  <1>7. pool[n] = "wide" => n < Len(pool) /\ pool[n + 1] = "unused"
    BY <1>2 DEF PInv
  <1> HIDE DEF n
  <1>8. /\ freed' \in Seq(Nat) /\ Len(freed') = Len(freed) + 1
        /\ \A k \in 1 .. Len(freed) : freed'[k] = freed[k]
        /\ freed'[Len(freed) + 1] = n
    BY <1>1, <1>2, <1>3
  <1>9. ASSUME NEW k \in 1 .. Len(freed')
        PROVE  /\ freed'[k] \in 1 .. Len(pool) /\ pool[freed'[k]] # "unused"
               /\ freed'[k] < NextSlot'
               /\ k > 1 => freed'[k - 1] < freed'[k]
    <2>1. CASE k \in 1 .. Len(freed)
      <3>1. /\ freed[k] \in 1 .. Len(pool) /\ pool[freed[k]] # "unused" /\ freed[k] < n
            /\ k > 1 => freed[k - 1] < freed[k]
        BY <1>5, <2>1 DEF PInv
      <3>2. freed'[k] = freed[k] /\ k \in Nat
        BY <1>8, <2>1
      <3>3. k > 1 => freed'[k - 1] = freed[k - 1]
        <4>1. k > 1 => k - 1 \in 1 .. Len(freed)
          BY <1>3, <2>1
        <4> QED BY <1>8, <4>1
      <3>4. n < NextSlot'
        BY <1>2, <1>4
      <3> QED BY <1>2, <1>4, <3>1, <3>2, <3>3, <3>4
    <2>2. CASE k = Len(freed) + 1
      BY <1>2, <1>3, <1>4, <1>5, <1>8, <2>2
    <2> QED BY <1>3, <1>8, <2>1, <2>2
  <1>10. ASSUME NEW i \in 1 .. Len(pool), pool[i] # "unused", i < NextSlot'
         PROVE  \E k \in 1 .. Len(freed') : freed'[k] = i
    <2>1. CASE i < n
      <3>1. PICK k \in 1 .. Len(freed) : freed[k] = i
        BY <1>6, <1>10, <2>1
      <3>2. k \in 1 .. Len(freed') /\ freed'[k] = i
        BY <1>3, <1>8, <3>1
      <3> QED BY <3>2
    <2>2. CASE i = n
      BY <1>3, <1>8, <2>2
    <2> QED BY <1>2, <1>3, <1>4, <1>7, <1>10, <2>1, <2>2
  <1> QED BY <1>1, <1>8, <1>9, <1>10 DEF PInv

LEMMA PInvStep == PInv /\ [Next]_vars => PInv'
  <1> SUFFICES ASSUME PInv, [Next]_vars PROVE PInv'
    OBVIOUS
  <1>1. CASE ReadConstant
    BY <1>1, PInvReadConstant
  <1>2. CASE Release
    BY <1>2, PInvRelease
  <1>3. ASSUME pool' = pool, freed' = freed, todo # <<>> PROVE PInv'
    <2>1. NextSlot' = NextSlot /\ freed = <<>>
      BY <1>3 DEF NextSlot, PInv
    <2> QED BY <1>3, <2>1 DEF PInv
  <1>4. CASE ReadField
    BY <1>3, <1>4 DEF ReadField, Is
  <1>5. CASE ReadTable
    BY <1>3, <1>5 DEF ReadTable, Is
  <1>6. CASE ReadTag
    BY <1>3, <1>6 DEF ReadTag, Is
  <1>7. CASE ReadPart
    BY <1>3, <1>7 DEF ReadPart, Is
  <1>8. CASE new_attribute
    BY <1>3, <1>8 DEF new_attribute, Is
  <1>9. CASE EndPool
    BY <1>3, <1>9 DEF EndPool, Is
  <1>10. CASE CloseStructure
    BY <1>3, <1>10 DEF CloseStructure, Is
  <1>11. CASE UNCHANGED vars
    BY <1>11 DEF vars, PInv, NextSlot
  <1> QED BY <1>1, <1>2, <1>4, <1>5, <1>6, <1>7, <1>8, <1>9, <1>10, <1>11 DEF Next

LEMMA PInvInvariant == Spec => []PInv
  <1>1. Init => PInv
    BY DEF Init, PInv
  <1> QED BY <1>1, PInvStep, PTL DEF Spec

LEMMA PInvReleases == PInv => PoolReleased
  <1> SUFFICES ASSUME PInv PROVE PoolReleased
    OBVIOUS
  <1> DEFINE constants == {i \in 1 .. Len(pool) : pool[i] # "unused"}
             deleted == {freed[k] : k \in 1 .. Len(freed)}
  <1>1. /\ \A k \in 1 .. Len(freed) : freed[k] \in constants
        /\ \A k \in 1 .. Len(freed) : k > 1 => freed[k - 1] < freed[k]
    BY DEF PInv
  <1>2. ASSUME NextSlot > Len(pool) PROVE constants = deleted
    <2>1. NextSlot \in Nat /\ Len(pool) \in Nat
      BY NextSlotHolds DEF PInv
    <2>2. \A i \in constants : i \in deleted
      BY <1>2, <2>1 DEF PInv
    <2>3. \A i \in deleted : i \in constants
      BY <1>1
    <2> HIDE DEF constants, deleted
    <2> QED BY <2>2, <2>3
  <1> HIDE DEF constants, deleted
  <1> QED BY <1>1, <1>2 DEF PoolReleased, constants, deleted

(* PoolReleased: whatever constants a class file has, the destructors      *)
(* delete the slot of each once, and no slot after a Long or a Double      *)
(* (~ClassFile, ~InstanceKlass).                                           *)
THEOREM PoolIsReleased == Spec => []PoolReleased
  BY PInvInvariant, PInvReleases, PTL

-----------------------------------------------------------------------------
(* The readers.  What is on the stack of symbols, while an attribute that  *)
(* keeps a stub is read and otherwise; and the bytes that the format gives *)
(* a symbol: its own, without those that it will announce.                 *)
StubEntries ==
  {"annotation", "element_value_pairs_t", "element_value",
   "parameter_annotations_t", "type_annotation", "table_t", "path_t"}

Entries ==
  StubEntries \union
  {"interface", "field_info", "method_info", "class_attribute", "byte",
   "field_attribute", "method_attribute", "exception_table_t", "code_attribute",
   "stack_map_frame", "verification_type_info", "exception_index", "classes_t",
   "line_number_table_t", "local_variable_table_t",
   "local_variable_type_table_t", "bootstrap_methods_t", "bootstrap_argument",
   "parameters_t"}

StubSingles ==
  {"const_value_t", "enum_const_value_t", "class_info_t", "array_value_t",
   "type_parameter_target", "supertype_target", "type_parameter_bound_target",
   "empty_target", "formal_parameter_target", "throws_target",
   "localvar_target", "catch_target", "offset_target", "type_argument_target",
   "type_path"}

SingleLength(x) ==
  CASE x \in {"type_path", "type_parameter_target", "formal_parameter_target"} -> 1
    [] x = "enum_const_value_t" -> 4
    [] x = "empty_target" -> 0
    [] x = "type_argument_target" -> 3
    [] OTHER -> 2

PartLength(x) == IF x \in Entries THEN EntryLength(x) ELSE SingleLength(x)

EntriesOf(stub) == IF stub THEN StubEntries ELSE Entries

TagsOf(stub) == {"element", "target"} \union
                (IF stub THEN {} ELSE {"verification_type", "frame"})

Widths == {1, 2, 4}

Pool == <<"pool">>

Allowed(stub) ==
  {Field(w) : w \in Widths}
    \union {Table(a[1], a[2]) : a \in Widths \X EntriesOf(stub)}
    \union {Tag(x) : x \in TagsOf(stub)}
    \union {Part(x) : x \in EntriesOf(stub) \union StubSingles}
    \union (IF stub THEN {} ELSE {Pool})

Need(symbol) ==
  CASE symbol[1] \in {"field", "table"} -> symbol[2]
    [] symbol[1] = "tag" -> 1
    [] symbol[1] = "part" -> PartLength(symbol[2])
    [] symbol[1] = "pool" -> 14

(* Those of them that a stub still lacks.                                  *)
Misses(stub, symbol) ==
  IF stub /\ symbol[1] = "part" THEN PartLength(symbol[2]) ELSE 0

(* Every length is a number of bytes.                                      *)
LEMMA PartLengthNat ==
  ASSUME NEW x \in Entries \union StubSingles
  PROVE  PartLength(x) \in Nat
  <1>1. CASE x \in Entries
    <2>1. EntryLength(x) \in Nat
      BY <1>1 DEF Entries, StubEntries, EntryLength
    <2> QED BY <1>1, <2>1 DEF PartLength
  <1>2. CASE x \notin Entries
    BY <1>2 DEF PartLength, SingleLength
  <1> QED BY <1>1, <1>2

LEMMA FieldSymbol ==
  ASSUME NEW w \in Widths, NEW stub \in BOOLEAN
  PROVE  /\ Field(w) \in Allowed(stub)
         /\ Need(Field(w)) = w /\ Misses(stub, Field(w)) = 0
  <1>1. Field(w) \in Allowed(stub)
    BY DEF Allowed
  <1>2. Field(w)[1] = "field" /\ Field(w)[2] = w
    BY DEF Field
  <1> QED BY <1>1, <1>2 DEF Need, Misses

LEMMA TableSymbol ==
  ASSUME NEW w \in Widths, NEW stub \in BOOLEAN, NEW x \in EntriesOf(stub)
  PROVE  /\ Table(w, x) \in Allowed(stub)
         /\ Need(Table(w, x)) = w /\ Misses(stub, Table(w, x)) = 0
  <1>1. Table(w, x) \in Allowed(stub)
    <2>1. <<w, x>> \in Widths \X EntriesOf(stub)
      OBVIOUS
    <2>2. Table(w, x) \in {Table(a[1], a[2]) : a \in Widths \X EntriesOf(stub)}
      BY <2>1
    <2> QED BY <2>2 DEF Allowed
  <1>2. Table(w, x)[1] = "table" /\ Table(w, x)[2] = w
    BY DEF Table
  <1> QED BY <1>1, <1>2 DEF Need, Misses

LEMMA TagSymbol ==
  ASSUME NEW stub \in BOOLEAN, NEW x \in TagsOf(stub)
  PROVE  /\ Tag(x) \in Allowed(stub)
         /\ Need(Tag(x)) = 1 /\ Misses(stub, Tag(x)) = 0
  <1>1. Tag(x) \in Allowed(stub)
    BY DEF Allowed
  <1>2. Tag(x)[1] = "tag"
    BY DEF Tag
  <1> QED BY <1>1, <1>2 DEF Need, Misses

LEMMA PartSymbol ==
  ASSUME NEW stub \in BOOLEAN, NEW x \in EntriesOf(stub) \union StubSingles
  PROVE  /\ Part(x) \in Allowed(stub)
         /\ Need(Part(x)) = PartLength(x)
         /\ Misses(stub, Part(x)) = IF stub THEN PartLength(x) ELSE 0
  <1>1. Part(x) \in Allowed(stub)
    BY DEF Allowed
  <1>2. Part(x)[1] = "part" /\ Part(x)[2] = x
    BY DEF Part
  <1> QED BY <1>1, <1>2 DEF Need, Misses

(* The forms of symbols.                                                   *)
LEMMA AllowedForms ==
  ASSUME NEW stub \in BOOLEAN, NEW y \in Allowed(stub)
  PROVE  /\ y # Close
         /\ y[1] \in {"field", "table", "tag", "part", "pool"}
         /\ y[1] = "field" => \E w \in Widths : y = Field(w) /\ y[2] = w
         /\ y[1] = "table" => \E w \in Widths, x \in EntriesOf(stub) :
                                y = Table(w, x) /\ y[2] = w /\ y[3] = x
         /\ y[1] = "tag" => \E x \in TagsOf(stub) : y = Tag(x) /\ y[2] = x
         /\ y[1] = "part" => \E x \in EntriesOf(stub) \union StubSingles :
                               y = Part(x) /\ y[2] = x
         /\ y[1] = "pool" => ~stub /\ y = Pool
  <1>0. Close[1] = "close"
    BY DEF Close
  <1>1. CASE \E w \in Widths : y = Field(w)
    <2>1. PICK w \in Widths : y = Field(w)
      BY <1>1
    <2>2. y[1] = "field" /\ y[2] = w
      BY <2>1 DEF Field
    <2> QED BY <1>0, <2>1, <2>2
  <1>2. CASE \E a \in Widths \X EntriesOf(stub) : y = Table(a[1], a[2])
    <2>1. PICK a \in Widths \X EntriesOf(stub) : y = Table(a[1], a[2])
      BY <1>2
    <2>2. a[1] \in Widths /\ a[2] \in EntriesOf(stub)
      BY <2>1
    <2>3. y[1] = "table" /\ y[2] = a[1] /\ y[3] = a[2]
      BY <2>1 DEF Table
    <2> QED BY <1>0, <2>1, <2>2, <2>3
  <1>3. CASE \E x \in TagsOf(stub) : y = Tag(x)
    <2>1. PICK x \in TagsOf(stub) : y = Tag(x)
      BY <1>3
    <2>2. y[1] = "tag" /\ y[2] = x
      BY <2>1 DEF Tag
    <2> QED BY <1>0, <2>1, <2>2
  <1>4. CASE \E x \in EntriesOf(stub) \union StubSingles : y = Part(x)
    <2>1. PICK x \in EntriesOf(stub) \union StubSingles : y = Part(x)
      BY <1>4
    <2>2. y[1] = "part" /\ y[2] = x
      BY <2>1 DEF Part
    <2> QED BY <1>0, <2>1, <2>2
  <1>5. CASE ~stub /\ y = Pool
    <2>1. y[1] = "pool"
      BY <1>5 DEF Pool
    <2> QED BY <1>0, <1>5, <2>1
  <1> QED BY <1>1, <1>2, <1>3, <1>4, <1>5 DEF Allowed

LEMMA NeedNat ==
  ASSUME NEW stub \in BOOLEAN, NEW y \in Allowed(stub)
  PROVE  /\ Need(y) \in Nat
         /\ Misses(stub, y) \in Nat
         /\ ~stub => Misses(stub, y) = 0
  <1>1. EntriesOf(stub) \subseteq Entries
    BY DEF EntriesOf, Entries
  <1>2. y[1] = "part" => PartLength(y[2]) \in Nat
    BY <1>1, AllowedForms, PartLengthNat
  <1>3. y[1] \in {"field", "table"} => y[2] \in Nat
    BY AllowedForms DEF Widths
  <1> QED BY <1>2, <1>3, AllowedForms DEF Need, Misses

-----------------------------------------------------------------------------
(* What a sequence of symbols weighs: the bytes it needs and those of them *)
(* that a stub lacks, added up from its end.                               *)
Sums(r, stub, S, M) ==
  /\ S[Len(r) + 1] = 0 /\ M[Len(r) + 1] = 0
  /\ \A i \in 1 .. Len(r) : /\ S[i] = Need(r[i]) + S[i + 1]
                            /\ M[i] = Misses(stub, r[i]) + M[i + 1]
  /\ ~stub => \A i \in 1 .. Len(r) + 1 : M[i] = 0

Weighs(r, stub, length, missing) ==
  /\ r \in Seq(Allowed(stub))
  /\ \E S, M \in [1 .. Len(r) + 1 -> Nat] :
       /\ S[1] = length /\ M[1] = missing
       /\ Sums(r, stub, S, M)

LEMMA WeighsNothing ==
  ASSUME NEW stub \in BOOLEAN
  PROVE  Weighs(<<>>, stub, 0, 0)
  <1> DEFINE S == [i \in 1 .. 1 |-> 0]
  <1>1. S \in [1 .. Len(<<>>) + 1 -> Nat] /\ S[1] = 0 /\ Sums(<<>>, stub, S, S)
    BY DEF Sums
  <1> QED BY <1>1 DEF Weighs

(* One symbol more.                                                        *)
LEMMA WeighsCons ==
  ASSUME NEW stub \in BOOLEAN, NEW y \in Allowed(stub),
         NEW r, NEW length, NEW missing, Weighs(r, stub, length, missing)
  PROVE  Weighs(<<y>> \o r, stub, Need(y) + length, Misses(stub, y) + missing)
  <1>1. PICK S \in [1 .. Len(r) + 1 -> Nat], M \in [1 .. Len(r) + 1 -> Nat] :
          S[1] = length /\ M[1] = missing /\ Sums(r, stub, S, M)
    BY DEF Weighs
  <1>2. r \in Seq(Allowed(stub)) /\ Len(r) \in Nat
    BY DEF Weighs
  <1> DEFINE q == <<y>> \o r
             T == [i \in 1 .. Len(q) + 1 |-> IF i = 1 THEN Need(y) + length ELSE S[i - 1]]
             N == [i \in 1 .. Len(q) + 1 |->
                     IF i = 1 THEN Misses(stub, y) + missing ELSE M[i - 1]]
  <1>3. /\ q \in Seq(Allowed(stub)) /\ Len(q) = Len(r) + 1
        /\ q[1] = y /\ \A i \in 1 .. Len(r) : q[i + 1] = r[i]
    BY <1>2
  <1>4. Need(y) + length \in Nat /\ Misses(stub, y) + missing \in Nat
    <2>1. Need(y) \in Nat /\ Misses(stub, y) \in Nat
      BY NeedNat
    <2>2. length \in Nat /\ missing \in Nat
      BY <1>1, <1>2
    <2> QED BY <2>1, <2>2
  <1> HIDE DEF q
  <1>5. T \in [1 .. Len(q) + 1 -> Nat] /\ N \in [1 .. Len(q) + 1 -> Nat]
    <2>1. ASSUME NEW i \in 1 .. Len(q) + 1, i # 1
          PROVE  S[i - 1] \in Nat /\ M[i - 1] \in Nat
      <3>1. i - 1 \in 1 .. Len(r) + 1
        BY <1>2, <1>3, <2>1
      <3> QED BY <3>1
    <2> QED BY <1>4, <2>1
  <1>6. /\ T[1] = Need(y) + length /\ N[1] = Misses(stub, y) + missing
        /\ \A i \in 1 .. Len(r) + 1 : T[i + 1] = S[i] /\ N[i + 1] = M[i]
    BY <1>2, <1>3
  <1> HIDE DEF T, N
  <1>7. Sums(q, stub, T, N)
    <2>1. T[Len(q) + 1] = 0 /\ N[Len(q) + 1] = 0
      BY <1>1, <1>2, <1>3, <1>6 DEF Sums
    <2>2. ASSUME NEW i \in 1 .. Len(q)
          PROVE  T[i] = Need(q[i]) + T[i + 1] /\ N[i] = Misses(stub, q[i]) + N[i + 1]
      <3>1. CASE i = 1
        BY <1>1, <1>2, <1>3, <1>6, <3>1
      <3>2. CASE i # 1
        <4>1. PICK j \in 1 .. Len(r) : i = j + 1
          BY <1>2, <1>3, <2>2, <3>2
        <4>2. S[j] = Need(r[j]) + S[j + 1] /\ M[j] = Misses(stub, r[j]) + M[j + 1]
          BY <1>1 DEF Sums
        <4>3. q[i] = r[j] /\ T[i] = S[j] /\ N[i] = M[j]
          BY <1>2, <1>3, <1>6, <4>1
        <4>4. T[i + 1] = S[j + 1] /\ N[i + 1] = M[j + 1]
          BY <1>2, <1>6, <4>1
        <4> QED BY <4>2, <4>3, <4>4
      <3> QED BY <3>1, <3>2
    <2>3. ASSUME ~stub, NEW i \in 1 .. Len(q) + 1 PROVE N[i] = 0
      <3>1. \A j \in 1 .. Len(r) + 1 : M[j] = 0
        BY <1>1, <2>3 DEF Sums
      <3>2. CASE i = 1
        <4>1. Misses(stub, y) = 0
          BY <2>3 DEF Misses
        <4>2. missing = 0
          BY <1>1, <1>2, <3>1
        <4> QED BY <1>6, <3>2, <4>1, <4>2
      <3>3. CASE i # 1
        <4>1. PICK j \in 1 .. Len(r) + 1 : i = j + 1
          BY <1>2, <1>3, <2>3, <3>3
        <4> QED BY <1>6, <3>1, <4>1
      <3> QED BY <3>2, <3>3
    <2> QED BY <2>1, <2>2, <2>3 DEF Sums
  <1>8. Weighs(q, stub, Need(y) + length, Misses(stub, y) + missing)
    BY <1>3, <1>5, <1>6, <1>7 DEF Weighs
  <1> QED BY <1>8 DEF q

(* Some copies of a symbol.                                                *)
LEMMA WeighsCopies ==
  ASSUME NEW stub \in BOOLEAN, NEW y \in Allowed(stub), NEW n \in Nat
  PROVE  Weighs([i \in 1 .. n |-> y], stub, n * Need(y), n * Misses(stub, y))
  <1> DEFINE a == Need(y)
             b == Misses(stub, y)
             r == [i \in 1 .. n |-> y]
             S == [i \in 1 .. n + 1 |-> (n + 1 - i) * a]
             M == [i \in 1 .. n + 1 |-> (n + 1 - i) * b]
  <1>1. a \in Nat /\ b \in Nat
    BY NeedNat
  <1>2. r \in Seq(Allowed(stub)) /\ Len(r) = n /\ \A i \in 1 .. n : r[i] = y
    OBVIOUS
  <1> HIDE DEF r, a, b
  <1>3. S \in [1 .. n + 1 -> Nat] /\ M \in [1 .. n + 1 -> Nat]
    BY <1>1
  <1>4. S[1] = n * a /\ M[1] = n * b /\ S[n + 1] = 0 /\ M[n + 1] = 0
    BY <1>1
  <1>5. ASSUME NEW i \in 1 .. n PROVE S[i] = a + S[i + 1] /\ M[i] = b + M[i + 1]
    BY <1>1
  <1>6. ASSUME ~stub, NEW i \in 1 .. n + 1 PROVE M[i] = 0
    <2>1. b = 0
      BY <1>6 DEF Misses, b
    <2> QED BY <2>1
  <1> HIDE DEF S, M
  <1>7. Sums(r, stub, S, M)
    BY <1>2, <1>4, <1>5, <1>6 DEF Sums, a, b
  <1>8. Weighs(r, stub, n * a, n * b)
    BY <1>2, <1>3, <1>4, <1>7 DEF Weighs
  <1> QED BY <1>8 DEF a, b, r

-----------------------------------------------------------------------------
(* The structures that are open.  Owing(stack, n, m) is the stack when n   *)
(* bytes more have been announced, m of which the stub lacks.              *)
Attributes == ClassHandles \union FieldHandles \union MethodHandles \union CodeHandles

Kinds == Attributes \union {"ClassFile", "constant"}

Structures ==
  {s \in [kind : Kinds, left : Nat, missing : Nat] :
     ~KeepsStub(s) => s.missing = 0}

Stacks == Seq(Structures) \ {<<>>}

Stub(stack) == KeepsStub(Head(stack))

Owing(stack, n, m) ==
  <<[Head(stack) EXCEPT !.left = @ + n, !.missing = @ + m]>> \o Tail(stack)

LEMMA StubBoolean == \A stack : Stub(stack) \in BOOLEAN
  BY DEF Stub, KeepsStub

LEMMA StackParts ==
  ASSUME NEW stack \in Stacks
  PROVE  /\ Head(stack) \in Structures
         /\ Head(stack).left \in Nat /\ Head(stack).missing \in Nat
         /\ ~Stub(stack) => Head(stack).missing = 0
         /\ Tail(stack) \in Seq(Structures)
         /\ stack = <<Head(stack)>> \o Tail(stack)
  BY DEF Stacks, Structures, Stub

LEMMA OnTop ==
  ASSUME NEW s \in Structures, NEW rest \in Seq(Structures)
  PROVE  /\ <<s>> \o rest \in Stacks
         /\ Head(<<s>> \o rest) = s
         /\ Tail(<<s>> \o rest) = rest
  BY DEF Stacks

LEMMA OwingParts ==
  ASSUME NEW stack \in Stacks, NEW n \in Nat, NEW m \in Nat, ~Stub(stack) => m = 0
  PROVE  /\ Owing(stack, n, m) \in Stacks
         /\ Head(Owing(stack, n, m)).kind = Head(stack).kind
         /\ Head(Owing(stack, n, m)).left = Head(stack).left + n
         /\ Head(Owing(stack, n, m)).missing = Head(stack).missing + m
         /\ Tail(Owing(stack, n, m)) = Tail(stack)
         /\ Stub(Owing(stack, n, m)) = Stub(stack)
  <1> DEFINE h == Head(stack)
             s == [h EXCEPT !.left = @ + n, !.missing = @ + m]
  <1>1. /\ h \in Structures
        /\ h \in [kind : Kinds, left : Nat, missing : Nat]
        /\ ~KeepsStub(h) => h.missing = 0
        /\ Tail(stack) \in Seq(Structures)
    BY StackParts DEF Structures
  <1>2. /\ s \in [kind : Kinds, left : Nat, missing : Nat]
        /\ s.kind = h.kind
        /\ s.left = h.left + n /\ s.missing = h.missing + m
    <2> HIDE DEF h
    <2>1. h.left \in Nat /\ h.missing \in Nat
      BY <1>1
    <2>2. h.left + n \in Nat /\ h.missing + m \in Nat
      BY <2>1
    <2> QED BY <1>1, <2>2
  <1>3. KeepsStub(s) <=> KeepsStub(h)
    BY <1>2 DEF KeepsStub
  <1>4. s \in Structures
    <2>1. ~KeepsStub(s) => s.missing = 0
      BY <1>1, <1>2, <1>3 DEF Stub
    <2> HIDE DEF s
    <2> QED BY <1>2, <2>1 DEF Structures
  <1> HIDE DEF s
  <1>5. Owing(stack, n, m) = <<s>> \o Tail(stack)
    BY DEF Owing, s
  <1>6. Stub(Owing(stack, n, m)) <=> Stub(stack)
    BY <1>1, <1>3, <1>4, <1>5, OnTop DEF Stub
  <1> QED BY <1>1, <1>2, <1>4, <1>5, <1>6, OnTop, StubBoolean

(* Stacks that agree are the same.                                         *)
LEMMA SameStack ==
  ASSUME NEW x \in Stacks, NEW y \in Stacks,
         Head(x).kind = Head(y).kind, Head(x).left = Head(y).left,
         Head(x).missing = Head(y).missing, Tail(x) = Tail(y)
  PROVE  x = y
  <1>1. Head(x) = Head(y)
    <2>1. /\ Head(x) \in [kind : Kinds, left : Nat, missing : Nat]
          /\ Head(y) \in [kind : Kinds, left : Nat, missing : Nat]
      BY StackParts DEF Structures
    <2> QED BY <2>1
  <1> QED BY <1>1, StackParts

LEMMA OwingTwice ==
  ASSUME NEW stack \in Stacks,
         NEW n \in Nat, NEW m \in Nat, ~Stub(stack) => m = 0,
         NEW k \in Nat, NEW j \in Nat, ~Stub(stack) => j = 0
  PROVE  Owing(Owing(stack, n, m), k, j) = Owing(stack, k + n, j + m)
  <1> DEFINE u == Owing(stack, n, m)
  <1>1. /\ u \in Stacks /\ Head(u).kind = Head(stack).kind
        /\ Head(u).left = Head(stack).left + n
        /\ Head(u).missing = Head(stack).missing + m
        /\ Tail(u) = Tail(stack) /\ Stub(u) = Stub(stack)
    BY OwingParts
  <1> HIDE DEF u
  <1>2. /\ Owing(u, k, j) \in Stacks /\ Head(Owing(u, k, j)).kind = Head(u).kind
        /\ Head(Owing(u, k, j)).left = Head(u).left + k
        /\ Head(Owing(u, k, j)).missing = Head(u).missing + j
        /\ Tail(Owing(u, k, j)) = Tail(u)
    BY <1>1, OwingParts
  <1> DEFINE v == Owing(stack, k + n, j + m)
  <1>3. k + n \in Nat /\ j + m \in Nat /\ (~Stub(stack) => j + m = 0)
    OBVIOUS
  <1>4. /\ v \in Stacks /\ Head(v).kind = Head(stack).kind
        /\ Head(v).left = Head(stack).left + (k + n)
        /\ Head(v).missing = Head(stack).missing + (j + m)
        /\ Tail(v) = Tail(stack)
    BY <1>3, OwingParts
  <1> HIDE DEF v
  <1>5. Head(stack).left \in Nat /\ Head(stack).missing \in Nat
    BY StackParts
  <1>6. /\ Head(v).left = Head(Owing(u, k, j)).left
        /\ Head(v).missing = Head(Owing(u, k, j)).missing
    BY <1>1, <1>2, <1>4, <1>5
  <1>7. Owing(u, k, j) = v
    BY <1>1, <1>2, <1>4, <1>6, SameStack
  <1> QED BY <1>7 DEF u, v

LEMMA OwingNothing ==
  ASSUME NEW stack \in Stacks
  PROVE  Owing(stack, 0, 0) = stack
  <1>1. /\ Owing(stack, 0, 0) \in Stacks
        /\ Head(Owing(stack, 0, 0)).kind = Head(stack).kind
        /\ Head(Owing(stack, 0, 0)).left = Head(stack).left + 0
        /\ Head(Owing(stack, 0, 0)).missing = Head(stack).missing + 0
        /\ Tail(Owing(stack, 0, 0)) = Tail(stack)
    BY OwingParts
  <1>2. Head(stack).left \in Nat /\ Head(stack).missing \in Nat
    BY StackParts
  <1>3. /\ Head(Owing(stack, 0, 0)).left = Head(stack).left
        /\ Head(Owing(stack, 0, 0)).missing = Head(stack).missing
    BY <1>1, <1>2
  <1> QED BY <1>1, <1>3, SameStack

-----------------------------------------------------------------------------
(* The symbols fit the structures: at F[i] stands what is open when the    *)
(* symbol i is the next one.                                               *)
Symbols == Allowed(TRUE) \union Allowed(FALSE) \union {Close}

Follows(t, F, i) ==
  IF t[i] = Close
    THEN /\ Head(F[i]).left = 0 /\ Head(F[i]).missing = 0
         /\ IF i < Len(t) THEN F[i + 1] = Tail(F[i]) ELSE Tail(F[i]) = <<>>
    ELSE /\ i < Len(t)
         /\ t[i] \in Allowed(Stub(F[i]))
         /\ F[i] = Owing(F[i + 1], Need(t[i]), Misses(Stub(F[i]), t[i]))

Fits(t, stack) ==
  /\ t \in Seq(Symbols) /\ t # <<>>
  /\ \E F \in [1 .. Len(t) -> Stacks] :
       F[1] = stack /\ \A i \in 1 .. Len(t) : Follows(t, F, i)

LEMMA FitsType ==
  ASSUME NEW t, NEW stack, Fits(t, stack)
  PROVE  /\ t \in Seq(Symbols) /\ t # <<>> /\ Len(t) \in Nat \ {0}
         /\ Head(t) \in Symbols /\ Tail(t) \in Seq(Symbols)
         /\ stack \in Stacks
  <1>1. t \in Seq(Symbols) /\ t # <<>> /\ Len(t) \in Nat \ {0}
    BY DEF Fits
  <1>2. 1 \in 1 .. Len(t)
    BY <1>1
  <1>3. stack \in Stacks
    BY <1>2 DEF Fits
  <1> QED BY <1>1, <1>3

(* What follows the first symbol fits what is open after it.               *)
LEMMA FitsTail ==
  ASSUME NEW t \in Seq(Symbols), Len(t) > 1,
         NEW F \in [1 .. Len(t) -> Stacks],
         \A i \in 1 .. Len(t) : Follows(t, F, i)
  PROVE  Fits(Tail(t), F[2]) /\ F[2] \in Stacks
  <1> DEFINE q == Tail(t)
             G == [i \in 1 .. Len(q) |-> F[i + 1]]
  <1>1. /\ q \in Seq(Symbols) /\ Len(q) = Len(t) - 1 /\ q # <<>>
        /\ \A i \in 1 .. Len(q) : q[i] = t[i + 1]
        /\ Len(t) \in Nat
    <2>1. t # <<>> /\ Len(t) \in Nat
      OBVIOUS
    <2>2. q \in Seq(Symbols) /\ Len(q) = Len(t) - 1
      BY <2>1
    <2>3. \A i \in 1 .. Len(q) : q[i] = t[i + 1]
      BY <2>1, HeadTailProperties
    <2> HIDE DEF q
    <2>4. q # <<>>
      BY <2>1, <2>2
    <2> QED BY <2>1, <2>2, <2>3, <2>4
  <1> HIDE DEF q
  <1>2. \A i \in 1 .. Len(q) : i + 1 \in 1 .. Len(t)
    BY <1>1
  <1>3. G \in [1 .. Len(q) -> Stacks] /\ \A i \in 1 .. Len(q) : G[i] = F[i + 1]
    BY <1>2
  <1>4. 1 \in 1 .. Len(q) /\ 2 \in 1 .. Len(t)
    BY <1>1
  <1> HIDE DEF G
  <1>5. ASSUME NEW i \in 1 .. Len(q) PROVE Follows(q, G, i)
    <2>1. Follows(t, F, i + 1) /\ q[i] = t[i + 1] /\ G[i] = F[i + 1]
      BY <1>1, <1>2, <1>3
    <2>2. i + 1 < Len(t) <=> i < Len(q)
      BY <1>1
    <2>3. i < Len(q) => G[i + 1] = F[(i + 1) + 1]
      <3>1. i < Len(q) => i + 1 \in 1 .. Len(q)
        BY <1>1
      <3> QED BY <1>3, <3>1
    <2> QED BY <2>1, <2>2, <2>3 DEF Follows
  <1>6. G[1] = F[2]
    BY <1>3, <1>4
  <1>7. Fits(q, F[2])
    BY <1>1, <1>3, <1>5, <1>6 DEF Fits
  <1> QED BY <1>4, <1>7 DEF q

(* At its end a structure has been read to its last byte.                  *)
LEMMA FitsClose ==
  ASSUME NEW t, NEW stack, Fits(t, stack), Head(t) = Close
  PROVE  /\ Head(stack).left = 0 /\ Head(stack).missing = 0
         /\ IF Tail(t) = <<>> THEN Tail(stack) = <<>> ELSE Fits(Tail(t), Tail(stack))
  <1>1. t \in Seq(Symbols) /\ Len(t) \in Nat \ {0} /\ t[1] = Close
    BY FitsType
  <1>2. PICK F \in [1 .. Len(t) -> Stacks] :
          F[1] = stack /\ \A i \in 1 .. Len(t) : Follows(t, F, i)
    BY DEF Fits
  <1>3. Follows(t, F, 1) /\ 1 + 1 = 2
    BY <1>1, <1>2
  <1>4. /\ Head(stack).left = 0 /\ Head(stack).missing = 0
        /\ IF 1 < Len(t) THEN F[2] = Tail(stack) ELSE Tail(stack) = <<>>
    BY <1>1, <1>2, <1>3 DEF Follows
  <1>5. 1 < Len(t) => Fits(Tail(t), F[2])
    BY <1>1, <1>2, FitsTail
  <1>6. Tail(t) = <<>> <=> ~(1 < Len(t))
    <2>1. Tail(t) \in Seq(Symbols) /\ Len(Tail(t)) = Len(t) - 1
      BY <1>1
    <2> QED BY <1>1, <2>1, EmptySeq
  <1> QED BY <1>4, <1>5, <1>6

(* Any other symbol has its bytes in the innermost structure.              *)
LEMMA FitsSymbol ==
  ASSUME NEW t, NEW stack, Fits(t, stack), Head(t) # Close
  PROVE  /\ Head(t) \in Allowed(Stub(stack))
         /\ \E u \in Stacks :
              /\ Fits(Tail(t), u)
              /\ stack = Owing(u, Need(Head(t)), Misses(Stub(stack), Head(t)))
  <1>1. t \in Seq(Symbols) /\ Len(t) \in Nat \ {0} /\ t[1] = Head(t)
    BY FitsType
  <1>2. PICK F \in [1 .. Len(t) -> Stacks] :
          F[1] = stack /\ \A i \in 1 .. Len(t) : Follows(t, F, i)
    BY DEF Fits
  <1>3. Follows(t, F, 1) /\ 1 + 1 = 2
    BY <1>1, <1>2
  <1>4. /\ 1 < Len(t)
        /\ Head(t) \in Allowed(Stub(stack))
        /\ stack = Owing(F[2], Need(Head(t)), Misses(Stub(stack), Head(t)))
    BY <1>1, <1>2, <1>3 DEF Follows
  <1>5. Fits(Tail(t), F[2]) /\ F[2] \in Stacks
    BY <1>1, <1>2, <1>4, FitsTail
  <1> QED BY <1>4, <1>5

LEMMA AllowedSymbols ==
  ASSUME NEW stub \in BOOLEAN
  PROVE  Allowed(stub) \subseteq Symbols
  <1>1. CASE stub = TRUE
    BY <1>1 DEF Symbols
  <1>2. CASE stub = FALSE
    BY <1>2 DEF Symbols
  <1> QED BY <1>1, <1>2

(* The symbols of a reader go on the stack with the bytes they weigh.      *)
LEMMA FitsPrepend ==
  ASSUME NEW t, NEW u \in Stacks, Fits(t, u),
         NEW r, NEW length, NEW missing, Weighs(r, Stub(u), length, missing)
  PROVE  Fits(r \o t, Owing(u, length, missing))
  <1>1. /\ t \in Seq(Symbols) /\ t # <<>> /\ Len(t) \in Nat \ {0}
        /\ Stub(u) \in BOOLEAN
    BY FitsType, StubBoolean
  <1>2. PICK F \in [1 .. Len(t) -> Stacks] :
          F[1] = u /\ \A i \in 1 .. Len(t) : Follows(t, F, i)
    BY DEF Fits
  <1>3. PICK S \in [1 .. Len(r) + 1 -> Nat], M \in [1 .. Len(r) + 1 -> Nat] :
          S[1] = length /\ M[1] = missing /\ Sums(r, Stub(u), S, M)
    BY DEF Weighs
  <1>4. /\ r \in Seq(Allowed(Stub(u))) /\ r \in Seq(Symbols) /\ Len(r) \in Nat
        /\ \A i \in 1 .. Len(r) : r[i] \in Allowed(Stub(u))
    <2>1. r \in Seq(Allowed(Stub(u))) /\ Len(r) \in Nat
      BY DEF Weighs
    <2>2. \A i \in 1 .. Len(r) : r[i] \in Allowed(Stub(u))
      BY <2>1
    <2>3. \A i \in 1 .. Len(r) : r[i] \in Symbols
      BY <1>1, <2>2, AllowedSymbols
    <2> QED BY <2>1, <2>2, <2>3
  <1> DEFINE q == r \o t
             G == [i \in 1 .. Len(q) |->
                     IF i =< Len(r) THEN Owing(u, S[i], M[i]) ELSE F[i - Len(r)]]
  <1>5. /\ q \in Seq(Symbols) /\ q # <<>> /\ Len(q) = Len(r) + Len(t)
        /\ \A i \in 1 .. Len(r) : q[i] = r[i]
        /\ \A i \in 1 .. Len(t) : q[Len(r) + i] = t[i]
    BY <1>1, <1>4
  <1> HIDE DEF q
  <1>6. ~Stub(u) => \A i \in 1 .. Len(r) + 1 : M[i] = 0
    BY <1>3 DEF Sums
  <1>7. ASSUME NEW i \in 1 .. Len(r) + 1
        PROVE  /\ Owing(u, S[i], M[i]) \in Stacks
               /\ Stub(Owing(u, S[i], M[i])) = Stub(u)
    <2>1. S[i] \in Nat /\ M[i] \in Nat /\ (~Stub(u) => M[i] = 0)
      BY <1>6
    <2> QED BY <2>1, OwingParts
  <1>8. Owing(u, S[Len(r) + 1], M[Len(r) + 1]) = u
    BY <1>3, OwingNothing DEF Sums
  <1>9. G \in [1 .. Len(q) -> Stacks]
    <2> SUFFICES ASSUME NEW i \in 1 .. Len(q) PROVE G[i] \in Stacks
      OBVIOUS
    <2>1. CASE i =< Len(r)
      <3>1. i \in 1 .. Len(r) + 1 /\ G[i] = Owing(u, S[i], M[i])
        BY <1>4, <2>1
      <3> QED BY <1>7, <3>1
    <2>2. CASE ~(i =< Len(r))
      <3>1. i - Len(r) \in 1 .. Len(t)
        BY <1>1, <1>4, <1>5, <2>2
      <3> QED BY <2>2, <3>1
    <2> QED BY <2>1, <2>2
  <1>10. /\ \A i \in 1 .. Len(r) + 1 : G[i] = Owing(u, S[i], M[i])
         /\ \A i \in 1 .. Len(t) : G[Len(r) + i] = F[i]
    <2>1. ASSUME NEW i \in 1 .. Len(t) PROVE G[Len(r) + i] = F[i]
      <3>1. Len(r) + i \in 1 .. Len(q) /\ (Len(r) + i) - Len(r) = i /\ ~(Len(r) + i =< Len(r))
        BY <1>1, <1>4, <1>5
      <3> QED BY <3>1
    <2>2. ASSUME NEW i \in 1 .. Len(r) PROVE G[i] = Owing(u, S[i], M[i])
      <3>1. i \in 1 .. Len(q) /\ i =< Len(r)
        BY <1>1, <1>4, <1>5
      <3> QED BY <3>1
    <2>3. G[Len(r) + 1] = Owing(u, S[Len(r) + 1], M[Len(r) + 1])
      <3>1. 1 \in 1 .. Len(t)
        BY <1>1
      <3>2. G[Len(r) + 1] = F[1]
        BY <2>1, <3>1
      <3>3. F[1] = u
        BY <1>2
      <3> HIDE DEF G
      <3> QED BY <1>8, <3>2, <3>3
    <2> HIDE DEF G
    <2>4. ASSUME NEW i \in 1 .. Len(r) + 1 PROVE G[i] = Owing(u, S[i], M[i])
      <3>1. i \in 1 .. Len(r) \/ i = Len(r) + 1
        BY <1>4
      <3> QED BY <2>2, <2>3, <3>1
    <2> QED BY <2>1, <2>4
  <1> HIDE DEF G
  <1>11. ASSUME NEW i \in 1 .. Len(r) PROVE Follows(q, G, i)
    <2>1. q[i] = r[i] /\ r[i] \in Allowed(Stub(u)) /\ r[i] # Close
      BY <1>1, <1>4, <1>5, AllowedForms
    <2>2. i \in 1 .. Len(r) + 1 /\ i + 1 \in 1 .. Len(r) + 1 /\ i < Len(q)
      BY <1>1, <1>4, <1>5
    <2>3. /\ G[i] = Owing(u, S[i], M[i]) /\ G[i + 1] = Owing(u, S[i + 1], M[i + 1])
          /\ Stub(G[i]) = Stub(u)
      BY <1>7, <1>10, <2>2
    <2>4. S[i] = Need(r[i]) + S[i + 1] /\ M[i] = Misses(Stub(u), r[i]) + M[i + 1]
      BY <1>3 DEF Sums
    <2>5. /\ S[i + 1] \in Nat /\ M[i + 1] \in Nat /\ (~Stub(u) => M[i + 1] = 0)
          /\ Need(r[i]) \in Nat /\ Misses(Stub(u), r[i]) \in Nat
          /\ (~Stub(u) => Misses(Stub(u), r[i]) = 0)
      BY <1>1, <1>6, <2>1, <2>2, NeedNat
    <2>6. Owing(G[i + 1], Need(r[i]), Misses(Stub(u), r[i])) = G[i]
      <3>1. Owing(Owing(u, S[i + 1], M[i + 1]), Need(r[i]), Misses(Stub(u), r[i]))
              = Owing(u, Need(r[i]) + S[i + 1], Misses(Stub(u), r[i]) + M[i + 1])
        <4> DEFINE n == S[i + 1]
                   m == M[i + 1]
                   k == Need(r[i])
                   j == Misses(Stub(u), r[i])
        <4>1. /\ n \in Nat /\ m \in Nat /\ (~Stub(u) => m = 0)
              /\ k \in Nat /\ j \in Nat /\ (~Stub(u) => j = 0)
          BY <2>5
        <4> HIDE DEF n, m, k, j
        <4>2. Owing(Owing(u, n, m), k, j) = Owing(u, k + n, j + m)
          BY <4>1, OwingTwice
        <4> QED BY <4>2 DEF n, m, k, j
      <3> QED BY <2>3, <2>4, <3>1
    <2> QED BY <2>1, <2>2, <2>3, <2>6 DEF Follows
  <1>12. ASSUME NEW i \in 1 .. Len(t) PROVE Follows(q, G, Len(r) + i)
    <2>1. Follows(t, F, i) /\ q[Len(r) + i] = t[i] /\ G[Len(r) + i] = F[i]
      BY <1>2, <1>5, <1>10
    <2>2. Len(r) + i < Len(q) <=> i < Len(t)
      BY <1>1, <1>4, <1>5
    <2>3. i < Len(t) => G[(Len(r) + i) + 1] = F[i + 1]
      <3>1. i < Len(t) => i + 1 \in 1 .. Len(t) /\ (Len(r) + i) + 1 = Len(r) + (i + 1)
        BY <1>1, <1>4
      <3> QED BY <1>10, <3>1
    <2> QED BY <2>1, <2>2, <2>3 DEF Follows
  <1>13. \A i \in 1 .. Len(q) : Follows(q, G, i)
    <2> SUFFICES ASSUME NEW i \in 1 .. Len(q) PROVE Follows(q, G, i)
      OBVIOUS
    <2>1. CASE i =< Len(r)
      <3>1. i \in 1 .. Len(r)
        BY <1>4, <2>1
      <3> QED BY <1>11, <3>1
    <2>2. CASE ~(i =< Len(r))
      <3>1. i - Len(r) \in 1 .. Len(t) /\ Len(r) + (i - Len(r)) = i
        BY <1>1, <1>4, <1>5, <2>2
      <3>2. Follows(q, G, Len(r) + (i - Len(r)))
        BY <1>12, <3>1
      <3> QED BY <3>1, <3>2
    <2> QED BY <2>1, <2>2
  <1>14. G[1] = Owing(u, length, missing)
    <2>1. 1 \in 1 .. Len(r) + 1
      BY <1>4
    <2> QED BY <1>3, <1>10, <2>1
  <1>15. Fits(q, Owing(u, length, missing))
    BY <1>5, <1>9, <1>13, <1>14 DEF Fits
  <1> QED BY <1>15 DEF q

(* A structure that has been read to its last byte may be closed.          *)
LEMMA FitsOpen ==
  ASSUME NEW s \in Structures, s.left = 0, s.missing = 0,
         NEW t, NEW rest,
         IF t = <<>> THEN rest = <<>> ELSE Fits(t, rest)
  PROVE  Fits(<<Close>> \o t, <<s>> \o rest)
  <1>1. CASE t = <<>>
    <2> DEFINE q == <<Close>> \o t
               top == <<s>> \o rest
               F == [i \in 1 .. 1 |-> top]
    <2>1. q = <<Close>> /\ rest = <<>> /\ rest \in Seq(Structures)
      BY <1>1
    <2>2. top \in Stacks /\ Head(top) = s /\ Tail(top) = <<>>
      BY <2>1, OnTop
    <2>3. q \in Seq(Symbols) /\ q # <<>> /\ Len(q) = 1 /\ q[1] = Close
      <3>1. Close \in Symbols
        BY DEF Symbols
      <3>2. q = <<Close>> /\ Len(q) = 1 /\ q[1] = Close
        BY <2>1
      <3>3. <<Close>> \in Seq(Symbols)
        BY <3>1
      <3>4. q \in Seq(Symbols)
        BY <3>2, <3>3
      <3> HIDE DEF q
      <3> QED BY <3>2, <3>4
    <2> HIDE DEF q, top
    <2>4. F \in [1 .. Len(q) -> Stacks] /\ F[1] = top
      BY <2>2, <2>3
    <2> HIDE DEF F
    <2>5. \A i \in 1 .. Len(q) : Follows(q, F, i)
      BY <2>2, <2>3, <2>4 DEF Follows
    <2>6. Fits(q, top)
      BY <2>3, <2>4, <2>5 DEF Fits
    <2> QED BY <2>6 DEF q, top
  <1>2. CASE t # <<>>
    <2>1. /\ t \in Seq(Symbols) /\ Len(t) \in Nat \ {0} /\ rest \in Stacks
      BY <1>2, FitsType
    <2>2. PICK F \in [1 .. Len(t) -> Stacks] :
            F[1] = rest /\ \A i \in 1 .. Len(t) : Follows(t, F, i)
      BY <1>2 DEF Fits
    <2> DEFINE q == <<Close>> \o t
               top == <<s>> \o rest
               G == [i \in 1 .. Len(q) |-> IF i = 1 THEN top ELSE F[i - 1]]
    <2>3. top \in Stacks /\ Head(top) = s /\ Tail(top) = rest
      BY <2>1, OnTop DEF Stacks
    <2>4. /\ q \in Seq(Symbols) /\ q # <<>> /\ Len(q) = Len(t) + 1
          /\ q[1] = Close /\ \A i \in 1 .. Len(t) : q[i + 1] = t[i]
      <3>1. Close \in Symbols
        BY DEF Symbols
      <3> QED BY <2>1, <3>1
    <2> HIDE DEF q, top
    <2>5. G \in [1 .. Len(q) -> Stacks]
      <3> SUFFICES ASSUME NEW i \in 1 .. Len(q) PROVE G[i] \in Stacks
        OBVIOUS
      <3>1. i # 1 => i - 1 \in 1 .. Len(t)
        BY <2>1, <2>4
      <3> QED BY <2>3, <3>1
    <2>6. G[1] = top /\ \A i \in 1 .. Len(t) : G[i + 1] = F[i]
      BY <2>1, <2>4
    <2> HIDE DEF G
    <2>7. Follows(q, G, 1)
      <3>1. 1 \in 1 .. Len(t) /\ 1 < Len(q) /\ G[1 + 1] = rest
        BY <2>1, <2>2, <2>4, <2>6
      <3> QED BY <2>3, <2>4, <2>6, <3>1 DEF Follows
    <2>8. ASSUME NEW j \in 1 .. Len(t) PROVE Follows(q, G, j + 1)
      <3>1. Follows(t, F, j) /\ q[j + 1] = t[j] /\ G[j + 1] = F[j]
        BY <2>2, <2>4, <2>6
      <3>2. j + 1 < Len(q) <=> j < Len(t)
        BY <2>1, <2>4
      <3>3. j < Len(t) => G[(j + 1) + 1] = F[j + 1]
        <4>1. j < Len(t) => j + 1 \in 1 .. Len(t)
          BY <2>1
        <4> QED BY <2>6, <4>1
      <3> QED BY <3>1, <3>2, <3>3 DEF Follows
    <2>9. \A i \in 1 .. Len(q) : Follows(q, G, i)
      <3> SUFFICES ASSUME NEW i \in 1 .. Len(q), i # 1 PROVE Follows(q, G, i)
        BY <2>7
      <3>1. i - 1 \in 1 .. Len(t) /\ (i - 1) + 1 = i
        BY <2>1, <2>4
      <3>2. Follows(q, G, (i - 1) + 1)
        BY <2>8, <3>1
      <3> QED BY <3>1, <3>2
    <2>10. Fits(q, top)
      BY <2>4, <2>5, <2>6, <2>9 DEF Fits
    <2> QED BY <2>10 DEF q, top
  <1> QED BY <1>1, <1>2

-----------------------------------------------------------------------------
(* The tables of readers have no name in common.                           *)
LEMMA ReaderNames ==
  /\ DOMAIN MemberReads = {"interface", "byte", "field_info", "method_info"}
  /\ DOMAIN CodeReads = {"Code", "exception_table_t"}
  /\ DOMAIN StackMapReads =
       {"StackMapTable", "stack_map_frame", "verification_type_info"}
  /\ DOMAIN PlainReads =
       {"ConstantValue", "Exceptions", "exception_index", "InnerClasses",
        "classes_t", "EnclosingMethod", "Synthetic", "Signature", "SourceFile",
        "LineNumberTable", "line_number_table_t", "LocalVariableTable",
        "local_variable_table_t", "LocalVariableTypeTable",
        "local_variable_type_table_t", "Deprecated"}
  /\ DOMAIN ElementReads =
       {"element_value", "const_value_t", "enum_const_value_t", "class_info_t",
        "array_value_t", "annotation", "element_value_pairs_t"}
  /\ DOMAIN TypeAnnotationReads =
       {"type_annotation", "type_parameter_target", "supertype_target",
        "type_parameter_bound_target", "empty_target", "formal_parameter_target",
        "throws_target", "localvar_target", "table_t", "catch_target",
        "offset_target", "type_argument_target", "type_path", "path_t"}
  /\ DOMAIN RuntimeReads =
       {"RuntimeVisibleAnnotations", "RuntimeInvisibleAnnotations",
        "parameter_annotations_t", "RuntimeVisibleParameterAnnotations",
        "RuntimeInvisibleParameterAnnotations", "RuntimeVisibleTypeAnnotations",
        "RuntimeInvisibleTypeAnnotations", "AnnotationDefault",
        "BootstrapMethods", "bootstrap_methods_t", "bootstrap_argument",
        "MethodParameters", "parameters_t"}
  BY DEF MemberReads, CodeReads, StackMapReads, PlainReads, ElementReads,
         TypeAnnotationReads, RuntimeReads

LEMMA ReadsEntry ==
  ASSUME NEW T \in Readers, NEW x \in DOMAIN T
  PROVE  Reads(x) = T[x]
  <1>1. ASSUME NEW U \in Readers, x \in DOMAIN U PROVE U = T
    BY <1>1, ReaderNames DEF Readers
  <1>2. (CHOOSE r \in Readers : x \in DOMAIN r) = T
    BY <1>1
  <1> QED BY <1>2 DEF Reads

(* What the reader of each part reads, by the form of it.                  *)
LEMMA FixedPartReads ==
  /\ Reads("empty_target") = <<>>
  /\ \A x \in {"byte", "type_parameter_target", "formal_parameter_target"} :
       Reads(x) = <<Field(1)>>
  /\ \A x \in {"interface", "exception_index", "bootstrap_argument",
               "const_value_t", "class_info_t", "supertype_target",
               "throws_target", "catch_target", "offset_target"} :
       Reads(x) = <<Field(2)>>
  /\ \A x \in {"type_parameter_bound_target", "path_t"} :
       Reads(x) = <<Field(1), Field(1)>>
  /\ Reads("type_argument_target") = <<Field(2), Field(1)>>
  /\ \A x \in {"enum_const_value_t", "line_number_table_t", "parameters_t"} :
       Reads(x) = <<Field(2), Field(2)>>
  /\ Reads("table_t") = <<Field(2), Field(2), Field(2)>>
  /\ \A x \in {"exception_table_t", "classes_t"} :
       Reads(x) = <<Field(2), Field(2), Field(2), Field(2)>>
  /\ \A x \in {"local_variable_table_t", "local_variable_type_table_t"} :
       Reads(x) = <<Field(2), Field(2), Field(2), Field(2), Field(2)>>
  <1>1. /\ Reads("interface") = MemberReads["interface"]
        /\ Reads("byte") = MemberReads["byte"]
        /\ Reads("exception_table_t") = CodeReads["exception_table_t"]
    BY ReadsEntry, ReaderNames DEF Readers
  <1>2. \A x \in {"exception_index", "classes_t", "line_number_table_t",
                  "local_variable_table_t", "local_variable_type_table_t"} :
          Reads(x) = PlainReads[x]
    BY ReadsEntry, ReaderNames DEF Readers
  <1>3. \A x \in {"const_value_t", "enum_const_value_t", "class_info_t"} :
          Reads(x) = ElementReads[x]
    BY ReadsEntry, ReaderNames DEF Readers
  <1>4. \A x \in DOMAIN TypeAnnotationReads : Reads(x) = TypeAnnotationReads[x]
    BY ReadsEntry DEF Readers
  <1>5. \A x \in {"bootstrap_argument", "parameters_t"} : Reads(x) = RuntimeReads[x]
    BY ReadsEntry, ReaderNames DEF Readers
  <1>6. /\ Reads("byte") = <<Field(1)>> /\ Reads("interface") = <<Field(2)>>
        /\ Reads("exception_table_t") = <<Field(2), Field(2), Field(2), Field(2)>>
    BY <1>1 DEF MemberReads, CodeReads
  <1>7. /\ Reads("exception_index") = <<Field(2)>>
        /\ Reads("line_number_table_t") = <<Field(2), Field(2)>>
        /\ Reads("classes_t") = <<Field(2), Field(2), Field(2), Field(2)>>
        /\ \A x \in {"local_variable_table_t", "local_variable_type_table_t"} :
             Reads(x) = <<Field(2), Field(2), Field(2), Field(2), Field(2)>>
    BY <1>2 DEF PlainReads
  <1>8. /\ \A x \in {"const_value_t", "class_info_t"} : Reads(x) = <<Field(2)>>
        /\ Reads("enum_const_value_t") = <<Field(2), Field(2)>>
    BY <1>3 DEF ElementReads
  <1>9. /\ Reads("empty_target") = <<>>
        /\ \A x \in {"type_parameter_target", "formal_parameter_target"} :
             Reads(x) = <<Field(1)>>
        /\ \A x \in {"supertype_target", "throws_target", "catch_target", "offset_target"} :
             Reads(x) = <<Field(2)>>
        /\ \A x \in {"type_parameter_bound_target", "path_t"} :
             Reads(x) = <<Field(1), Field(1)>>
        /\ Reads("type_argument_target") = <<Field(2), Field(1)>>
        /\ Reads("table_t") = <<Field(2), Field(2), Field(2)>>
    BY <1>4, ReaderNames DEF TypeAnnotationReads
  <1>10. /\ Reads("bootstrap_argument") = <<Field(2)>>
         /\ Reads("parameters_t") = <<Field(2), Field(2)>>
    BY <1>5 DEF RuntimeReads
  <1> QED BY <1>6, <1>7, <1>8, <1>9, <1>10

LEMMA OtherPartReads ==
  /\ Reads("field_info") =
       <<Field(2), Field(2), Field(2), Table(2, "field_attribute")>>
  /\ Reads("method_info") =
       <<Field(2), Field(2), Field(2), Table(2, "method_attribute")>>
  /\ Reads("stack_map_frame") = <<Tag("frame")>>
  /\ Reads("verification_type_info") = <<Tag("verification_type")>>
  /\ Reads("element_value") = <<Tag("element")>>
  /\ Reads("array_value_t") = <<Table(2, "element_value")>>
  /\ Reads("annotation") = <<Field(2), Table(2, "element_value_pairs_t")>>
  /\ Reads("element_value_pairs_t") = <<Field(2), Part("element_value")>>
  /\ Reads("parameter_annotations_t") = <<Table(2, "annotation")>>
  /\ Reads("localvar_target") = <<Table(2, "table_t")>>
  /\ Reads("type_path") = <<Table(1, "path_t")>>
  /\ Reads("type_annotation") =
       <<Tag("target"), Part("type_path"), Part("annotation")>>
  /\ Reads("bootstrap_methods_t") = <<Field(2), Table(2, "bootstrap_argument")>>
  <1>1. \A x \in {"field_info", "method_info"} : Reads(x) = MemberReads[x]
    BY ReadsEntry, ReaderNames DEF Readers
  <1>2. \A x \in {"stack_map_frame", "verification_type_info"} : Reads(x) = StackMapReads[x]
    BY ReadsEntry, ReaderNames DEF Readers
  <1>3. \A x \in DOMAIN ElementReads : Reads(x) = ElementReads[x]
    BY ReadsEntry DEF Readers
  <1>4. \A x \in DOMAIN TypeAnnotationReads : Reads(x) = TypeAnnotationReads[x]
    BY ReadsEntry DEF Readers
  <1>5. \A x \in {"parameter_annotations_t", "bootstrap_methods_t"} :
          Reads(x) = RuntimeReads[x]
    BY ReadsEntry, ReaderNames DEF Readers
  <1>6. /\ Reads("field_info") =
             <<Field(2), Field(2), Field(2), Table(2, "field_attribute")>>
        /\ Reads("method_info") =
             <<Field(2), Field(2), Field(2), Table(2, "method_attribute")>>
    BY <1>1 DEF MemberReads
  <1>7. /\ Reads("stack_map_frame") = <<Tag("frame")>>
        /\ Reads("verification_type_info") = <<Tag("verification_type")>>
    BY <1>2 DEF StackMapReads
  <1>8. /\ Reads("element_value") = <<Tag("element")>>
        /\ Reads("array_value_t") = <<Table(2, "element_value")>>
        /\ Reads("annotation") = <<Field(2), Table(2, "element_value_pairs_t")>>
        /\ Reads("element_value_pairs_t") = <<Field(2), Part("element_value")>>
    BY <1>3, ReaderNames DEF ElementReads
  <1>9. /\ Reads("localvar_target") = <<Table(2, "table_t")>>
        /\ Reads("type_path") = <<Table(1, "path_t")>>
        /\ Reads("type_annotation") =
             <<Tag("target"), Part("type_path"), Part("annotation")>>
    BY <1>4, ReaderNames DEF TypeAnnotationReads
  <1>10. /\ Reads("parameter_annotations_t") = <<Table(2, "annotation")>>
         /\ Reads("bootstrap_methods_t") = <<Field(2), Table(2, "bootstrap_argument")>>
    BY <1>5 DEF RuntimeReads
  <1> QED BY <1>6, <1>7, <1>8, <1>9, <1>10

(* And that of each attribute.                                             *)
LEMMA AttributeReads ==
  /\ \A kind \in {"Synthetic", "Deprecated"} : Reads(kind) = <<>>
  /\ \A kind \in {"ConstantValue", "Signature", "SourceFile"} :
       Reads(kind) = <<Field(2)>>
  /\ Reads("EnclosingMethod") = <<Field(2), Field(2)>>
  /\ Reads("Code") = <<Field(2), Field(2), Table(4, "byte"),
                       Table(2, "exception_table_t"), Table(2, "code_attribute")>>
  /\ Reads("StackMapTable") = <<Table(2, "stack_map_frame")>>
  /\ Reads("Exceptions") = <<Table(2, "exception_index")>>
  /\ Reads("InnerClasses") = <<Table(2, "classes_t")>>
  /\ Reads("LineNumberTable") = <<Table(2, "line_number_table_t")>>
  /\ Reads("LocalVariableTable") = <<Table(2, "local_variable_table_t")>>
  /\ Reads("LocalVariableTypeTable") = <<Table(2, "local_variable_type_table_t")>>
  /\ Reads("BootstrapMethods") = <<Table(2, "bootstrap_methods_t")>>
  /\ Reads("MethodParameters") = <<Table(1, "parameters_t")>>
  /\ \A kind \in {"RuntimeVisibleAnnotations", "RuntimeInvisibleAnnotations"} :
       Reads(kind) = <<Part("parameter_annotations_t")>>
  /\ \A kind \in {"RuntimeVisibleParameterAnnotations",
                  "RuntimeInvisibleParameterAnnotations"} :
       Reads(kind) = <<Table(1, "parameter_annotations_t")>>
  /\ \A kind \in {"RuntimeVisibleTypeAnnotations", "RuntimeInvisibleTypeAnnotations"} :
       Reads(kind) = <<Table(2, "type_annotation")>>
  /\ Reads("AnnotationDefault") = <<Part("element_value")>>
  <1>1. Reads("Code") = CodeReads["Code"] /\ Reads("StackMapTable") = StackMapReads["StackMapTable"]
    BY ReadsEntry, ReaderNames DEF Readers
  <1>2. \A x \in DOMAIN PlainReads : Reads(x) = PlainReads[x]
    BY ReadsEntry DEF Readers
  <1>3. \A x \in DOMAIN RuntimeReads : Reads(x) = RuntimeReads[x]
    BY ReadsEntry DEF Readers
  <1>4. /\ Reads("Code") = <<Field(2), Field(2), Table(4, "byte"),
                             Table(2, "exception_table_t"), Table(2, "code_attribute")>>
        /\ Reads("StackMapTable") = <<Table(2, "stack_map_frame")>>
    BY <1>1 DEF CodeReads, StackMapReads
  <1>5. /\ \A kind \in {"Synthetic", "Deprecated"} : Reads(kind) = <<>>
        /\ \A kind \in {"ConstantValue", "Signature", "SourceFile"} :
             Reads(kind) = <<Field(2)>>
        /\ Reads("EnclosingMethod") = <<Field(2), Field(2)>>
        /\ Reads("Exceptions") = <<Table(2, "exception_index")>>
        /\ Reads("InnerClasses") = <<Table(2, "classes_t")>>
        /\ Reads("LineNumberTable") = <<Table(2, "line_number_table_t")>>
        /\ Reads("LocalVariableTable") = <<Table(2, "local_variable_table_t")>>
        /\ Reads("LocalVariableTypeTable") = <<Table(2, "local_variable_type_table_t")>>
    BY <1>2, ReaderNames DEF PlainReads
  <1>6. /\ Reads("BootstrapMethods") = <<Table(2, "bootstrap_methods_t")>>
        /\ Reads("MethodParameters") = <<Table(1, "parameters_t")>>
        /\ \A kind \in {"RuntimeVisibleAnnotations", "RuntimeInvisibleAnnotations"} :
             Reads(kind) = <<Part("parameter_annotations_t")>>
        /\ \A kind \in {"RuntimeVisibleParameterAnnotations",
                        "RuntimeInvisibleParameterAnnotations"} :
             Reads(kind) = <<Table(1, "parameter_annotations_t")>>
        /\ \A kind \in {"RuntimeVisibleTypeAnnotations", "RuntimeInvisibleTypeAnnotations"} :
             Reads(kind) = <<Table(2, "type_annotation")>>
        /\ Reads("AnnotationDefault") = <<Part("element_value")>>
    BY <1>3, ReaderNames DEF RuntimeReads
  <1> QED BY <1>4, <1>5, <1>6

-----------------------------------------------------------------------------
(* What the readers' sequences weigh.                                      *)
Costs(y, stub, n, m) ==
  y \in Allowed(stub) /\ Need(y) = n /\ Misses(stub, y) = m

LEMMA SymbolCosts ==
  ASSUME NEW stub \in BOOLEAN
  PROVE  /\ \A w \in Widths : Costs(Field(w), stub, w, 0)
         /\ \A w \in Widths, x \in EntriesOf(stub) : Costs(Table(w, x), stub, w, 0)
         /\ \A x \in TagsOf(stub) : Costs(Tag(x), stub, 1, 0)
         /\ \A x \in EntriesOf(stub) \union StubSingles :
              Costs(Part(x), stub, PartLength(x), IF stub THEN PartLength(x) ELSE 0)
  BY FieldSymbol, TableSymbol, TagSymbol, PartSymbol DEF Costs

LEMMA WeighsFirst ==
  ASSUME NEW stub \in BOOLEAN, NEW y, NEW n, NEW m, Costs(y, stub, n, m),
         NEW r, NEW length, NEW missing, Weighs(r, stub, length, missing)
  PROVE  Weighs(<<y>> \o r, stub, n + length, m + missing)
  BY WeighsCons DEF Costs

(* A tuple is its first element and the tuple of the others.               *)
LEMMA Consed ==
  ASSUME NEW S, NEW y \in S, NEW r \in Seq(S), NEW q \in Seq(S),
         Len(q) = Len(r) + 1, q[1] = y, \A i \in 1 .. Len(r) : q[i + 1] = r[i]
  PROVE  <<y>> \o r = q
  <1> DEFINE x == <<y>> \o r
  <1>1. <<y>> \in Seq(S) /\ Len(r) \in Nat
    OBVIOUS
  <1>2. x \in Seq(S) /\ Len(x) = Len(r) + 1
    BY <1>1
  <1>3. x[1] = y /\ \A i \in 1 .. Len(r) : x[i + 1] = r[i]
    BY <1>1
  <1> HIDE DEF x
  <1>4. ASSUME NEW i \in 1 .. Len(x) PROVE x[i] = q[i]
    <2>1. CASE i = 1
      BY <1>3, <2>1
    <2>2. CASE i # 1
      <3>1. i - 1 \in 1 .. Len(r) /\ (i - 1) + 1 = i
        BY <1>1, <1>2, <2>2
      <3>2. x[(i - 1) + 1] = r[i - 1] /\ q[(i - 1) + 1] = r[i - 1]
        BY <1>3, <3>1
      <3> QED BY <3>1, <3>2
    <2> QED BY <2>1, <2>2
  <1>5. x = q
    BY <1>2, <1>4, SeqEqual
  <1> QED BY <1>5 DEF x

LEMMA Pair ==
  ASSUME NEW a, NEW b
  PROVE  <<a>> \o <<b>> = <<a, b>>
  <1> DEFINE S == {a, b}
             r == <<b>>
             q == <<a, b>>
  <1>1. a \in S /\ r \in Seq(S) /\ q \in Seq(S)
    OBVIOUS
  <1>2. Len(q) = Len(r) + 1 /\ q[1] = a /\ \A i \in 1 .. Len(r) : q[i + 1] = r[i]
    OBVIOUS
  <1> HIDE DEF S, r, q
  <1>3. <<a>> \o r = q
    BY <1>1, <1>2, Consed
  <1> QED BY <1>3 DEF r, q

LEMMA Triple ==
  ASSUME NEW a, NEW b, NEW c
  PROVE  <<a>> \o <<b, c>> = <<a, b, c>>
  <1> DEFINE S == {a, b, c}
             r == <<b, c>>
             q == <<a, b, c>>
  <1>1. a \in S /\ r \in Seq(S) /\ q \in Seq(S)
    OBVIOUS
  <1>2. Len(q) = Len(r) + 1 /\ q[1] = a /\ \A i \in 1 .. Len(r) : q[i + 1] = r[i]
    OBVIOUS
  <1> HIDE DEF S, r, q
  <1>3. <<a>> \o r = q
    BY <1>1, <1>2, Consed
  <1> QED BY <1>3 DEF r, q

LEMMA Quadruple ==
  ASSUME NEW a, NEW b, NEW c, NEW d
  PROVE  <<a>> \o <<b, c, d>> = <<a, b, c, d>>
  <1> DEFINE S == {a, b, c, d}
             r == <<b, c, d>>
             q == <<a, b, c, d>>
  <1>1. a \in S /\ r \in Seq(S) /\ q \in Seq(S)
    OBVIOUS
  <1>2. Len(q) = Len(r) + 1 /\ q[1] = a /\ \A i \in 1 .. Len(r) : q[i + 1] = r[i]
    OBVIOUS
  <1> HIDE DEF S, r, q
  <1>3. <<a>> \o r = q
    BY <1>1, <1>2, Consed
  <1> QED BY <1>3 DEF r, q

LEMMA Quintuple ==
  ASSUME NEW a, NEW b, NEW c, NEW d, NEW e
  PROVE  <<a>> \o <<b, c, d, e>> = <<a, b, c, d, e>>
  <1> DEFINE S == {a, b, c, d, e}
             r == <<b, c, d, e>>
             q == <<a, b, c, d, e>>
  <1>1. a \in S /\ r \in Seq(S) /\ q \in Seq(S)
    OBVIOUS
  <1>2. Len(q) = Len(r) + 1 /\ q[1] = a /\ \A i \in 1 .. Len(r) : q[i + 1] = r[i]
    OBVIOUS
  <1> HIDE DEF S, r, q
  <1>3. <<a>> \o r = q
    BY <1>1, <1>2, Consed
  <1> QED BY <1>3 DEF r, q

LEMMA Sextuple ==
  ASSUME NEW a, NEW b, NEW c, NEW d, NEW e, NEW f
  PROVE  <<a>> \o <<b, c, d, e, f>> = <<a, b, c, d, e, f>>
  <1> DEFINE S == {a, b, c, d, e, f}
             r == <<b, c, d, e, f>>
             q == <<a, b, c, d, e, f>>
  <1>1. a \in S /\ r \in Seq(S) /\ q \in Seq(S)
    OBVIOUS
  <1>2. Len(q) = Len(r) + 1 /\ q[1] = a /\ \A i \in 1 .. Len(r) : q[i + 1] = r[i]
    OBVIOUS
  <1> HIDE DEF S, r, q
  <1>3. <<a>> \o r = q
    BY <1>1, <1>2, Consed
  <1> QED BY <1>3 DEF r, q

LEMMA Septuple ==
  ASSUME NEW a, NEW b, NEW c, NEW d, NEW e, NEW f, NEW g
  PROVE  <<a>> \o <<b, c, d, e, f, g>> = <<a, b, c, d, e, f, g>>
  <1> DEFINE S == {a, b, c, d, e, f, g}
             r == <<b, c, d, e, f, g>>
             q == <<a, b, c, d, e, f, g>>
  <1>1. a \in S /\ r \in Seq(S) /\ q \in Seq(S)
    OBVIOUS
  <1>2. Len(q) = Len(r) + 1 /\ q[1] = a /\ \A i \in 1 .. Len(r) : q[i + 1] = r[i]
    OBVIOUS
  <1> HIDE DEF S, r, q
  <1>3. <<a>> \o r = q
    BY <1>1, <1>2, Consed
  <1> QED BY <1>3 DEF r, q

LEMMA Weighs1 ==
  ASSUME NEW stub \in BOOLEAN, NEW a, NEW n, NEW m, Costs(a, stub, n, m)
  PROVE  Weighs(<<a>>, stub, n, m)
  <1>1. n \in Nat /\ m \in Nat
    BY NeedNat DEF Costs
  <1>2. Weighs(<<a>> \o <<>>, stub, n + 0, m + 0)
    BY WeighsNothing, WeighsFirst
  <1>3. <<a>> \o <<>> = <<a>> /\ n + 0 = n /\ m + 0 = m
    BY <1>1
  <1> QED BY <1>2, <1>3

LEMMA Weighs2 ==
  ASSUME NEW stub \in BOOLEAN, NEW a, NEW n, NEW m, Costs(a, stub, n, m),
         NEW b, NEW k, NEW j, Costs(b, stub, k, j)
  PROVE  Weighs(<<a, b>>, stub, n + k, m + j)
  <1>1. Weighs(<<a>> \o <<b>>, stub, n + k, m + j)
    BY Weighs1, WeighsFirst
  <1>2. <<a>> \o <<b>> = <<a, b>>
    BY Pair
  <1> QED BY <1>1, <1>2

LEMMA Weighs3 ==
  ASSUME NEW stub \in BOOLEAN, NEW a, NEW n, NEW m, Costs(a, stub, n, m),
         NEW b, NEW k, NEW j, Costs(b, stub, k, j),
         NEW c, NEW l, NEW i, Costs(c, stub, l, i)
  PROVE  Weighs(<<a, b, c>>, stub, n + (k + l), m + (j + i))
  <1>1. Weighs(<<a>> \o <<b, c>>, stub, n + (k + l), m + (j + i))
    <2>1. Weighs(<<b, c>>, stub, k + l, j + i)
      BY Weighs2
    <2> QED BY <2>1, WeighsFirst
  <1>2. <<a>> \o <<b, c>> = <<a, b, c>>
    BY Triple
  <1> QED BY <1>1, <1>2

(* Longer ones begin with fields.                                          *)
LEMMA WeighsField ==
  ASSUME NEW stub \in BOOLEAN, NEW w \in Widths,
         NEW r, NEW length, NEW missing, Weighs(r, stub, length, missing)
  PROVE  Weighs(<<Field(w)>> \o r, stub, w + length, missing)
  <1>1. missing \in Nat
    <2>1. Len(r) \in Nat
      BY DEF Weighs
    <2>2. 1 \in 1 .. Len(r) + 1
      BY <2>1
    <2> QED BY <2>2 DEF Weighs
  <1>2. Costs(Field(w), stub, w, 0)
    BY SymbolCosts
  <1>3. Weighs(<<Field(w)>> \o r, stub, w + length, 0 + missing)
    BY <1>2, WeighsFirst
  <1> QED BY <1>1, <1>3

LEMMA WeighsFields ==
  ASSUME NEW stub \in BOOLEAN
  PROVE  /\ Weighs(<<Field(1)>>, stub, 1, 0)
         /\ Weighs(<<Field(2)>>, stub, 2, 0)
         /\ Weighs(<<Field(1), Field(1)>>, stub, 2, 0)
         /\ Weighs(<<Field(2), Field(1)>>, stub, 3, 0)
         /\ Weighs(<<Field(1), Field(2)>>, stub, 3, 0)
         /\ Weighs(<<Field(2), Field(2)>>, stub, 4, 0)
         /\ Weighs(<<Field(1), Field(4)>>, stub, 5, 0)
         /\ Weighs(<<Field(2), Field(2), Field(2)>>, stub, 6, 0)
         /\ Weighs(<<Field(1), Field(1), Field(2)>>, stub, 4, 0)
         /\ Weighs(<<Field(1), Field(2), Field(2)>>, stub, 5, 0)
         /\ Weighs(<<Field(1), Field(4), Field(4)>>, stub, 9, 0)
         /\ Weighs(<<Field(2), Field(2), Field(2), Field(2)>>, stub, 8, 0)
         /\ Weighs(<<Field(2), Field(2), Field(2), Field(2), Field(2)>>, stub, 10, 0)
  <1>1. /\ Costs(Field(1), stub, 1, 0) /\ Costs(Field(2), stub, 2, 0)
        /\ Costs(Field(4), stub, 4, 0)
    BY SymbolCosts DEF Widths
  <1>2. Weighs(<<Field(1)>>, stub, 1, 0) /\ Weighs(<<Field(2)>>, stub, 2, 0)
    BY <1>1, Weighs1
  <1>3. /\ Weighs(<<Field(1), Field(1)>>, stub, 1 + 1, 0 + 0)
        /\ Weighs(<<Field(2), Field(1)>>, stub, 2 + 1, 0 + 0)
        /\ Weighs(<<Field(1), Field(2)>>, stub, 1 + 2, 0 + 0)
        /\ Weighs(<<Field(2), Field(2)>>, stub, 2 + 2, 0 + 0)
        /\ Weighs(<<Field(1), Field(4)>>, stub, 1 + 4, 0 + 0)
    BY <1>1, Weighs2
  <1>4. /\ Weighs(<<Field(2), Field(2), Field(2)>>, stub, 2 + (2 + 2), 0 + (0 + 0))
        /\ Weighs(<<Field(1), Field(1), Field(2)>>, stub, 1 + (1 + 2), 0 + (0 + 0))
        /\ Weighs(<<Field(1), Field(2), Field(2)>>, stub, 1 + (2 + 2), 0 + (0 + 0))
        /\ Weighs(<<Field(1), Field(4), Field(4)>>, stub, 1 + (4 + 4), 0 + (0 + 0))
    BY <1>1, Weighs3
  <1>5. 2 \in Widths
    BY DEF Widths
  <1>6. Weighs(<<Field(2), Field(2), Field(2), Field(2)>>, stub, 8, 0)
    <2>1. Weighs(<<Field(2)>> \o <<Field(2), Field(2), Field(2)>>, stub, 2 + 6, 0)
      BY <1>4, <1>5, WeighsField
    <2>2. <<Field(2)>> \o <<Field(2), Field(2), Field(2)>>
            = <<Field(2), Field(2), Field(2), Field(2)>>
      BY Quadruple
    <2>3. 2 + 6 = 8
      OBVIOUS
    <2> QED BY ONLY <2>1, <2>2, <2>3, Zenon
  <1>7. Weighs(<<Field(2), Field(2), Field(2), Field(2), Field(2)>>, stub, 10, 0)
    <2>1. Weighs(<<Field(2)>> \o <<Field(2), Field(2), Field(2), Field(2)>>, stub, 2 + 8, 0)
      BY <1>5, <1>6, WeighsField
    <2>2. <<Field(2)>> \o <<Field(2), Field(2), Field(2), Field(2)>>
            = <<Field(2), Field(2), Field(2), Field(2), Field(2)>>
      BY Quintuple
    <2>3. 2 + 8 = 10
      OBVIOUS
    <2> QED BY ONLY <2>1, <2>2, <2>3, Zenon
  <1> QED BY <1>2, <1>3, <1>4, <1>6, <1>7

(* The lengths of the parts, and what they inject.                         *)
LEMMA PartLengths ==
  /\ PartLength("empty_target") = 0
  /\ \A x \in {"byte", "stack_map_frame", "verification_type_info", "element_value",
               "type_parameter_target", "formal_parameter_target", "type_path"} :
       PartLength(x) = 1
  /\ \A x \in {"interface", "exception_index", "bootstrap_argument",
               "parameter_annotations_t", "path_t", "const_value_t",
               "class_info_t", "array_value_t", "supertype_target",
               "type_parameter_bound_target", "throws_target",
               "localvar_target", "catch_target", "offset_target"} :
       PartLength(x) = 2
  /\ \A x \in {"element_value_pairs_t", "type_argument_target"} : PartLength(x) = 3
  /\ \A x \in {"line_number_table_t", "bootstrap_methods_t", "parameters_t",
               "annotation", "enum_const_value_t"} : PartLength(x) = 4
  /\ \A x \in Places \union {"table_t", "type_annotation"} : PartLength(x) = 6
  /\ \A x \in {"field_info", "method_info", "exception_table_t", "classes_t"} :
       PartLength(x) = 8
  /\ \A x \in {"local_variable_table_t", "local_variable_type_table_t"} :
       PartLength(x) = 10
  BY DEF PartLength, EntryLength, SingleLength, Entries, StubEntries, Places

LEMMA StubNames ==
  /\ DOMAIN Injected = {"const_value_t", "enum_const_value_t", "class_info_t",
                        "array_value_t", "element_value", "element_value_pairs_t",
                        "annotation", "parameter_annotations_t"}
  /\ DOMAIN InjectedByTargets =
       {"type_parameter_target", "supertype_target", "type_parameter_bound_target",
        "empty_target", "formal_parameter_target", "throws_target",
        "localvar_target", "table_t", "catch_target", "offset_target",
        "type_argument_target", "type_path", "path_t", "type_annotation"}
  /\ DOMAIN InjectedByAttributes =
       {"RuntimeVisibleAnnotations", "RuntimeInvisibleAnnotations",
        "RuntimeVisibleParameterAnnotations", "RuntimeInvisibleParameterAnnotations",
        "RuntimeVisibleTypeAnnotations", "RuntimeInvisibleTypeAnnotations",
        "AnnotationDefault"}
  BY DEF Injected, InjectedByTargets, InjectedByAttributes

LEMMA StubLengths ==
  /\ \A x \in (StubEntries \union StubSingles)
                \ {"element_value_pairs_t", "type_annotation"} :
       StubOf(x) = PartLength(x)
  /\ StubOf("element_value_pairs_t") = 2
  /\ StubOf("type_annotation") = 1
  <1>1. \A x \in DOMAIN Injected : StubOf(x) = Injected[x]
    BY StubNames DEF StubOf
  <1>2. \A x \in DOMAIN InjectedByTargets : StubOf(x) = InjectedByTargets[x]
    BY StubNames DEF StubOf
  <1>3. /\ \A x \in DOMAIN Injected \ {"element_value_pairs_t"} :
             StubOf(x) = PartLength(x)
        /\ StubOf("element_value_pairs_t") = 2
    BY <1>1, StubNames, PartLengths DEF Injected
  <1>4. /\ \A x \in DOMAIN InjectedByTargets \ {"type_annotation"} :
             StubOf(x) = PartLength(x)
        /\ StubOf("type_annotation") = 1
    BY <1>2, StubNames, PartLengths DEF InjectedByTargets, Places
  <1> QED BY <1>3, <1>4, StubNames DEF StubEntries, StubSingles

(* What a part reads has the bytes that the format gives the part, and in  *)
(* an attribute that keeps a stub those that it does not inject itself.    *)
PartWeighs(x, stub) ==
  /\ Weighs(Reads(x), stub, PartLength(x),
            IF stub THEN PartLength(x) - StubOf(x) ELSE 0)
  /\ stub => StubOf(x) \in Nat

LEMMA FixedPartsWeigh ==
  ASSUME NEW stub \in BOOLEAN, NEW x \in EntriesOf(stub) \union StubSingles,
         x \in {"empty_target", "byte", "type_parameter_target",
                "formal_parameter_target", "interface", "exception_index",
                "bootstrap_argument", "const_value_t", "class_info_t",
                "supertype_target", "throws_target", "catch_target",
                "offset_target", "type_parameter_bound_target", "path_t",
                "type_argument_target", "enum_const_value_t",
                "line_number_table_t", "parameters_t", "table_t",
                "exception_table_t", "classes_t", "local_variable_table_t",
                "local_variable_type_table_t"}
  PROVE  PartWeighs(x, stub)
  <1>1. Weighs(Reads(x), stub, PartLength(x), 0)
    <2>1. CASE x = "empty_target"
      <3>1. Reads(x) = <<>> /\ PartLength(x) = 0
        BY <2>1, FixedPartReads, PartLengths
      <3>2. Weighs(<<>>, stub, 0, 0)
        BY WeighsNothing
      <3> QED BY ONLY <3>1, <3>2, Zenon
    <2>2. CASE x \in {"byte", "type_parameter_target", "formal_parameter_target"}
      <3>1. Reads(x) = <<Field(1)>> /\ PartLength(x) = 1
        BY <2>2, FixedPartReads, PartLengths
      <3>2. Weighs(<<Field(1)>>, stub, 1, 0)
        BY WeighsFields
      <3> QED BY ONLY <3>1, <3>2, Zenon
    <2>3. CASE x \in {"interface", "exception_index", "bootstrap_argument",
                   "const_value_t", "class_info_t", "supertype_target",
                   "throws_target", "catch_target", "offset_target"}
      <3>1. Reads(x) = <<Field(2)>> /\ PartLength(x) = 2
        BY <2>3, FixedPartReads, PartLengths
      <3>2. Weighs(<<Field(2)>>, stub, 2, 0)
        BY WeighsFields
      <3> QED BY ONLY <3>1, <3>2, Zenon
    <2>4. CASE x \in {"type_parameter_bound_target", "path_t"}
      <3>1. Reads(x) = <<Field(1), Field(1)>> /\ PartLength(x) = 2
        BY <2>4, FixedPartReads, PartLengths
      <3>2. Weighs(<<Field(1), Field(1)>>, stub, 2, 0)
        BY WeighsFields
      <3> QED BY ONLY <3>1, <3>2, Zenon
    <2>5. CASE x = "type_argument_target"
      <3>1. Reads(x) = <<Field(2), Field(1)>> /\ PartLength(x) = 3
        BY <2>5, FixedPartReads, PartLengths
      <3>2. Weighs(<<Field(2), Field(1)>>, stub, 3, 0)
        BY WeighsFields
      <3> QED BY ONLY <3>1, <3>2, Zenon
    <2>6. CASE x \in {"enum_const_value_t", "line_number_table_t", "parameters_t"}
      <3>1. Reads(x) = <<Field(2), Field(2)>> /\ PartLength(x) = 4
        BY <2>6, FixedPartReads, PartLengths
      <3>2. Weighs(<<Field(2), Field(2)>>, stub, 4, 0)
        BY WeighsFields
      <3> QED BY ONLY <3>1, <3>2, Zenon
    <2>7. CASE x = "table_t"
      <3>1. Reads(x) = <<Field(2), Field(2), Field(2)>> /\ PartLength(x) = 6
        BY <2>7, FixedPartReads, PartLengths DEF Places
      <3>2. Weighs(<<Field(2), Field(2), Field(2)>>, stub, 6, 0)
        BY WeighsFields
      <3> QED BY ONLY <3>1, <3>2, Zenon
    <2>8. CASE x \in {"exception_table_t", "classes_t"}
      <3>1. Reads(x) = <<Field(2), Field(2), Field(2), Field(2)>> /\ PartLength(x) = 8
        BY <2>8, FixedPartReads, PartLengths
      <3>2. Weighs(<<Field(2), Field(2), Field(2), Field(2)>>, stub, 8, 0)
        BY WeighsFields
      <3> QED BY ONLY <3>1, <3>2, Zenon
    <2>9. CASE x \in {"local_variable_table_t", "local_variable_type_table_t"}
      <3>1. Reads(x) = <<Field(2), Field(2), Field(2), Field(2), Field(2)>> /\ PartLength(x) = 10
        BY <2>9, FixedPartReads, PartLengths
      <3>2. Weighs(<<Field(2), Field(2), Field(2), Field(2), Field(2)>>, stub, 10, 0)
        BY WeighsFields
      <3> QED BY ONLY <3>1, <3>2, Zenon
    <2> QED BY <2>1, <2>2, <2>3, <2>4, <2>5, <2>6, <2>7, <2>8, <2>9
  <1>2. stub => StubOf(x) = PartLength(x) /\ PartLength(x) \in Nat
    BY StubLengths, PartLengthNat DEF EntriesOf, Entries
  <1>3. (IF stub THEN PartLength(x) - StubOf(x) ELSE 0) = 0
    BY <1>2
  <1> QED BY <1>1, <1>2, <1>3 DEF PartWeighs

(* The other parts: those with a table, a tag or a part of their own.      *)
LEMMA OtherPartsWeigh ==
  ASSUME NEW stub \in BOOLEAN, NEW x \in EntriesOf(stub) \union StubSingles,
         x \in {"field_info", "method_info", "stack_map_frame",
                "verification_type_info", "element_value", "array_value_t",
                "annotation", "element_value_pairs_t", "parameter_annotations_t",
                "localvar_target", "type_path", "type_annotation",
                "bootstrap_methods_t"}
  PROVE  PartWeighs(x, stub)
  <1>1. /\ \A w \in {1, 2} : Costs(Field(w), stub, w, 0)
        /\ \A w \in {1, 2}, y \in EntriesOf(stub) : Costs(Table(w, y), stub, w, 0)
        /\ \A y \in TagsOf(stub) : Costs(Tag(y), stub, 1, 0)
        /\ \A y \in EntriesOf(stub) \union StubSingles :
             Costs(Part(y), stub, PartLength(y), IF stub THEN PartLength(y) ELSE 0)
    BY SymbolCosts DEF Widths
  <1>2. 2 \in Widths
    BY DEF Widths
  <1>3. CASE x = "field_info"
    <2>1. /\ Reads(x) =
               <<Field(2), Field(2), Field(2), Table(2, "field_attribute")>>
          /\ PartLength(x) = 8
      BY <1>3, OtherPartReads, PartLengths
    <2>2. ~stub
      BY <1>3 DEF EntriesOf, StubEntries, StubSingles
    <2>3. /\ Costs(Field(2), stub, 2, 0)
          /\ Costs(Table(2, "field_attribute"), stub, 2, 0)
      BY <1>1, <2>2, PartLengths DEF EntriesOf, Entries, StubEntries, StubSingles, TagsOf
    <2>4. Weighs(<<Field(2), Field(2), Field(2), Table(2, "field_attribute")>>,
                 stub, 2 + (2 + (2 + 2)), 0 + (0 + 0))
      <3>1. Weighs(<<Field(2), Field(2), Table(2, "field_attribute")>>, stub, 2 + (2 + 2), 0 + (0 + 0))
        BY <2>3, Weighs3
      <3>2. Weighs(<<Field(2)>> \o <<Field(2), Field(2), Table(2, "field_attribute")>>,
                   stub, 2 + (2 + (2 + 2)), 0 + (0 + 0))
        BY <1>2, <3>1, WeighsField
      <3> QED BY ONLY <3>2, Quadruple, Zenon
    <2>5. 2 + (2 + (2 + 2)) = PartLength(x)
      BY <2>1
    <2>6. (0 + (0 + 0)) = IF stub THEN PartLength(x) - StubOf(x) ELSE 0
      BY <2>1, <2>2
    <2>7. stub => StubOf(x) \in Nat
      BY <2>2
    <2>8. Reads(x) = <<Field(2), Field(2), Field(2), Table(2, "field_attribute")>>
      BY <2>1
    <2> QED BY ONLY <2>4, <2>5, <2>6, <2>7, <2>8, Zenon DEF PartWeighs
  <1>4. CASE x = "method_info"
    <2>1. /\ Reads(x) =
               <<Field(2), Field(2), Field(2), Table(2, "method_attribute")>>
          /\ PartLength(x) = 8
      BY <1>4, OtherPartReads, PartLengths
    <2>2. ~stub
      BY <1>4 DEF EntriesOf, StubEntries, StubSingles
    <2>3. /\ Costs(Field(2), stub, 2, 0)
          /\ Costs(Table(2, "method_attribute"), stub, 2, 0)
      BY <1>1, <2>2, PartLengths DEF EntriesOf, Entries, StubEntries, StubSingles, TagsOf
    <2>4. Weighs(<<Field(2), Field(2), Field(2), Table(2, "method_attribute")>>,
                 stub, 2 + (2 + (2 + 2)), 0 + (0 + 0))
      <3>1. Weighs(<<Field(2), Field(2), Table(2, "method_attribute")>>, stub, 2 + (2 + 2), 0 + (0 + 0))
        BY <2>3, Weighs3
      <3>2. Weighs(<<Field(2)>> \o <<Field(2), Field(2), Table(2, "method_attribute")>>,
                   stub, 2 + (2 + (2 + 2)), 0 + (0 + 0))
        BY <1>2, <3>1, WeighsField
      <3> QED BY ONLY <3>2, Quadruple, Zenon
    <2>5. 2 + (2 + (2 + 2)) = PartLength(x)
      BY <2>1
    <2>6. (0 + (0 + 0)) = IF stub THEN PartLength(x) - StubOf(x) ELSE 0
      BY <2>1, <2>2
    <2>7. stub => StubOf(x) \in Nat
      BY <2>2
    <2>8. Reads(x) = <<Field(2), Field(2), Field(2), Table(2, "method_attribute")>>
      BY <2>1
    <2> QED BY ONLY <2>4, <2>5, <2>6, <2>7, <2>8, Zenon DEF PartWeighs
  <1>5. CASE x = "stack_map_frame"
    <2>1. Reads(x) = <<Tag("frame")>> /\ PartLength(x) = 1
      BY <1>5, OtherPartReads, PartLengths
    <2>2. ~stub
      BY <1>5 DEF EntriesOf, StubEntries, StubSingles
    <2>3. Costs(Tag("frame"), stub, 1, 0)
      BY <1>1, <2>2, PartLengths DEF EntriesOf, Entries, StubEntries, StubSingles, TagsOf
    <2>4. Weighs(<<Tag("frame")>>,
                 stub, 1, 0)
      BY <2>3, Weighs1
    <2>5. 1 = PartLength(x)
      BY <2>1
    <2>6. (0) = IF stub THEN PartLength(x) - StubOf(x) ELSE 0
      BY <2>1, <2>2
    <2>7. stub => StubOf(x) \in Nat
      BY <2>2
    <2>8. Reads(x) = <<Tag("frame")>>
      BY <2>1
    <2> QED BY ONLY <2>4, <2>5, <2>6, <2>7, <2>8, Zenon DEF PartWeighs
  <1>6. CASE x = "verification_type_info"
    <2>1. Reads(x) = <<Tag("verification_type")>> /\ PartLength(x) = 1
      BY <1>6, OtherPartReads, PartLengths
    <2>2. ~stub
      BY <1>6 DEF EntriesOf, StubEntries, StubSingles
    <2>3. Costs(Tag("verification_type"), stub, 1, 0)
      BY <1>1, <2>2, PartLengths DEF EntriesOf, Entries, StubEntries, StubSingles, TagsOf
    <2>4. Weighs(<<Tag("verification_type")>>,
                 stub, 1, 0)
      BY <2>3, Weighs1
    <2>5. 1 = PartLength(x)
      BY <2>1
    <2>6. (0) = IF stub THEN PartLength(x) - StubOf(x) ELSE 0
      BY <2>1, <2>2
    <2>7. stub => StubOf(x) \in Nat
      BY <2>2
    <2>8. Reads(x) = <<Tag("verification_type")>>
      BY <2>1
    <2> QED BY ONLY <2>4, <2>5, <2>6, <2>7, <2>8, Zenon DEF PartWeighs
  <1>7. CASE x = "element_value"
    <2>1. Reads(x) = <<Tag("element")>> /\ PartLength(x) = 1
      BY <1>7, OtherPartReads, PartLengths
    <2>2. stub => StubOf(x) = 1
      BY <1>7, StubLengths, PartLengths DEF StubEntries, StubSingles
    <2>3. Costs(Tag("element"), stub, 1, 0)
      BY <1>1, PartLengths DEF EntriesOf, Entries, StubEntries, StubSingles, TagsOf
    <2>4. Weighs(<<Tag("element")>>,
                 stub, 1, 0)
      BY <2>3, Weighs1
    <2>5. 1 = PartLength(x)
      BY <2>1
    <2>6. (0) = IF stub THEN PartLength(x) - StubOf(x) ELSE 0
      BY <2>1, <2>2
    <2>7. stub => StubOf(x) \in Nat
      BY <2>2
    <2>8. Reads(x) = <<Tag("element")>>
      BY <2>1
    <2> QED BY ONLY <2>4, <2>5, <2>6, <2>7, <2>8, Zenon DEF PartWeighs
  <1>8. CASE x = "array_value_t"
    <2>1. Reads(x) = <<Table(2, "element_value")>> /\ PartLength(x) = 2
      BY <1>8, OtherPartReads, PartLengths
    <2>2. stub => StubOf(x) = 2
      BY <1>8, StubLengths, PartLengths DEF StubEntries, StubSingles
    <2>3. Costs(Table(2, "element_value"), stub, 2, 0)
      BY <1>1, PartLengths DEF EntriesOf, Entries, StubEntries, StubSingles, TagsOf
    <2>4. Weighs(<<Table(2, "element_value")>>,
                 stub, 2, 0)
      BY <2>3, Weighs1
    <2>5. 2 = PartLength(x)
      BY <2>1
    <2>6. (0) = IF stub THEN PartLength(x) - StubOf(x) ELSE 0
      BY <2>1, <2>2
    <2>7. stub => StubOf(x) \in Nat
      BY <2>2
    <2>8. Reads(x) = <<Table(2, "element_value")>>
      BY <2>1
    <2> QED BY ONLY <2>4, <2>5, <2>6, <2>7, <2>8, Zenon DEF PartWeighs
  <1>9. CASE x = "annotation"
    <2>1. /\ Reads(x) =
               <<Field(2), Table(2, "element_value_pairs_t")>>
          /\ PartLength(x) = 4
      BY <1>9, OtherPartReads, PartLengths
    <2>2. stub => StubOf(x) = 4
      BY <1>9, StubLengths, PartLengths DEF StubEntries, StubSingles
    <2>3. /\ Costs(Field(2), stub, 2, 0)
          /\ Costs(Table(2, "element_value_pairs_t"), stub, 2, 0)
      BY <1>1, PartLengths DEF EntriesOf, Entries, StubEntries, StubSingles, TagsOf
    <2>4. Weighs(<<Field(2), Table(2, "element_value_pairs_t")>>,
                 stub, 2 + 2, 0 + 0)
      BY <2>3, Weighs2
    <2>5. 2 + 2 = PartLength(x)
      BY <2>1
    <2>6. (0 + 0) = IF stub THEN PartLength(x) - StubOf(x) ELSE 0
      BY <2>1, <2>2
    <2>7. stub => StubOf(x) \in Nat
      BY <2>2
    <2>8. Reads(x) = <<Field(2), Table(2, "element_value_pairs_t")>>
      BY <2>1
    <2> QED BY ONLY <2>4, <2>5, <2>6, <2>7, <2>8, Zenon DEF PartWeighs
  <1>10. CASE x = "element_value_pairs_t"
    <2>1. Reads(x) = <<Field(2), Part("element_value")>> /\ PartLength(x) = 3
      BY <1>10, OtherPartReads, PartLengths
    <2>2. stub => StubOf(x) = 2
      BY <1>10, StubLengths, PartLengths DEF StubEntries, StubSingles
    <2>3. /\ Costs(Field(2), stub, 2, 0)
          /\ Costs(Part("element_value"), stub, 1, IF stub THEN 1 ELSE 0)
      BY <1>1, PartLengths DEF EntriesOf, Entries, StubEntries, StubSingles, TagsOf
    <2>4. Weighs(<<Field(2), Part("element_value")>>,
                 stub, 2 + 1, 0 + (IF stub THEN 1 ELSE 0))
      BY <2>3, Weighs2
    <2>5. 2 + 1 = PartLength(x)
      BY <2>1
    <2>6. (0 + (IF stub THEN 1 ELSE 0)) = IF stub THEN PartLength(x) - StubOf(x) ELSE 0
      BY <2>1, <2>2
    <2>7. stub => StubOf(x) \in Nat
      BY <2>2
    <2>8. Reads(x) = <<Field(2), Part("element_value")>>
      BY <2>1
    <2> QED BY ONLY <2>4, <2>5, <2>6, <2>7, <2>8, Zenon DEF PartWeighs
  <1>11. CASE x = "parameter_annotations_t"
    <2>1. Reads(x) = <<Table(2, "annotation")>> /\ PartLength(x) = 2
      BY <1>11, OtherPartReads, PartLengths
    <2>2. stub => StubOf(x) = 2
      BY <1>11, StubLengths, PartLengths DEF StubEntries, StubSingles
    <2>3. Costs(Table(2, "annotation"), stub, 2, 0)
      BY <1>1, PartLengths DEF EntriesOf, Entries, StubEntries, StubSingles, TagsOf
    <2>4. Weighs(<<Table(2, "annotation")>>,
                 stub, 2, 0)
      BY <2>3, Weighs1
    <2>5. 2 = PartLength(x)
      BY <2>1
    <2>6. (0) = IF stub THEN PartLength(x) - StubOf(x) ELSE 0
      BY <2>1, <2>2
    <2>7. stub => StubOf(x) \in Nat
      BY <2>2
    <2>8. Reads(x) = <<Table(2, "annotation")>>
      BY <2>1
    <2> QED BY ONLY <2>4, <2>5, <2>6, <2>7, <2>8, Zenon DEF PartWeighs
  <1>12. CASE x = "localvar_target"
    <2>1. Reads(x) = <<Table(2, "table_t")>> /\ PartLength(x) = 2
      BY <1>12, OtherPartReads, PartLengths
    <2>2. stub => StubOf(x) = 2
      BY <1>12, StubLengths, PartLengths DEF StubEntries, StubSingles
    <2>3. Costs(Table(2, "table_t"), stub, 2, 0)
      BY <1>1, PartLengths DEF EntriesOf, Entries, StubEntries, StubSingles, TagsOf
    <2>4. Weighs(<<Table(2, "table_t")>>,
                 stub, 2, 0)
      BY <2>3, Weighs1
    <2>5. 2 = PartLength(x)
      BY <2>1
    <2>6. (0) = IF stub THEN PartLength(x) - StubOf(x) ELSE 0
      BY <2>1, <2>2
    <2>7. stub => StubOf(x) \in Nat
      BY <2>2
    <2>8. Reads(x) = <<Table(2, "table_t")>>
      BY <2>1
    <2> QED BY ONLY <2>4, <2>5, <2>6, <2>7, <2>8, Zenon DEF PartWeighs
  <1>13. CASE x = "type_path"
    <2>1. Reads(x) = <<Table(1, "path_t")>> /\ PartLength(x) = 1
      BY <1>13, OtherPartReads, PartLengths
    <2>2. stub => StubOf(x) = 1
      BY <1>13, StubLengths, PartLengths DEF StubEntries, StubSingles
    <2>3. Costs(Table(1, "path_t"), stub, 1, 0)
      BY <1>1, PartLengths DEF EntriesOf, Entries, StubEntries, StubSingles, TagsOf
    <2>4. Weighs(<<Table(1, "path_t")>>,
                 stub, 1, 0)
      BY <2>3, Weighs1
    <2>5. 1 = PartLength(x)
      BY <2>1
    <2>6. (0) = IF stub THEN PartLength(x) - StubOf(x) ELSE 0
      BY <2>1, <2>2
    <2>7. stub => StubOf(x) \in Nat
      BY <2>2
    <2>8. Reads(x) = <<Table(1, "path_t")>>
      BY <2>1
    <2> QED BY ONLY <2>4, <2>5, <2>6, <2>7, <2>8, Zenon DEF PartWeighs
  <1>14. CASE x = "type_annotation"
    <2>1. /\ Reads(x) =
               <<Tag("target"), Part("type_path"), Part("annotation")>>
          /\ PartLength(x) = 6
      BY <1>14, OtherPartReads, PartLengths DEF Places
    <2>2. stub => StubOf(x) = 1
      BY <1>14, StubLengths, PartLengths DEF StubEntries, StubSingles
    <2>3. /\ Costs(Tag("target"), stub, 1, 0)
          /\ Costs(Part("type_path"), stub, 1, IF stub THEN 1 ELSE 0)
          /\ Costs(Part("annotation"), stub, 4, IF stub THEN 4 ELSE 0)
      BY <1>1, PartLengths DEF EntriesOf, Entries, StubEntries, StubSingles, TagsOf
    <2>4. Weighs(<<Tag("target"), Part("type_path"), Part("annotation")>>,
                 stub, 1 + (1 + 4), 0 + ((IF stub THEN 1 ELSE 0) + (IF stub THEN 4 ELSE 0)))
      BY <2>3, Weighs3
    <2>5. 1 + (1 + 4) = PartLength(x)
      BY <2>1
    <2>6. (0 + ((IF stub THEN 1 ELSE 0) + (IF stub THEN 4 ELSE 0))) = IF stub THEN PartLength(x) - StubOf(x) ELSE 0
      BY <2>1, <2>2
    <2>7. stub => StubOf(x) \in Nat
      BY <2>2
    <2>8. Reads(x) = <<Tag("target"), Part("type_path"), Part("annotation")>>
      BY <2>1
    <2> QED BY ONLY <2>4, <2>5, <2>6, <2>7, <2>8, Zenon DEF PartWeighs
  <1>15. CASE x = "bootstrap_methods_t"
    <2>1. /\ Reads(x) =
               <<Field(2), Table(2, "bootstrap_argument")>>
          /\ PartLength(x) = 4
      BY <1>15, OtherPartReads, PartLengths
    <2>2. ~stub
      BY <1>15 DEF EntriesOf, StubEntries, StubSingles
    <2>3. /\ Costs(Field(2), stub, 2, 0)
          /\ Costs(Table(2, "bootstrap_argument"), stub, 2, 0)
      BY <1>1, <2>2, PartLengths DEF EntriesOf, Entries, StubEntries, StubSingles, TagsOf
    <2>4. Weighs(<<Field(2), Table(2, "bootstrap_argument")>>,
                 stub, 2 + 2, 0 + 0)
      BY <2>3, Weighs2
    <2>5. 2 + 2 = PartLength(x)
      BY <2>1
    <2>6. (0 + 0) = IF stub THEN PartLength(x) - StubOf(x) ELSE 0
      BY <2>1, <2>2
    <2>7. stub => StubOf(x) \in Nat
      BY <2>2
    <2>8. Reads(x) = <<Field(2), Table(2, "bootstrap_argument")>>
      BY <2>1
    <2> QED BY ONLY <2>4, <2>5, <2>6, <2>7, <2>8, Zenon DEF PartWeighs
  <1> QED BY <1>3, <1>4, <1>5, <1>6, <1>7, <1>8, <1>9, <1>10, <1>11, <1>12, <1>13, <1>14, <1>15

LEMMA PartsWeigh ==
  ASSUME NEW stub \in BOOLEAN, NEW x \in EntriesOf(stub) \union StubSingles,
         x \notin Places
  PROVE  PartWeighs(x, stub)
  BY FixedPartsWeigh, OtherPartsWeigh
     DEF EntriesOf, Entries, StubEntries, StubSingles, Places

-----------------------------------------------------------------------------
(* The attributes.                                                         *)
AttributeWeighs(kind, stub) ==
  Weighs(Reads(kind), stub, AttributeLength(kind),
         IF stub THEN AttributeLength(kind) - InjectedByAttributes[kind] ELSE 0)

LEMMA AttributesWeigh ==
  ASSUME NEW stub \in BOOLEAN, NEW kind \in Attributes \ {"SourceDebugExtension"},
         stub <=> kind \in DOMAIN InjectedByAttributes
  PROVE  AttributeWeighs(kind, stub)
  <1>1. /\ \A w \in {1, 2, 4} : Costs(Field(w), stub, w, 0)
        /\ \A w \in {1, 2, 4}, y \in EntriesOf(stub) : Costs(Table(w, y), stub, w, 0)
        /\ \A y \in EntriesOf(stub) \union StubSingles :
             Costs(Part(y), stub, PartLength(y), IF stub THEN PartLength(y) ELSE 0)
    BY SymbolCosts DEF Widths
  <1>2. CASE ~stub
    <2>1. AttributeWeighs(kind, stub) <=> Weighs(Reads(kind), stub, AttributeLength(kind), 0)
      BY <1>2 DEF AttributeWeighs
    <2>2. CASE kind \in {"Synthetic", "Deprecated"}
      <3>1. Reads(kind) = <<>> /\ AttributeLength(kind) = 0
        BY <2>2, AttributeReads DEF AttributeLength
      <3>2. Weighs(<<>>, stub, 0, 0)
        BY WeighsNothing
      <3> QED BY ONLY <2>1, <3>1, <3>2, Zenon
    <2>3. CASE kind \in {"ConstantValue", "Signature", "SourceFile"}
      <3>1. Reads(kind) = <<Field(2)>> /\ AttributeLength(kind) = 2
        BY <2>3, AttributeReads DEF AttributeLength
      <3>2. Weighs(<<Field(2)>>, stub, 2, 0)
        BY WeighsFields
      <3> QED BY ONLY <2>1, <3>1, <3>2, Zenon
    <2>4. CASE kind = "EnclosingMethod"
      <3>1. Reads(kind) = <<Field(2), Field(2)>> /\ AttributeLength(kind) = 4
        BY <2>4, AttributeReads DEF AttributeLength
      <3>2. Weighs(<<Field(2), Field(2)>>, stub, 4, 0)
        BY WeighsFields
      <3> QED BY ONLY <2>1, <3>1, <3>2, Zenon
    <2>5. CASE kind = "Code"
      <3> DEFINE tables == <<Table(4, "byte"), Table(2, "exception_table_t"),
                             Table(2, "code_attribute")>>
      <3>1. /\ Reads(kind) = <<Field(2), Field(2), Table(4, "byte"),
                               Table(2, "exception_table_t"), Table(2, "code_attribute")>>
            /\ AttributeLength(kind) = 12
        BY <2>5, AttributeReads DEF AttributeLength
      <3>2. /\ Costs(Table(4, "byte"), stub, 4, 0)
            /\ Costs(Table(2, "exception_table_t"), stub, 2, 0)
            /\ Costs(Table(2, "code_attribute"), stub, 2, 0)
        BY <1>1, <1>2 DEF EntriesOf, Entries
      <3>3. Weighs(tables, stub, 4 + (2 + 2), 0 + (0 + 0))
        BY <3>2, Weighs3
      <3>4. 2 \in Widths
        BY DEF Widths
      <3>5. Weighs(<<Field(2)>> \o tables, stub, 2 + (4 + (2 + 2)), 0 + (0 + 0))
        BY <3>3, <3>4, WeighsField
      <3>6. Weighs(<<Field(2)>> \o (<<Field(2)>> \o tables), stub,
                   2 + (2 + (4 + (2 + 2))), 0 + (0 + 0))
        BY <3>4, <3>5, WeighsField
      <3>7. 2 + (2 + (4 + (2 + 2))) = 12 /\ 0 + (0 + 0) = 0
        OBVIOUS
      <3>8. <<Field(2)>> \o (<<Field(2)>> \o tables) = Reads(kind)
        <4>1. <<Field(2)>> \o tables
                = <<Field(2), Table(4, "byte"), Table(2, "exception_table_t"),
                    Table(2, "code_attribute")>>
          BY Quadruple
        <4>2. <<Field(2)>> \o <<Field(2), Table(4, "byte"),
                                Table(2, "exception_table_t"), Table(2, "code_attribute")>>
                = <<Field(2), Field(2), Table(4, "byte"),
                    Table(2, "exception_table_t"), Table(2, "code_attribute")>>
          BY Quintuple
        <4> QED BY ONLY <3>1, <4>1, <4>2, Zenon
      <3> QED BY ONLY <2>1, <3>1, <3>6, <3>7, <3>8, Zenon
    <2>6. CASE \E w \in {1, 2, 4}, x \in EntriesOf(stub) :
                 Reads(kind) = <<Table(w, x)>> /\ AttributeLength(kind) = w
      <3>1. PICK w \in {1, 2, 4}, x \in EntriesOf(stub) :
                   Reads(kind) = <<Table(w, x)>> /\ AttributeLength(kind) = w
        BY <2>6
      <3>2. Weighs(<<Table(w, x)>>, stub, w, 0)
        BY <1>1, Weighs1
      <3> QED BY ONLY <2>1, <3>1, <3>2, Zenon
    <2>7. CASE kind = "StackMapTable"
      <3>1. Reads(kind) = <<Table(2, "stack_map_frame")>> /\ AttributeLength(kind) = 2
        BY <2>7, AttributeReads DEF AttributeLength
      <3>2. "stack_map_frame" \in EntriesOf(stub)
        BY <1>2 DEF EntriesOf, Entries
      <3> QED BY <2>6, <3>1, <3>2
    <2>8. CASE kind = "Exceptions"
      <3>1. Reads(kind) = <<Table(2, "exception_index")>> /\ AttributeLength(kind) = 2
        BY <2>8, AttributeReads DEF AttributeLength
      <3>2. "exception_index" \in EntriesOf(stub)
        BY <1>2 DEF EntriesOf, Entries
      <3> QED BY <2>6, <3>1, <3>2
    <2>9. CASE kind = "InnerClasses"
      <3>1. Reads(kind) = <<Table(2, "classes_t")>> /\ AttributeLength(kind) = 2
        BY <2>9, AttributeReads DEF AttributeLength
      <3>2. "classes_t" \in EntriesOf(stub)
        BY <1>2 DEF EntriesOf, Entries
      <3> QED BY <2>6, <3>1, <3>2
    <2>10. CASE kind = "LineNumberTable"
      <3>1. Reads(kind) = <<Table(2, "line_number_table_t")>> /\ AttributeLength(kind) = 2
        BY <2>10, AttributeReads DEF AttributeLength
      <3>2. "line_number_table_t" \in EntriesOf(stub)
        BY <1>2 DEF EntriesOf, Entries
      <3> QED BY <2>6, <3>1, <3>2
    <2>11. CASE kind = "LocalVariableTable"
      <3>1. Reads(kind) = <<Table(2, "local_variable_table_t")>> /\ AttributeLength(kind) = 2
        BY <2>11, AttributeReads DEF AttributeLength
      <3>2. "local_variable_table_t" \in EntriesOf(stub)
        BY <1>2 DEF EntriesOf, Entries
      <3> QED BY <2>6, <3>1, <3>2
    <2>12. CASE kind = "LocalVariableTypeTable"
      <3>1. Reads(kind) = <<Table(2, "local_variable_type_table_t")>> /\ AttributeLength(kind) = 2
        BY <2>12, AttributeReads DEF AttributeLength
      <3>2. "local_variable_type_table_t" \in EntriesOf(stub)
        BY <1>2 DEF EntriesOf, Entries
      <3> QED BY <2>6, <3>1, <3>2
    <2>13. CASE kind = "BootstrapMethods"
      <3>1. Reads(kind) = <<Table(2, "bootstrap_methods_t")>> /\ AttributeLength(kind) = 2
        BY <2>13, AttributeReads DEF AttributeLength
      <3>2. "bootstrap_methods_t" \in EntriesOf(stub)
        BY <1>2 DEF EntriesOf, Entries
      <3> QED BY <2>6, <3>1, <3>2
    <2>14. CASE kind = "MethodParameters"
      <3>1. Reads(kind) = <<Table(1, "parameters_t")>> /\ AttributeLength(kind) = 1
        BY <2>14, AttributeReads DEF AttributeLength
      <3>2. "parameters_t" \in EntriesOf(stub)
        BY <1>2 DEF EntriesOf, Entries
      <3> QED BY <2>6, <3>1, <3>2
    <2> QED BY <1>2, StubNames, <2>2, <2>3, <2>4, <2>5, <2>7, <2>8, <2>9, <2>10, <2>11, <2>12, <2>13, <2>14
           DEF Attributes, ClassHandles, FieldHandles, MethodHandles, CodeHandles
  <1>3. CASE stub
    <2>1. kind \in DOMAIN InjectedByAttributes
      BY <1>3
    <2>2. CASE kind \in {"RuntimeVisibleAnnotations", "RuntimeInvisibleAnnotations"}
      <3>1. /\ Reads(kind) = <<Part("parameter_annotations_t")>>
            /\ AttributeLength(kind) = 2 /\ InjectedByAttributes[kind] = 0
        BY <2>2, AttributeReads DEF AttributeLength, InjectedByAttributes
      <3>2. Costs(Part("parameter_annotations_t"), stub, 2, 2)
        <4>1. "parameter_annotations_t" \in EntriesOf(stub)
          BY <1>3 DEF EntriesOf, StubEntries
        <4>2. PartLength("parameter_annotations_t") = 2
          BY PartLengths
        <4> QED BY <1>1, <1>3, <4>1, <4>2
      <3>3. Weighs(<<Part("parameter_annotations_t")>>, stub, 2, 2)
        BY <3>2, Weighs1
      <3>4. 2 = IF stub THEN AttributeLength(kind) - InjectedByAttributes[kind] ELSE 0
        BY <1>3, <3>1
      <3> QED BY ONLY <3>1, <3>3, <3>4, Zenon DEF AttributeWeighs
    <2>3. CASE kind \in {"RuntimeVisibleParameterAnnotations",
                         "RuntimeInvisibleParameterAnnotations"}
      <3>1. /\ Reads(kind) = <<Table(1, "parameter_annotations_t")>>
            /\ AttributeLength(kind) = 1 /\ InjectedByAttributes[kind] = 1
        BY <2>3, AttributeReads DEF AttributeLength, InjectedByAttributes
      <3>2. Costs(Table(1, "parameter_annotations_t"), stub, 1, 0)
        BY <1>1, <1>3 DEF EntriesOf, StubEntries
      <3>3. Weighs(<<Table(1, "parameter_annotations_t")>>, stub, 1, 0)
        BY <3>2, Weighs1
      <3>4. 0 = IF stub THEN AttributeLength(kind) - InjectedByAttributes[kind] ELSE 0
        BY <1>3, <3>1
      <3> QED BY ONLY <3>1, <3>3, <3>4, Zenon DEF AttributeWeighs
    <2>4. CASE kind \in {"RuntimeVisibleTypeAnnotations", "RuntimeInvisibleTypeAnnotations"}
      <3>1. /\ Reads(kind) = <<Table(2, "type_annotation")>>
            /\ AttributeLength(kind) = 2 /\ InjectedByAttributes[kind] = 2
        BY <2>4, AttributeReads DEF AttributeLength, InjectedByAttributes
      <3>2. Costs(Table(2, "type_annotation"), stub, 2, 0)
        BY <1>1, <1>3 DEF EntriesOf, StubEntries
      <3>3. Weighs(<<Table(2, "type_annotation")>>, stub, 2, 0)
        BY <3>2, Weighs1
      <3>4. 0 = IF stub THEN AttributeLength(kind) - InjectedByAttributes[kind] ELSE 0
        BY <1>3, <3>1
      <3> QED BY ONLY <3>1, <3>3, <3>4, Zenon DEF AttributeWeighs
    <2>5. CASE kind = "AnnotationDefault"
      <3>1. /\ Reads(kind) = <<Part("element_value")>>
            /\ AttributeLength(kind) = 1 /\ InjectedByAttributes[kind] = 0
        BY <2>5, AttributeReads DEF AttributeLength, InjectedByAttributes
      <3>2. Costs(Part("element_value"), stub, 1, 1)
        BY <1>1, <1>3, PartLengths DEF EntriesOf, StubEntries
      <3>3. Weighs(<<Part("element_value")>>, stub, 1, 1)
        BY <3>2, Weighs1
      <3>4. 1 = IF stub THEN AttributeLength(kind) - InjectedByAttributes[kind] ELSE 0
        BY <1>3, <3>1
      <3> QED BY ONLY <3>1, <3>3, <3>4, Zenon DEF AttributeWeighs
    <2> QED BY <2>1, <2>2, <2>3, <2>4, <2>5, StubNames
  <1> QED BY <1>2, <1>3

(* The constants, and the members of the class.                            *)
LEMMA ConstantsWeigh ==
  ASSUME NEW stub \in BOOLEAN, NEW tag \in ConstantTags, ~stub
  PROVE  /\ Weighs(ConstantReads(tag), stub, ConstantLength(tag), 0)
         /\ ConstantLength(tag) \in Nat
  <1>1. CASE tag = 1
    <2>1. ConstantReads(tag) = <<Field(1), Table(2, "byte")>> /\ ConstantLength(tag) = 3
      BY <1>1 DEF ConstantReads, ConstantLength
    <2>2. Costs(Field(1), stub, 1, 0) /\ Costs(Table(2, "byte"), stub, 2, 0)
      BY SymbolCosts DEF EntriesOf, Entries, Widths
    <2>3. Weighs(<<Field(1), Table(2, "byte")>>, stub, 1 + 2, 0 + 0)
      BY <2>2, Weighs2
    <2>4. 1 + 2 = 3 /\ 0 + 0 = 0 /\ 3 \in Nat
      OBVIOUS
    <2> QED BY ONLY <2>1, <2>3, <2>4, Zenon
  <1>2. CASE tag \in {3, 4}
    <2>1. ConstantReads(tag) = <<Field(1), Field(4)>> /\ ConstantLength(tag) = 5
      BY <1>2 DEF ConstantReads, ConstantLength
    <2>2. Weighs(<<Field(1), Field(4)>>, stub, 5, 0) /\ 5 \in Nat
      BY WeighsFields
    <2> QED BY ONLY <2>1, <2>2, Zenon
  <1>3. CASE tag \in {5, 6}
    <2>1. ConstantReads(tag) = <<Field(1), Field(4), Field(4)>> /\ ConstantLength(tag) = 9
      BY <1>3 DEF ConstantReads, ConstantLength
    <2>2. Weighs(<<Field(1), Field(4), Field(4)>>, stub, 9, 0) /\ 9 \in Nat
      BY WeighsFields
    <2> QED BY ONLY <2>1, <2>2, Zenon
  <1>4. CASE tag \in {7, 8, 16}
    <2>1. ConstantReads(tag) = <<Field(1), Field(2)>> /\ ConstantLength(tag) = 3
      BY <1>4 DEF ConstantReads, ConstantLength
    <2>2. Weighs(<<Field(1), Field(2)>>, stub, 3, 0) /\ 3 \in Nat
      BY WeighsFields
    <2> QED BY ONLY <2>1, <2>2, Zenon
  <1>5. CASE tag \in {9, 10, 11, 12, 18}
    <2>1. ConstantReads(tag) = <<Field(1), Field(2), Field(2)>> /\ ConstantLength(tag) = 5
      BY <1>5 DEF ConstantReads, ConstantLength
    <2>2. Weighs(<<Field(1), Field(2), Field(2)>>, stub, 5, 0) /\ 5 \in Nat
      BY WeighsFields
    <2> QED BY ONLY <2>1, <2>2, Zenon
  <1>6. CASE tag = 15
    <2>1. ConstantReads(tag) = <<Field(1), Field(1), Field(2)>> /\ ConstantLength(tag) = 4
      BY <1>6 DEF ConstantReads, ConstantLength
    <2>2. Weighs(<<Field(1), Field(1), Field(2)>>, stub, 4, 0) /\ 4 \in Nat
      BY WeighsFields
    <2> QED BY ONLY <2>1, <2>2, Zenon
  <1> QED BY <1>1, <1>2, <1>3, <1>4, <1>5, <1>6 DEF ConstantTags

(* The header, and what follows the constant pool.                         *)
LEMMA FileWeighs ==
  ASSUME NEW stub \in BOOLEAN, ~stub
  PROVE  Weighs(HeaderReads, stub, 24, 0) /\ Weighs(ClassReads, stub, 14, 0)
  <1>1. 2 \in Widths /\ 4 \in Widths
    BY DEF Widths
  <1>2. Weighs(HeaderReads, stub, 24, 0)
    <2>1. Costs(Pool, stub, 14, 0) /\ Costs(Field(2), stub, 2, 0)
      <3>1. Pool \in Allowed(stub)
        BY DEF Allowed
      <3>2. Need(Pool) = 14 /\ Misses(stub, Pool) = 0
        BY DEF Need, Misses, Pool
      <3>3. Costs(Field(2), stub, 2, 0)
        BY <1>1, SymbolCosts
      <3> QED BY <3>1, <3>2, <3>3 DEF Costs
    <2>2. Weighs(<<Field(2), Field(2), Pool>>, stub, 2 + (2 + 14), 0 + (0 + 0))
      BY <2>1, Weighs3
    <2>3. Weighs(<<Field(2)>> \o <<Field(2), Field(2), Pool>>, stub,
                 2 + (2 + (2 + 14)), 0 + (0 + 0))
      BY <1>1, <2>2, WeighsField
    <2>4. <<Field(2)>> \o <<Field(2), Field(2), Pool>>
            = <<Field(2), Field(2), Field(2), Pool>>
      BY Quadruple
    <2>5. Weighs(<<Field(2), Field(2), Field(2), Pool>>, stub,
                 2 + (2 + (2 + 14)), 0 + (0 + 0))
      BY ONLY <2>3, <2>4, Zenon
    <2>6. Weighs(<<Field(4)>> \o <<Field(2), Field(2), Field(2), Pool>>, stub,
                 4 + (2 + (2 + (2 + 14))), 0 + (0 + 0))
      BY <1>1, <2>5, WeighsField
    <2>7. <<Field(4)>> \o <<Field(2), Field(2), Field(2), Pool>> = HeaderReads
      BY Quintuple DEF HeaderReads, Pool
    <2>8. 4 + (2 + (2 + (2 + 14))) = 24 /\ 0 + (0 + 0) = 0
      OBVIOUS
    <2> QED BY ONLY <2>6, <2>7, <2>8, Zenon
  <1>3. Weighs(ClassReads, stub, 14, 0)
    <2> DEFINE a == Table(2, "interface")
               b == Table(2, "field_info")
               c == Table(2, "method_info")
               d == Table(2, "class_attribute")
               f == Field(2)
    <2>1. /\ Costs(a, stub, 2, 0) /\ Costs(b, stub, 2, 0)
          /\ Costs(c, stub, 2, 0) /\ Costs(d, stub, 2, 0)
      BY <1>1, SymbolCosts DEF EntriesOf, Entries
    <2>2. ClassReads = <<f, f, f, a, b, c, d>>
      BY DEF ClassReads
    <2> HIDE DEF a, b, c, d
    <2>3. Weighs(<<b, c, d>>, stub, 2 + (2 + 2), 0 + (0 + 0))
      BY <2>1, Weighs3
    <2>4. Weighs(<<a>> \o <<b, c, d>>, stub, 2 + (2 + (2 + 2)), 0 + (0 + (0 + 0)))
      BY <2>1, <2>3, WeighsFirst
    <2>5. Weighs(<<a, b, c, d>>, stub, 2 + (2 + (2 + 2)), 0 + (0 + (0 + 0)))
      BY ONLY <2>4, Quadruple, Zenon
    <2>6. Weighs(<<f>> \o <<a, b, c, d>>, stub,
                 2 + (2 + (2 + (2 + 2))), 0 + (0 + (0 + 0)))
      BY <1>1, <2>5, WeighsField
    <2>7. Weighs(<<f, a, b, c, d>>, stub,
                 2 + (2 + (2 + (2 + 2))), 0 + (0 + (0 + 0)))
      BY ONLY <2>6, Quintuple, Zenon
    <2>8. Weighs(<<f>> \o <<f, a, b, c, d>>, stub,
                 2 + (2 + (2 + (2 + (2 + 2)))), 0 + (0 + (0 + 0)))
      BY <1>1, <2>7, WeighsField
    <2>9. Weighs(<<f, f, a, b, c, d>>, stub,
                 2 + (2 + (2 + (2 + (2 + 2)))), 0 + (0 + (0 + 0)))
      BY ONLY <2>8, Sextuple, Zenon
    <2>10. Weighs(<<f>> \o <<f, f, a, b, c, d>>, stub,
                  2 + (2 + (2 + (2 + (2 + (2 + 2))))), 0 + (0 + (0 + 0)))
      BY <1>1, <2>9, WeighsField
    <2>11. 2 + (2 + (2 + (2 + (2 + (2 + 2))))) = 14 /\ 0 + (0 + (0 + 0)) = 0
      OBVIOUS
    <2>12. <<f>> \o <<f, f, a, b, c, d>> = <<f, f, f, a, b, c, d>>
      BY Septuple
    <2> QED BY ONLY <2>2, <2>10, <2>11, <2>12, Zenon
  <1> QED BY <1>2, <1>3

(* What a tag decides.                                                     *)
TagWeighs(x, tag, stub) ==
  /\ Weighs(TagReads(x, tag), stub, TagLength(x, tag),
            IF stub THEN TagLength(x, tag) ELSE 0)
  /\ TagLength(x, tag) \in Nat

LEMMA OnePartWeighs ==
  ASSUME NEW stub \in BOOLEAN, NEW x, NEW tag,
         NEW y \in StubEntries \union StubSingles,
         TagReads(x, tag) = <<Part(y)>>, TagLength(x, tag) = PartLength(y)
  PROVE  TagWeighs(x, tag, stub)
  <1>1. y \in EntriesOf(stub) \union StubSingles
    BY DEF EntriesOf, Entries
  <1>2. Costs(Part(y), stub, PartLength(y), IF stub THEN PartLength(y) ELSE 0)
    BY <1>1, SymbolCosts
  <1>3. Weighs(<<Part(y)>>, stub, PartLength(y), IF stub THEN PartLength(y) ELSE 0)
    BY <1>2, Weighs1
  <1>4. PartLength(y) \in Nat
    BY PartLengthNat DEF Entries
  <1> QED BY ONLY <1>3, <1>4, TagReads(x, tag) = <<Part(y)>>,
                  TagLength(x, tag) = PartLength(y), Zenon DEF TagWeighs

LEMMA LocalsWeigh ==
  ASSUME NEW stub \in BOOLEAN, ~stub, NEW n \in Nat
  PROVE  Weighs(Locals(n), stub, n, 0)
  <1> DEFINE y == Part("verification_type_info")
  <1>1. Costs(y, stub, 1, 0)
    BY SymbolCosts, PartLengths DEF EntriesOf, Entries
  <1> HIDE DEF y
  <1>2. Weighs([i \in 1 .. n |-> y], stub, n * Need(y), n * Misses(stub, y))
    BY <1>1, WeighsCopies DEF Costs
  <1>3. n * Need(y) = n /\ n * Misses(stub, y) = 0
    BY <1>1 DEF Costs
  <1>4. Weighs([i \in 1 .. n |-> y], stub, n, 0)
    BY ONLY <1>2, <1>3, Zenon
  <1> QED BY <1>4 DEF y, Locals

LEMMA ElementsWeigh ==
  ASSUME NEW stub \in BOOLEAN, NEW tag \in Tags("element")
  PROVE  TagWeighs("element", tag, stub)
  <1>1. /\ TagReads("element", tag) = ElementValueReads(tag)
        /\ TagLength("element", tag) = IF tag \in {"e", "@"} THEN 4 ELSE 2
        /\ tag \in ConstTags \union {"e", "c", "@", "["}
    BY DEF TagReads, TagLength, Tags
  <1>2. \E y \in {"const_value_t", "enum_const_value_t", "class_info_t",
                  "annotation", "array_value_t"} :
          /\ ElementValueReads(tag) = <<Part(y)>>
          /\ PartLength(y) = IF tag \in {"e", "@"} THEN 4 ELSE 2
    <2>1. CASE tag \in ConstTags
      BY <2>1, PartLengths DEF ElementValueReads, ConstTags
    <2>2. CASE tag = "e"
      BY <2>2, PartLengths DEF ElementValueReads, ConstTags
    <2>3. CASE tag = "c"
      BY <2>3, PartLengths DEF ElementValueReads, ConstTags
    <2>4. CASE tag = "@"
      BY <2>4, PartLengths DEF ElementValueReads, ConstTags
    <2>5. CASE tag = "["
      BY <2>5, PartLengths DEF ElementValueReads, ConstTags
    <2> QED BY <1>1, <2>1, <2>2, <2>3, <2>4, <2>5
  <1>3. PICK y \in StubEntries \union StubSingles :
          /\ ElementValueReads(tag) = <<Part(y)>>
          /\ PartLength(y) = IF tag \in {"e", "@"} THEN 4 ELSE 2
    BY <1>2 DEF StubEntries, StubSingles
  <1> QED BY <1>1, <1>3, OnePartWeighs

LEMMA TargetsWeigh ==
  ASSUME NEW stub \in BOOLEAN, NEW tag \in Tags("target")
  PROVE  TagWeighs("target", tag, stub)
  <1>1. /\ TagReads("target", tag) = TargetReads(tag)
        /\ TagLength("target", tag) = TargetLength(tag)
        /\ tag \in 0 .. 1 \union 16 .. 23 \union 64 .. 75
    BY DEF TagReads, TagLength, Tags
  <1>2. \E y \in {"type_parameter_target", "supertype_target",
                  "type_parameter_bound_target", "empty_target",
                  "formal_parameter_target", "throws_target", "localvar_target",
                  "catch_target", "offset_target", "type_argument_target"} :
          TargetReads(tag) = <<Part(y)>> /\ PartLength(y) = TargetLength(tag)
    <2>1. CASE tag \in {0, 1}
      BY <2>1, PartLengths DEF TargetReads, TargetLength
    <2>2. CASE tag = 16
      BY <2>2, PartLengths DEF TargetReads, TargetLength
    <2>3. CASE tag \in {17, 18}
      BY <2>3, PartLengths DEF TargetReads, TargetLength
    <2>4. CASE tag \in 19 .. 21
      BY <2>4, PartLengths DEF TargetReads, TargetLength
    <2>5. CASE tag = 22
      BY <2>5, PartLengths DEF TargetReads, TargetLength
    <2>6. CASE tag = 23
      BY <2>6, PartLengths DEF TargetReads, TargetLength
    <2>7. CASE tag \in {64, 65}
      BY <2>7, PartLengths DEF TargetReads, TargetLength
    <2>8. CASE tag = 66
      BY <2>8, PartLengths DEF TargetReads, TargetLength
    <2>9. CASE tag \in 67 .. 70
      BY <2>9, PartLengths DEF TargetReads, TargetLength
    <2>10. CASE tag \in 71 .. 75
      BY <2>10, PartLengths DEF TargetReads, TargetLength
    <2> QED BY <1>1, <2>1, <2>2, <2>3, <2>4, <2>5, <2>6, <2>7, <2>8, <2>9, <2>10
  <1>3. PICK y \in StubEntries \union StubSingles :
          TargetReads(tag) = <<Part(y)>> /\ PartLength(y) = TargetLength(tag)
    BY <1>2 DEF StubEntries, StubSingles
  <1> QED BY <1>1, <1>3, OnePartWeighs

LEMMA VerificationTypesWeigh ==
  ASSUME NEW stub \in BOOLEAN, ~stub, NEW tag \in Tags("verification_type")
  PROVE  TagWeighs("verification_type", tag, stub)
  <1>1. /\ TagReads("verification_type", tag) = VerificationTypeReads(tag)
        /\ TagLength("verification_type", tag) = IF tag \in {7, 8} THEN 2 ELSE 0
    BY DEF TagReads, TagLength
  <1>2. CASE tag \in {7, 8}
    <2>1. /\ TagReads("verification_type", tag) = <<Field(2)>>
          /\ TagLength("verification_type", tag) = 2
          /\ Weighs(<<Field(2)>>, stub, 2, 0) /\ 2 \in Nat
      BY <1>1, <1>2, WeighsFields DEF VerificationTypeReads
    <2>2. (IF stub THEN TagLength("verification_type", tag) ELSE 0) = 0
      OBVIOUS
    <2> QED BY ONLY <2>1, <2>2, Zenon DEF TagWeighs
  <1>3. CASE tag \notin {7, 8}
    <2>1. /\ TagReads("verification_type", tag) = <<>>
          /\ TagLength("verification_type", tag) = 0
          /\ Weighs(<<>>, stub, 0, 0) /\ 0 \in Nat
      BY <1>1, <1>3, WeighsNothing DEF VerificationTypeReads
    <2>2. (IF stub THEN TagLength("verification_type", tag) ELSE 0) = 0
      OBVIOUS
    <2> QED BY ONLY <2>1, <2>2, Zenon DEF TagWeighs
  <1> QED BY <1>2, <1>3

LEMMA FramesWeigh ==
  ASSUME NEW stub \in BOOLEAN, ~stub, NEW tag \in Tags("frame")
  PROVE  TagWeighs("frame", tag, stub)
  <1>1. /\ TagReads("frame", tag) = FrameReads(tag)
        /\ TagLength("frame", tag) = FrameLength(tag)
        /\ tag \in 0 .. 127 \union 247 .. 255
    BY DEF TagReads, TagLength, Tags
  <1>2. SUFFICES Weighs(FrameReads(tag), stub, FrameLength(tag), 0) /\ FrameLength(tag) \in Nat
    <2>1. (IF stub THEN FrameLength(tag) ELSE 0) = 0
      OBVIOUS
    <2> QED BY ONLY <1>1, <1>2, <2>1, Zenon DEF TagWeighs
  <1>3. 2 \in Widths
    BY DEF Widths
  <1>4. CASE tag \in 0 .. 63
    <2>1. FrameReads(tag) = <<>> /\ FrameLength(tag) = 0 /\ 0 \in Nat
      <3>1. FrameReads(tag) = <<>>
        <4>1. /\ tag \notin 64 .. 127 /\ tag # 247 /\ tag \notin 248 .. 251
              /\ tag \notin 252 .. 254 /\ tag # 255
          BY <1>4
        <4> QED BY <1>4, <4>1, SMT DEF FrameReads
      <3>2. FrameLength(tag) = 0 /\ 0 \in Nat
        BY <1>4 DEF FrameLength
      <3> QED BY ONLY <3>1, <3>2, Zenon
    <2> QED BY ONLY <2>1, WeighsNothing, stub \in BOOLEAN, Zenon
  <1>5. CASE tag \in 64 .. 127
    <2>1. FrameReads(tag) = Locals(1) /\ FrameLength(tag) = 1 /\ 1 \in Nat
      <3>1. FrameReads(tag) = Locals(1)
        <4>1. /\ tag \notin 0 .. 63 /\ tag # 247 /\ tag \notin 248 .. 251
              /\ tag \notin 252 .. 254 /\ tag # 255
          BY <1>5
        <4> QED BY <1>5, <4>1, SMTT(30) DEF FrameReads
      <3>2. FrameLength(tag) = 1 /\ 1 \in Nat
        BY <1>5 DEF FrameLength
      <3> QED BY ONLY <3>1, <3>2, Zenon
    <2>2. Weighs(Locals(1), stub, 1, 0)
      BY LocalsWeigh
    <2> QED BY ONLY <2>1, <2>2, Zenon
  <1>6. CASE tag = 247 \/ tag \in 252 .. 254
    <2> DEFINE n == IF tag = 247 THEN 1 ELSE tag - 251
    <2>1. /\ FrameReads(tag) = <<Field(2)>> \o Locals(n) /\ FrameLength(tag) = 2 + n
          /\ n \in Nat
      BY <1>6 DEF FrameReads, FrameLength
    <2> HIDE DEF n
    <2>2. Weighs(Locals(n), stub, n, 0)
      BY <2>1, LocalsWeigh
    <2>3. Weighs(<<Field(2)>> \o Locals(n), stub, 2 + n, 0)
      BY <1>3, <2>2, WeighsField
    <2>4. 2 + n \in Nat
      BY <2>1
    <2> QED BY ONLY <2>1, <2>3, <2>4, Zenon
  <1>7. CASE tag \in 248 .. 251
    <2>1. FrameReads(tag) = <<Field(2)>> /\ FrameLength(tag) = 2 /\ 2 \in Nat
      BY <1>7 DEF FrameReads, FrameLength
    <2>2. Weighs(<<Field(2)>>, stub, 2, 0)
      BY WeighsFields
    <2> QED BY ONLY <2>1, <2>2, Zenon
  <1>8. CASE tag = 255
    <2>1. /\ FrameReads(tag) = <<Field(2), Table(2, "verification_type_info"),
                                 Table(2, "verification_type_info")>>
          /\ FrameLength(tag) = 6
      BY <1>8 DEF FrameReads, FrameLength
    <2>2. Costs(Field(2), stub, 2, 0) /\ Costs(Table(2, "verification_type_info"), stub, 2, 0)
      BY <1>3, SymbolCosts DEF EntriesOf, Entries
    <2>3. Weighs(<<Field(2), Table(2, "verification_type_info"),
                   Table(2, "verification_type_info")>>, stub, 2 + (2 + 2), 0 + (0 + 0))
      BY <2>2, Weighs3
    <2>4. 2 + (2 + 2) = 6 /\ 0 + (0 + 0) = 0 /\ 6 \in Nat
      OBVIOUS
    <2> QED BY ONLY <2>1, <2>3, <2>4, Zenon
  <1> QED BY <1>1, <1>4, <1>5, <1>6, <1>7, <1>8

LEMMA TagsWeigh ==
  ASSUME NEW stub \in BOOLEAN, NEW x \in TagsOf(stub), NEW tag \in Tags(x)
  PROVE  TagWeighs(x, tag, stub)
  <1>1. x \in {"element", "target"} \/ (~stub /\ x \in {"verification_type", "frame"})
    BY DEF TagsOf
  <1> QED BY <1>1, ElementsWeigh, TargetsWeigh, VerificationTypesWeigh, FramesWeigh

-----------------------------------------------------------------------------
(* The invariant: what is still to be read fits what is open.              *)
CInv ==
  /\ open \in Seq(Structures)
  /\ IF open = <<>> THEN todo = <<>> ELSE Fits(todo, open)

(* Announcing bytes does not change what a structure is.                   *)
LEMMA OwingStub ==
  ASSUME NEW u \in Stacks, NEW n \in Nat, NEW m \in Nat
  PROVE  Stub(Owing(u, n, m)) = Stub(u)
  <1> DEFINE h == Head(u)
             s == [h EXCEPT !.left = @ + n, !.missing = @ + m]
  <1>1. h \in [kind : Kinds, left : Nat, missing : Nat]
    BY StackParts DEF Structures
  <1> HIDE DEF h
  <1>2. s.kind = h.kind
    BY <1>1
  <1> HIDE DEF s
  <1>3. Head(<<s>> \o Tail(u)) = s
    BY StackParts
  <1>4. Head(Owing(u, n, m)) = s
    BY <1>3 DEF Owing, s, h
  <1>5. Head(Owing(u, n, m)).kind = Head(u).kind
    BY <1>2, <1>4 DEF h
  <1> QED BY <1>5 DEF Stub, KeepsStub

LEMMA NextSymbol ==
  ASSUME CInv, NEW k \in {"field", "table", "tag", "part", "pool"}, Is(k)
  PROVE  /\ open \in Stacks /\ Fits(todo, open)
         /\ Head(todo) \in Allowed(Stub(open)) /\ Head(todo)[1] = k
         /\ \E u \in Stacks :
              /\ Fits(Tail(todo), u)
              /\ open = Owing(u, Need(Head(todo)), Misses(Stub(u), Head(todo)))
              /\ Stub(u) = Stub(open)
  <1> DEFINE y == Head(todo)
  <1>1. todo # <<>> /\ y[1] = k
    BY DEF Is
  <1>2. open \in Stacks /\ Fits(todo, open)
    BY <1>1 DEF CInv, Stacks
  <1>3. Close[1] = "close"
    BY DEF Close
  <1>4. y # Close
    BY <1>1, <1>3
  <1>5. Stub(open) \in BOOLEAN
    BY StubBoolean
  <1>6. y \in Allowed(Stub(open))
    BY <1>2, <1>4, FitsSymbol
  <1>7. PICK u \in Stacks :
          Fits(Tail(todo), u) /\ open = Owing(u, Need(y), Misses(Stub(open), y))
    BY <1>2, <1>4, FitsSymbol
  <1>8. Need(y) \in Nat /\ Misses(Stub(open), y) \in Nat
    BY <1>5, <1>6, NeedNat
  <1>9. Stub(u) = Stub(open)
    BY <1>7, <1>8, OwingStub
  <1> QED BY <1>1, <1>2, <1>6, <1>7, <1>9

(* At the end of a structure there is nothing of it left.                  *)
LEMMA CInvHolds == CInv => FitsItsLength /\ StubsComplete
  <1> SUFFICES ASSUME CInv PROVE FitsItsLength /\ StubsComplete
    OBVIOUS
  <1>1. \A i \in 1 .. Len(open) : open[i].left >= 0
    <2> SUFFICES ASSUME NEW i \in 1 .. Len(open) PROVE open[i].left >= 0
      OBVIOUS
    <2>1. open[i] \in Structures
      BY DEF CInv
    <2>2. open[i].left \in Nat
      BY <2>1 DEF Structures
    <2> QED BY <2>2
  <1>2. ASSUME Is("close") PROVE Head(open).left = 0 /\ Head(open).missing = 0
    <2>1. todo # <<>> /\ Head(todo)[1] = "close"
      BY <1>2 DEF Is
    <2>2. Fits(todo, open)
      BY <2>1 DEF CInv
    <2>3. Stub(open) \in BOOLEAN
      BY StubBoolean
    <2>4. Head(todo) = Close
      <3>1. ASSUME Head(todo) # Close PROVE FALSE
        <4>1. Head(todo) \in Allowed(Stub(open))
          BY <2>2, <3>1, FitsSymbol
        <4> QED BY <2>1, <2>3, <4>1, AllowedForms
      <3> QED BY <3>1
    <2> QED BY <2>2, <2>4, FitsClose
  <1> QED BY <1>1, <1>2 DEF FitsItsLength, StubsComplete

(* Reading w bytes of the innermost structure.                             *)
LEMMA ReadingOwes ==
  ASSUME NEW u \in Stacks, NEW w \in Nat, open = Owing(u, w, 0), NEW more \in Nat
  PROVE  Reading(w, more) = Owing(u, more, IF Stub(u) THEN more ELSE 0)
  <1> DEFINE s == Head(open)
             m == IF Stub(u) THEN more ELSE 0
             r == [s EXCEPT !.left = @ - w + more,
                            !.missing = IF KeepsStub(s) THEN @ + more ELSE 0]
             v == Owing(u, more, m)
             z == <<r>> \o Tail(open)
  <1>1. /\ open \in Stacks /\ s.kind = Head(u).kind
        /\ s.left = Head(u).left + w /\ s.missing = Head(u).missing + 0
        /\ Tail(open) = Tail(u) /\ Stub(open) = Stub(u)
    BY OwingParts
  <1>2. /\ Head(u).left \in Nat /\ Head(u).missing \in Nat
        /\ (~Stub(u) => Head(u).missing = 0) /\ Tail(u) \in Seq(Structures)
    BY StackParts
  <1>3. m \in Nat /\ (~Stub(u) => m = 0)
    OBVIOUS
  <1>4. /\ v \in Stacks /\ Head(v).kind = Head(u).kind
        /\ Head(v).left = Head(u).left + more
        /\ Head(v).missing = Head(u).missing + m
        /\ Tail(v) = Tail(u)
    <2> HIDE DEF m
    <2> QED BY <1>3, OwingParts
  <1>5. s \in [kind : Kinds, left : Nat, missing : Nat]
    BY <1>1, StackParts DEF Structures
  <1>6. KeepsStub(s) <=> Stub(u)
    BY <1>1 DEF Stub
  <1>7. /\ r.kind = s.kind /\ r.left = s.left - w + more
        /\ r.missing = IF KeepsStub(s) THEN s.missing + more ELSE 0
        /\ r \in [kind : Kinds, left : Int, missing : Nat]
    <2> HIDE DEF s
    <2>1. s.left \in Nat /\ s.missing \in Nat
      BY <1>5
    <2>2. (IF KeepsStub(s) THEN s.missing + more ELSE 0) \in Nat /\ s.left - w + more \in Int
      BY <2>1
    <2> QED BY <1>5, <2>2
  <1> HIDE DEF r, s, v
  <1>8. r.left = Head(u).left + more /\ r.missing = Head(u).missing + m
    BY <1>1, <1>2, <1>6, <1>7
  <1>9. r \in Structures
    <2>1. r.left \in Nat /\ r.missing \in Nat
      BY <1>2, <1>3, <1>8
    <2>2. r \in [kind : Kinds, left : Nat, missing : Nat]
      BY <1>7, <2>1
    <2>3. ~KeepsStub(r) => r.missing = 0
      BY <1>6, <1>7 DEF KeepsStub
    <2> QED BY <2>2, <2>3 DEF Structures
  <1>10. z \in Stacks /\ Head(z) = r /\ Tail(z) = Tail(u)
    BY <1>1, <1>2, <1>9, OnTop
  <1> HIDE DEF z, m
  <1>11. z = v
    BY <1>1, <1>4, <1>7, <1>8, <1>10, SameStack
  <1>12. Reading(w, more) = z
    BY DEF Reading, z, r, s
  <1> QED BY <1>11, <1>12 DEF v, m

-----------------------------------------------------------------------------
(* Every action keeps it.                                                  *)
LEMMA CInvNext == Fits(todo', open') => CInv'
  BY FitsType DEF CInv, Stacks

LEMMA CInvReadField == CInv /\ ReadField => CInv'
  <1> SUFFICES ASSUME CInv, ReadField PROVE CInv'
    OBVIOUS
  <1> DEFINE y == Head(todo)
  <1>1. Is("field") /\ open' = Reading(y[2], 0) /\ todo' = Tail(todo)
    BY DEF ReadField
  <1>2. y \in Allowed(Stub(open)) /\ y[1] = "field"
    BY <1>1, NextSymbol
  <1>3. PICK u \in Stacks : /\ Fits(Tail(todo), u)
                            /\ open = Owing(u, Need(y), Misses(Stub(u), y))
                            /\ Stub(u) = Stub(open)
    BY <1>1, NextSymbol
  <1>4. Stub(open) \in BOOLEAN
    BY StubBoolean
  <1>5. Need(y) = y[2] /\ Misses(Stub(u), y) = 0 /\ Need(y) \in Nat
    BY <1>2, <1>4, NeedNat DEF Need, Misses
  <1> HIDE DEF y
  <1>6. Reading(y[2], 0) = Owing(u, 0, IF Stub(u) THEN 0 ELSE 0)
    BY <1>3, <1>5, ReadingOwes
  <1>7. open' = u
    BY <1>1, <1>6, OwingNothing
  <1> QED BY <1>1, <1>3, <1>7, CInvNext

LEMMA CInvReadTable == CInv /\ ReadTable => CInv'
  <1> SUFFICES ASSUME CInv, ReadTable PROVE CInv'
    OBVIOUS
  <1> DEFINE y == Head(todo)
             x == y[3]
  <1>1. PICK n \in 0 .. MaxCount :
          /\ open' = Reading(y[2], n * EntryLength(x))
          /\ todo' = [i \in 1 .. n |-> Part(x)] \o Tail(todo)
    BY DEF ReadTable
  <1>2. Is("table") /\ n \in Nat
    BY DEF ReadTable
  <1>3. y \in Allowed(Stub(open)) /\ y[1] = "table"
    BY <1>2, NextSymbol
  <1>4. PICK u \in Stacks : /\ Fits(Tail(todo), u)
                            /\ open = Owing(u, Need(y), Misses(Stub(u), y))
                            /\ Stub(u) = Stub(open)
    BY <1>2, NextSymbol
  <1> DEFINE stub == Stub(u)
  <1>5. stub \in BOOLEAN
    BY StubBoolean
  <1>6. Need(y) = y[2] /\ Misses(Stub(u), y) = 0 /\ Need(y) \in Nat /\ x \in EntriesOf(stub)
    <2>1. y \in Allowed(stub)
      BY <1>3, <1>4
    <2> HIDE DEF stub
    <2>2. Need(y) \in Nat
      BY <1>5, <2>1, NeedNat
    <2>3. x \in EntriesOf(stub)
      BY <1>3, <1>5, <2>1, AllowedForms
    <2>4. Need(y) = y[2] /\ Misses(Stub(u), y) = 0
      BY <1>3 DEF Need, Misses
    <2> QED BY <2>2, <2>3, <2>4
  <1> HIDE DEF y, x, stub
  <1>7. EntryLength(x) = PartLength(x) /\ PartLength(x) \in Nat
    <2>1. x \in Entries
      BY <1>6 DEF EntriesOf, Entries
    <2> QED BY <2>1, PartLengthNat DEF PartLength
  <1>8. n * PartLength(x) \in Nat
    BY <1>2, <1>7
  <1>9. Reading(y[2], n * PartLength(x))
          = Owing(u, n * PartLength(x), IF stub THEN n * PartLength(x) ELSE 0)
    BY <1>4, <1>6, <1>8, ReadingOwes DEF stub
  <1>10. /\ Part(x) \in Allowed(stub) /\ Need(Part(x)) = PartLength(x)
         /\ Misses(stub, Part(x)) = IF stub THEN PartLength(x) ELSE 0
    BY <1>5, <1>6, PartSymbol
  <1>11. Weighs([i \in 1 .. n |-> Part(x)], stub, n * Need(Part(x)), n * Misses(stub, Part(x)))
    BY <1>2, <1>5, <1>10, WeighsCopies
  <1>12. /\ n * Need(Part(x)) = n * PartLength(x)
         /\ n * Misses(stub, Part(x)) = IF stub THEN n * PartLength(x) ELSE 0
    BY <1>2, <1>10
  <1>13. Fits([i \in 1 .. n |-> Part(x)] \o Tail(todo),
              Owing(u, n * Need(Part(x)), n * Misses(stub, Part(x))))
    BY <1>4, <1>11, FitsPrepend DEF stub
  <1>14. open' = Owing(u, n * Need(Part(x)), n * Misses(stub, Part(x)))
    <2>1. open' = Reading(y[2], n * PartLength(x))
      BY <1>1, <1>7 DEF x, y
    <2> QED BY ONLY <2>1, <1>9, <1>12, Zenon
  <1>15. todo' = [i \in 1 .. n |-> Part(x)] \o Tail(todo)
    BY <1>1 DEF x, y
  <1>16. Fits(todo', open')
    BY ONLY <1>13, <1>14, <1>15, Zenon
  <1> QED BY <1>16, CInvNext

LEMMA CInvReadTag == CInv /\ ReadTag => CInv'
  <1> SUFFICES ASSUME CInv, ReadTag PROVE CInv'
    OBVIOUS
  <1> DEFINE y == Head(todo)
             x == y[2]
  <1>1. PICK tag \in Tags(x) :
          /\ open' = Reading(1, TagLength(x, tag))
          /\ todo' = TagReads(x, tag) \o Tail(todo)
    BY DEF ReadTag
  <1>2. Is("tag")
    BY DEF ReadTag
  <1>3. y \in Allowed(Stub(open)) /\ y[1] = "tag"
    BY <1>2, NextSymbol
  <1>4. PICK u \in Stacks : /\ Fits(Tail(todo), u)
                            /\ open = Owing(u, Need(y), Misses(Stub(u), y))
                            /\ Stub(u) = Stub(open)
    BY <1>2, NextSymbol
  <1> DEFINE stub == Stub(u)
  <1>5. stub \in BOOLEAN
    BY StubBoolean
  <1>6. Need(y) = 1 /\ Misses(Stub(u), y) = 0 /\ x \in TagsOf(stub)
    <2>1. y \in Allowed(stub)
      BY <1>3, <1>4
    <2> HIDE DEF stub
    <2>2. x \in TagsOf(stub)
      BY <1>3, <1>5, <2>1, AllowedForms
    <2> QED BY <1>3, <2>2 DEF Need, Misses
  <1> HIDE DEF y, x, stub
  <1> DEFINE length == TagLength(x, tag)
             reads == TagReads(x, tag)
  <1>7. Weighs(reads, stub, length, IF stub THEN length ELSE 0) /\ length \in Nat
    BY <1>1, <1>5, <1>6, TagsWeigh DEF TagWeighs
  <1> HIDE DEF length, reads
  <1>8. Reading(1, length) = Owing(u, length, IF stub THEN length ELSE 0)
    BY <1>4, <1>6, <1>7, ReadingOwes DEF stub
  <1>9. Fits(reads \o Tail(todo), Owing(u, length, IF stub THEN length ELSE 0))
    BY <1>4, <1>7, FitsPrepend DEF stub
  <1>10. open' = Reading(1, length) /\ todo' = reads \o Tail(todo)
    BY <1>1 DEF length, reads
  <1>11. Fits(todo', open')
    BY ONLY <1>8, <1>9, <1>10, Zenon
  <1> QED BY <1>11, CInvNext

LEMMA CInvReadPart == CInv /\ ReadPart => CInv'
  <1> SUFFICES ASSUME CInv, ReadPart PROVE CInv'
    OBVIOUS
  <1> DEFINE y == Head(todo)
             x == y[2]
             s == Head(open)
  <1>1. /\ Is("part") /\ x \notin Places
        /\ open' = <<[s EXCEPT !.missing =
                        IF KeepsStub(s) THEN @ - StubOf(x) ELSE 0]>> \o Tail(open)
        /\ todo' = Reads(x) \o Tail(todo)
    BY DEF ReadPart
  <1>2. y \in Allowed(Stub(open)) /\ y[1] = "part"
    BY <1>1, NextSymbol
  <1>3. PICK u \in Stacks : /\ Fits(Tail(todo), u)
                            /\ open = Owing(u, Need(y), Misses(Stub(u), y))
                            /\ Stub(u) = Stub(open)
    BY <1>1, NextSymbol
  <1> DEFINE stub == Stub(u)
             length == PartLength(x)
             m == IF stub THEN length - StubOf(x) ELSE 0
  <1>4. stub \in BOOLEAN
    BY StubBoolean
  <1>5. /\ Need(y) = length /\ Misses(stub, y) = IF stub THEN length ELSE 0
        /\ x \in EntriesOf(stub) \union StubSingles
    <2>1. y \in Allowed(stub)
      BY <1>2, <1>3
    <2> HIDE DEF stub
    <2>2. x \in EntriesOf(stub) \union StubSingles
      BY <1>2, <1>4, <2>1, AllowedForms
    <2> QED BY <1>2, <2>2 DEF Need, Misses
  <1>6. /\ Weighs(Reads(x), stub, length, m)
        /\ (stub => StubOf(x) \in Nat)
    <2> HIDE DEF y, x, stub
    <2>1. x \notin Places
      BY <1>1 DEF x, y
    <2>2. PartWeighs(x, stub)
      BY <1>4, <1>5, <2>1, PartsWeigh
    <2> QED BY <2>2 DEF PartWeighs
  <1>7. length \in Nat /\ m \in Nat
    <2> HIDE DEF x, stub, m, length
    <2>1. length \in Nat
      BY <1>5, PartLengthNat DEF EntriesOf, Entries, length
    <2>2. m \in Nat
      <3>1. Len(Reads(x)) \in Nat
        BY <1>6 DEF Weighs
      <3>2. 1 \in 1 .. Len(Reads(x)) + 1
        BY <3>1
      <3> QED BY <1>6, <3>2 DEF Weighs
    <2> QED BY <2>1, <2>2
  <1> DEFINE v == Owing(u, length, m)
             r == [s EXCEPT !.missing = IF KeepsStub(s) THEN @ - StubOf(x) ELSE 0]
             z == <<r>> \o Tail(open)
  <1>8. Fits(Reads(x) \o Tail(todo), v)
    <2> HIDE DEF x, m, length
    <2> QED BY <1>3, <1>6, FitsPrepend
  <1>9. ~stub => m = 0
    OBVIOUS
  <1> HIDE DEF x, y, length
  <1>10. /\ v \in Stacks /\ Head(v).kind = Head(u).kind
         /\ Head(v).left = Head(u).left + length
         /\ Head(v).missing = Head(u).missing + m
         /\ Tail(v) = Tail(u)
    <2> HIDE DEF m
    <2> QED BY <1>7, <1>9, OwingParts
  <1>11. /\ s.kind = Head(u).kind /\ s.left = Head(u).left + length
         /\ s.missing = Head(u).missing + (IF stub THEN length ELSE 0)
         /\ Tail(open) = Tail(u) /\ open \in Stacks
    <2> DEFINE k == IF stub THEN length ELSE 0
    <2>1. k \in Nat /\ (~stub => k = 0) /\ open = Owing(u, length, k)
      BY <1>3, <1>5, <1>7
    <2> HIDE DEF k
    <2> QED BY <1>7, <2>1, OwingParts DEF k
  <1>12. /\ Head(u).left \in Nat /\ Head(u).missing \in Nat
         /\ (~stub => Head(u).missing = 0) /\ Tail(u) \in Seq(Structures)
    BY StackParts
  <1>13. s \in [kind : Kinds, left : Nat, missing : Nat]
    BY <1>11, StackParts DEF Structures
  <1>14. KeepsStub(s) <=> stub
    BY <1>3 DEF Stub
  <1>15. /\ r.kind = s.kind /\ r.left = s.left
         /\ r.missing = IF KeepsStub(s) THEN s.missing - StubOf(x) ELSE 0
    <2> HIDE DEF s
    <2> QED BY <1>13
  <1>16. r.missing = Head(u).missing + m
    <2> HIDE DEF r, s, stub
    <2> QED BY <1>6, <1>7, <1>11, <1>12, <1>14, <1>15
  <1>17. r \in Structures
    <2>1. r.missing \in Nat
      <3> HIDE DEF r, m
      <3> QED BY <1>7, <1>12, <1>16
    <2>2. r \in [kind : Kinds, left : Nat, missing : Nat]
      <3>1. (IF KeepsStub(s) THEN s.missing - StubOf(x) ELSE 0) \in Nat
        <4> HIDE DEF r
        <4> QED BY <1>15, <2>1
      <3> HIDE DEF s
      <3> QED BY <1>13, <3>1
    <2>3. ~KeepsStub(r) => r.missing = 0
      <3> HIDE DEF r
      <3> QED BY <1>15 DEF KeepsStub
    <2> HIDE DEF r
    <2> QED BY <2>2, <2>3 DEF Structures
  <1> HIDE DEF r, s, m, v
  <1>18. z \in Stacks /\ Head(z) = r /\ Tail(z) = Tail(u)
    BY <1>11, <1>12, <1>17, OnTop
  <1>19. open' = z /\ todo' = Reads(x) \o Tail(todo)
    BY <1>1 DEF r, s, x, y
  <1> HIDE DEF z
  <1>20. z = v
    BY <1>10, <1>11, <1>15, <1>16, <1>18, SameStack
  <1>21. Fits(todo', open')
    BY ONLY <1>8, <1>19, <1>20, Zenon
  <1> QED BY <1>21, CInvNext

(* A structure opens, and what is read of it goes on the stack before its  *)
(* end.                                                                    *)
LEMMA OpensStructure ==
  ASSUME NEW kind \in Kinds, NEW length, NEW t, NEW rest \in Seq(Structures),
         IF t = <<>> THEN rest = <<>> ELSE Fits(t, rest),
         NEW stub \in BOOLEAN, stub <=> kind \in DOMAIN InjectedByAttributes,
         NEW reads, Weighs(reads, stub, length, Opened(kind, length).missing)
  PROVE  Fits((reads \o <<Close>>) \o t, <<Opened(kind, length)>> \o rest)
  <1> DEFINE s == [kind |-> kind, left |-> 0, missing |-> 0]
             u == <<s>> \o rest
             m == Opened(kind, length).missing
  <1>1. s \in Structures /\ s.left = 0 /\ s.missing = 0 /\ s.kind = kind
    BY DEF Structures
  <1>2. Fits(<<Close>> \o t, u)
    <2> HIDE DEF s
    <2> QED BY <1>1, FitsOpen
  <1>3. u \in Stacks /\ Head(u) = s /\ Tail(u) = rest
    <2> HIDE DEF s
    <2> QED BY <1>1, OnTop
  <1>4. Stub(u) <=> stub
    <2> HIDE DEF s, u
    <2> QED BY <1>1, <1>3 DEF Stub, KeepsStub
  <1>5. length \in Nat /\ m \in Nat /\ reads \in Seq(Symbols)
    <2> HIDE DEF m
    <2>1. reads \in Seq(Allowed(stub)) /\ Len(reads) \in Nat
      BY DEF Weighs
    <2>2. 1 \in 1 .. Len(reads) + 1
      BY <2>1
    <2>3. length \in Nat /\ m \in Nat
      BY <2>2 DEF Weighs, m
    <2>4. \A i \in 1 .. Len(reads) : reads[i] \in Symbols
      BY <2>1, AllowedSymbols
    <2> QED BY <2>1, <2>3, <2>4
  <1>6. Fits(reads \o (<<Close>> \o t), Owing(u, length, m))
    <2> HIDE DEF u, m
    <2>1. Stub(u) = stub
      BY <1>4, StubBoolean
    <2>2. Weighs(reads, Stub(u), length, m)
      BY <2>1 DEF m
    <2> QED BY <1>2, <1>3, <2>2, FitsPrepend
  <1>7. Owing(u, length, m) = <<Opened(kind, length)>> \o rest
    <2>1. Owing(u, length, m) = <<[s EXCEPT !.left = @ + length, !.missing = @ + m]>> \o rest
      <3> HIDE DEF s, u, m
      <3> QED BY <1>3 DEF Owing
    <2>2. [s EXCEPT !.left = @ + length, !.missing = @ + m]
            = [kind |-> kind, left |-> 0 + length, missing |-> 0 + m]
      <3> DEFINE e == [s EXCEPT !.left = @ + length, !.missing = @ + m]
                 o == [kind |-> kind, left |-> 0 + length, missing |-> 0 + m]
      <3>1. s \in [kind : Kinds, left : Nat, missing : Nat] /\ s.left = 0 /\ s.missing = 0
        OBVIOUS
      <3>2. 0 + length \in Nat /\ 0 + m \in Nat
        <4> HIDE DEF m
        <4> QED BY <1>5
      <3>3. o.kind = kind /\ o.left = 0 + length /\ o.missing = 0 + m
        OBVIOUS
      <3>4. o \in [kind : Kinds, left : Nat, missing : Nat]
        <4> HIDE DEF m
        <4> QED BY <3>2
      <3> HIDE DEF s, m, o
      <3>5. e.kind = s.kind /\ e.left = 0 + length /\ e.missing = 0 + m
        BY <3>1
      <3>6. e \in [kind : Kinds, left : Nat, missing : Nat]
        BY <3>1, <3>2
      <3> HIDE DEF e
      <3>7. e = o
        BY <1>1, <3>3, <3>4, <3>5, <3>6
      <3> QED BY <3>7 DEF e, o
    <2>3. Opened(kind, length) = [kind |-> kind, left |-> length, missing |-> m]
      BY DEF Opened
    <2>4. 0 + length = length /\ 0 + m = m
      BY <1>5
    <2> HIDE DEF s, u, m
    <2> QED BY ONLY <2>1, <2>2, <2>3, <2>4, Zenon
  <1>8. (reads \o <<Close>>) \o t = reads \o (<<Close>> \o t)
    <2>1. <<Close>> \in Seq(Symbols)
      <3>1. Close \in Symbols
        BY DEF Symbols
      <3> QED BY <3>1
    <2>2. t \in Seq(Symbols)
      BY FitsType
    <2> QED BY <1>5, <2>1, <2>2, ConcatAssociative
  <1> QED BY ONLY <1>6, <1>7, <1>8, Zenon

LEMMA CInvInit == Init => CInv
  <1> SUFFICES ASSUME Init PROVE CInv
    OBVIOUS
  <1> DEFINE kind == "ClassFile"
             stub == FALSE
  <1>1. todo = HeaderReads \o <<Close>> /\ open = <<Opened(kind, 24)>>
    BY DEF Init
  <1>2. kind \in Kinds /\ kind \notin DOMAIN InjectedByAttributes
    <2>1. kind \in Kinds
      BY DEF Kinds
    <2>2. kind \notin DOMAIN InjectedByAttributes
      BY StubNames
    <2> QED BY <2>1, <2>2
  <1>3. Opened(kind, 24).missing = 0
    BY <1>2 DEF Opened
  <1>4. Weighs(HeaderReads, stub, 24, 0)
    BY FileWeighs
  <1> HIDE DEF kind
  <1>5. Fits((HeaderReads \o <<Close>>) \o <<>>, <<Opened(kind, 24)>> \o <<>>)
    <2>1. <<>> \in Seq(Structures) /\ stub \in BOOLEAN
      OBVIOUS
    <2> QED BY <1>2, <1>3, <1>4, <2>1, OpensStructure
  <1>6. (HeaderReads \o <<Close>>) \o <<>> = todo /\ <<Opened(kind, 24)>> \o <<>> = open
    <2>1. HeaderReads \o <<Close>> \in Seq({Field(4), Field(2), <<"pool">>, Close})
      BY DEF HeaderReads
    <2>2. (HeaderReads \o <<Close>>) \o <<>> = HeaderReads \o <<Close>>
      BY <2>1, ConcatEmptySeq
    <2>3. <<Opened(kind, 24)>> \o <<>> = <<Opened(kind, 24)>>
      <3>1. <<Opened(kind, 24)>> \in Seq({Opened(kind, 24)})
        OBVIOUS
      <3> QED BY <3>1, ConcatEmptySeq
    <2> QED BY <1>1, <2>2, <2>3
  <1>7. Fits(todo, open)
    BY ONLY <1>5, <1>6, Zenon
  <1> QED BY <1>7, FitsType DEF CInv, Stacks

LEMMA CInvNewAttribute == CInv /\ new_attribute => CInv'
  <1> SUFFICES ASSUME CInv, new_attribute PROVE CInv'
    OBVIOUS
  <1> DEFINE y == Head(todo)
  <1>1. PICK kind \in Handles(y[2]), n \in 0 .. MaxCount :
          LET debug == kind = "SourceDebugExtension"
              reads == IF debug THEN [i \in 1 .. n |-> Field(1)] ELSE Reads(kind)
          IN  /\ n = 0 \/ debug
              /\ open' = <<Opened(kind, AttributeLength(kind) + n)>> \o Reading(6, 0)
              /\ todo' = (reads \o <<Close>>) \o Tail(todo)
    BY DEF new_attribute
  <1> DEFINE debug == kind = "SourceDebugExtension"
             reads == IF debug THEN [i \in 1 .. n |-> Field(1)] ELSE Reads(kind)
             length == AttributeLength(kind) + n
             stub == kind \in DOMAIN InjectedByAttributes
             m == Opened(kind, length).missing
  <1>2. Is("part") /\ y[2] \in Places /\ n \in Nat
    BY DEF new_attribute
  <1>3. y \in Allowed(Stub(open)) /\ y[1] = "part"
    BY <1>2, NextSymbol
  <1>4. PICK u \in Stacks : /\ Fits(Tail(todo), u)
                            /\ open = Owing(u, Need(y), Misses(Stub(u), y))
                            /\ Stub(u) = Stub(open)
    BY <1>2, NextSymbol
  <1>5. ~Stub(u)
    <2>1. Stub(u) \in BOOLEAN /\ y \in Allowed(Stub(u))
      BY <1>3, <1>4, StubBoolean
    <2>2. y[2] \in EntriesOf(Stub(u)) \union StubSingles
      BY <1>3, <2>1, AllowedForms
    <2> QED BY <1>2, <2>2 DEF EntriesOf, StubEntries, StubSingles, Places
  <1>6. Need(y) = 6 /\ Misses(Stub(u), y) = 0
    BY <1>2, <1>3, <1>5, PartLengths DEF Need, Misses
  <1>7. Reading(6, 0) = u
    <2>1. open = Owing(u, 6, 0)
      BY <1>4, <1>6
    <2>2. Reading(6, 0) = Owing(u, 0, IF Stub(u) THEN 0 ELSE 0)
      BY <2>1, ReadingOwes
    <2> QED BY <2>2, OwingNothing
  <1>8. kind \in Attributes /\ kind \in Kinds
    <2>1. kind \in Attributes
      BY <1>2 DEF Handles, Places, Attributes
    <2> QED BY <2>1 DEF Kinds
  <1> HIDE DEF y
  <1>9. Weighs(reads, stub, length, m)
    <2>1. CASE debug
      <3>1. reads = [i \in 1 .. n |-> Field(1)]
        BY <2>1
      <3>2. AttributeLength(kind) = 0 /\ ~stub
        BY <2>1, StubNames DEF AttributeLength
      <3>3. length = n /\ m = 0
        BY <1>2, <3>2 DEF Opened
      <3> HIDE DEF stub
      <3>4. stub \in BOOLEAN
        BY DEF stub
      <3>5. Costs(Field(1), stub, 1, 0)
        BY <3>4, SymbolCosts DEF Widths
      <3>6. Weighs([i \in 1 .. n |-> Field(1)], stub, n * Need(Field(1)),
                   n * Misses(stub, Field(1)))
        BY <1>2, <3>4, <3>5, WeighsCopies DEF Costs
      <3>7. n * Need(Field(1)) = n /\ n * Misses(stub, Field(1)) = 0
        BY <1>2, <3>5 DEF Costs
      <3> QED BY ONLY <3>1, <3>3, <3>6, <3>7, Zenon
    <2>2. CASE ~debug
      <3>1. reads = Reads(kind) /\ n = 0
        BY <1>1, <2>2
      <3>2. AttributeWeighs(kind, stub)
        <4>1. kind \in Attributes \ {"SourceDebugExtension"}
          BY <1>8, <2>2
        <4>2. stub \in BOOLEAN /\ (stub <=> kind \in DOMAIN InjectedByAttributes)
          OBVIOUS
        <4> HIDE DEF stub
        <4> QED BY <4>1, <4>2, AttributesWeigh
      <3>3. length = AttributeLength(kind)
        <4>1. AttributeLength(kind) \in Nat
          BY DEF AttributeLength
        <4> QED BY <3>1, <4>1
      <3>4. m = IF stub THEN AttributeLength(kind) - InjectedByAttributes[kind] ELSE 0
        <4> HIDE DEF length
        <4> QED BY <3>3 DEF Opened
      <3> HIDE DEF m, length, stub, reads
      <3> QED BY ONLY <3>1, <3>2, <3>3, <3>4, Zenon DEF AttributeWeighs
    <2> QED BY <2>1, <2>2
  <1>10. /\ open' = <<Opened(kind, length)>> \o u
         /\ todo' = (reads \o <<Close>>) \o Tail(todo)
    BY <1>1, <1>7
  <1> HIDE DEF reads, length
  <1>11. Fits((reads \o <<Close>>) \o Tail(todo), <<Opened(kind, length)>> \o u)
    <2>1. /\ u \in Seq(Structures)
          /\ IF Tail(todo) = <<>> THEN u = <<>> ELSE Fits(Tail(todo), u)
      BY <1>4, FitsType DEF Stacks
    <2>2. stub \in BOOLEAN /\ (stub <=> kind \in DOMAIN InjectedByAttributes)
      OBVIOUS
    <2>3. Weighs(reads, stub, length, Opened(kind, length).missing)
      BY <1>9
    <2> HIDE DEF stub
    <2> QED BY <1>8, <2>1, <2>2, <2>3, OpensStructure
  <1>12. Fits(todo', open')
    BY ONLY <1>10, <1>11, Zenon
  <1> QED BY <1>12, CInvNext

LEMMA CInvReadConstant == CInv /\ ReadConstant => CInv'
  <1> SUFFICES ASSUME CInv, ReadConstant PROVE CInv'
    OBVIOUS
  <1>1. PICK tag \in ConstantTags :
          /\ open' = <<Opened("constant", ConstantLength(tag))>> \o open
          /\ todo' = (ConstantReads(tag) \o <<Close>>) \o todo
    BY DEF ReadConstant
  <1> DEFINE kind == "constant"
             stub == kind \in DOMAIN InjectedByAttributes
             length == ConstantLength(tag)
  <1>2. Is("pool")
    BY DEF ReadConstant
  <1>3. Fits(todo, open) /\ todo # <<>> /\ open \in Seq(Structures)
    BY <1>2, NextSymbol DEF Is, CInv
  <1>4. ~stub /\ kind \in Kinds
    <2>1. kind \in Kinds
      BY DEF Kinds
    <2>2. ~stub
      BY StubNames
    <2> QED BY <2>1, <2>2
  <1>5. Opened(kind, length).missing = 0
    BY <1>4 DEF Opened
  <1>6. stub \in BOOLEAN /\ (stub <=> kind \in DOMAIN InjectedByAttributes)
    OBVIOUS
  <1> HIDE DEF stub, kind
  <1>7. Weighs(ConstantReads(tag), stub, length, Opened(kind, length).missing)
    <2>1. Weighs(ConstantReads(tag), stub, ConstantLength(tag), 0)
      BY <1>4, <1>6, ConstantsWeigh
    <2> QED BY ONLY <1>5, <2>1, Zenon
  <1> HIDE DEF length
  <1>8. Fits((ConstantReads(tag) \o <<Close>>) \o todo, <<Opened(kind, length)>> \o open)
    BY <1>3, <1>4, <1>6, <1>7, OpensStructure
  <1>9. Fits(todo', open')
    BY ONLY <1>1, <1>8, Zenon DEF kind, length
  <1> QED BY <1>9, CInvNext

LEMMA CInvEndPool == CInv /\ EndPool => CInv'
  <1> SUFFICES ASSUME CInv, EndPool PROVE CInv'
    OBVIOUS
  <1> DEFINE y == Head(todo)
  <1>1. Is("pool") /\ todo' = ClassReads \o Tail(todo) /\ open' = open
    BY DEF EndPool
  <1>2. y \in Allowed(Stub(open)) /\ y[1] = "pool"
    BY <1>1, NextSymbol
  <1>3. PICK u \in Stacks : /\ Fits(Tail(todo), u)
                            /\ open = Owing(u, Need(y), Misses(Stub(u), y))
                            /\ Stub(u) = Stub(open)
    BY <1>1, NextSymbol
  <1>4. ~Stub(u) /\ Stub(u) \in BOOLEAN
    BY <1>2, <1>3, StubBoolean, AllowedForms
  <1>5. Need(y) = 14 /\ Misses(Stub(u), y) = 0
    BY <1>2 DEF Need, Misses
  <1>6. Weighs(ClassReads, Stub(u), 14, 0)
    BY <1>4, FileWeighs
  <1>7. Fits(ClassReads \o Tail(todo), Owing(u, 14, 0))
    BY <1>3, <1>6, FitsPrepend
  <1>8. Fits(todo', open')
    BY ONLY <1>1, <1>3, <1>5, <1>7, Zenon
  <1> QED BY <1>8, CInvNext

LEMMA CInvClose == CInv /\ CloseStructure => CInv'
  <1> SUFFICES ASSUME CInv, CloseStructure PROVE CInv'
    OBVIOUS
  <1>1. Is("close") /\ open' = Tail(open) /\ todo' = Tail(todo)
    BY DEF CloseStructure
  <1>2. todo # <<>> /\ Head(todo)[1] = "close"
    BY <1>1 DEF Is
  <1>3. Fits(todo, open) /\ open \in Stacks
    BY <1>2, FitsType DEF CInv
  <1>4. Stub(open) \in BOOLEAN
    BY StubBoolean
  <1>5. Head(todo) = Close
    <2>1. ASSUME Head(todo) # Close PROVE FALSE
      <3>1. Head(todo) \in Allowed(Stub(open))
        BY <1>3, <2>1, FitsSymbol
      <3> QED BY <1>2, <1>4, <3>1, AllowedForms
    <2> QED BY <2>1
  <1>6. IF todo' = <<>> THEN open' = <<>> ELSE Fits(todo', open')
    BY <1>1, <1>3, <1>5, FitsClose
  <1>7. CASE todo' = <<>>
    BY <1>6, <1>7 DEF CInv
  <1>8. CASE todo' # <<>>
    BY <1>6, <1>8, CInvNext
  <1> QED BY <1>7, <1>8

LEMMA CInvStep == CInv /\ [Next]_vars => CInv'
  <1> SUFFICES ASSUME CInv, [Next]_vars PROVE CInv'
    OBVIOUS
  <1>1. ASSUME todo' = todo, open' = open PROVE CInv'
    BY <1>1 DEF CInv
  <1>2. CASE Release
    BY <1>1, <1>2 DEF Release
  <1>3. CASE UNCHANGED vars
    BY <1>1, <1>3 DEF vars
  <1> QED BY <1>2, <1>3, CInvReadField, CInvReadTable, CInvReadTag, CInvReadPart,
             CInvNewAttribute, CInvReadConstant, CInvEndPool, CInvClose DEF Next

LEMMA CInvInvariant == Spec => []CInv
  BY CInvInit, CInvStep, PTL DEF Spec

(* FitsItsLength: whatever tables, tags and annotations a class file has,  *)
(* every structure is read to the last byte that the format gives it       *)
(* (ClassFile, new_attribute and the operators >> of class_parser.cpp).    *)
THEOREM EveryStructureFits == Spec => []FitsItsLength
  BY CInvInvariant, CInvHolds, PTL

(* StubsComplete: the stub of every attribute of annotations, whatever it  *)
(* holds, is complete when the attribute has been read (the inject calls). *)
THEOREM EveryStubIsComplete == Spec => []StubsComplete
  BY CInvInvariant, CInvHolds, PTL
=============================================================================
