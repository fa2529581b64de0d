---------------------------- MODULE LinkingProofs ----------------------------
(* What linking makes of any hierarchy of classes and interfaces, with any *)
(* members: LInv of Linking is inductive, and the four properties of the   *)
(* layouts and the lookups follow from it by induction over the hierarchy. *)
(*                                                                         *)
(* The lookups of Linking are recursive functions.  That such a function   *)
(* exists is an invariant of its own, Recursive, kept by every step; that  *)
(* there is one only, and every induction, comes from Grounded.            *)
EXTENDS Linking, TLAPS

(* A recursion over the hierarchy in which a class takes its value from    *)
(* those of the classes directly above it ...                              *)
Local(V, F) ==
  \A d \in Linked : \A g, h \in [Linked -> V] :
    (\A e \in Direct(d) : g[e] = h[e]) => F[<<d, g>>] = F[<<d, h>>]

(* ... has a solution.                                                     *)
Recursive ==
  \A V : \A v \in V : \A F \in [Linked \X [Linked -> V] -> V] :
    Local(V, F) => \E g \in [Linked -> V] : \A d \in Linked : g[d] = F[<<d, g>>]

(* What an induction over the hierarchy takes; and the whole invariant.    *)
HInv == Hierarchy /\ Grounded /\ Recursive

RInv == LInv /\ Recursive

-----------------------------------------------------------------------------
(* What a step does to the table of classes.                               *)
Adds(c, p, is, b) ==
  /\ c \in Names \ Linked
  /\ p \in Linked \union {NoKlass}
  /\ is \in SUBSET (Linked \intersect InterfaceNames)
  /\ b \in Bodies
  /\ p = NoKlass <=> c = Object
  /\ c = Object => is = {}
  /\ IF IsInterface(c) THEN p = Object ELSE p \notin InterfaceNames
  /\ Members(c, b) /\ Legal(p, is, b)
  /\ Linked' = Linked \union {c}
  /\ klass'[c] = InstanceKlass(c, p, is, b)
  /\ \A d \in Linked : klass'[d] = klass[d]
  /\ klass' = [d \in Linked' |-> klass'[d]]
  /\ stale' = stale

LEMMA LinkAdds ==
  ASSUME NEW c \in Names, Link(c)
  PROVE  \E p, is, b : Adds(c, p, is, b)
  <1>1. PICK p \in Linked \union {NoKlass},
             is \in SUBSET (Linked \intersect InterfaceNames), b \in Bodies :
          /\ c \notin Linked
          /\ p = NoKlass <=> c = Object
          /\ c = Object => is = {}
          /\ IsInterface(c) => p = Object
          /\ ~IsInterface(c) => p \notin InterfaceNames
          /\ Members(c, b) /\ Legal(p, is, b)
          /\ klass' = [d \in Linked \union {c} |->
                         IF d = c THEN InstanceKlass(c, p, is, b) ELSE klass[d]]
          /\ UNCHANGED stale
    BY DEF Link
  <1>2. Linked' = Linked \union {c}
    BY <1>1 DEF Linked
  <1>3. /\ klass'[c] = InstanceKlass(c, p, is, b)
        /\ \A d \in Linked : klass'[d] = klass[d]
        /\ klass' = [d \in Linked' |-> klass'[d]]
    BY <1>1, <1>2
  <1>4. Adds(c, p, is, b)
    BY <1>1, <1>2, <1>3 DEF Adds
  <1> QED BY <1>4

(* What the constructor leaves of the arguments in the class.              *)
LEMMA InstanceKlassFields ==
  ASSUME NEW c, NEW p, NEW is, NEW b
  PROVE  LET k == InstanceKlass(c, p, is, b)
         IN  /\ k.parent = p
             /\ k.interfaces = is
             /\ k.fields_layout = fields_layout(c, p, b)
             /\ k.static_fields_layout = static_fields_layout(b)
             /\ k.total_non_static_fields_num = Total(p) + Len(b.fields)
             /\ k.methods = b.methods
             /\ k.vtable = vtable(c, p, b)
  BY DEF InstanceKlass

(* The classes directly above those that were linked before are the same,  *)
(* and those above the new one were linked before.                         *)
LEMMA DirectKept ==
  ASSUME Hierarchy, NEW c, NEW p, NEW is, NEW b, Adds(c, p, is, b)
  PROVE  /\ \A d \in Linked : Direct(d)' = Direct(d) /\ Direct(d) \subseteq Linked
         /\ Direct(c)' = (is \union {p}) \ {NoKlass}
         /\ Direct(c)' \subseteq Linked
  <1>1. \A d \in Linked : Direct(d)' = Direct(d) /\ Direct(d) \subseteq Linked
    BY DEF Adds, Direct, Hierarchy
  <1>2. klass'[c].parent = p /\ klass'[c].interfaces = is
    BY InstanceKlassFields DEF Adds
  <1>3. Direct(c)' = (is \union {p}) \ {NoKlass}
    BY <1>2 DEF Direct
  <1> QED BY <1>1, <1>3 DEF Adds

(* Every recursion still has a solution: that over the classes linked      *)
(* before, extended by the value of the new class.                         *)
LEMMA RecursiveStep ==
  ASSUME HInv, NEW c, NEW p, NEW is, NEW b, Adds(c, p, is, b)
  PROVE  Recursive'
  <1>0. Hierarchy /\ Recursive
    BY DEF HInv
  <1>1. Linked' = Linked \union {c} /\ c \notin Linked
    BY DEF Adds
  <1>2. \A d \in Linked : Direct(d)' = Direct(d) /\ Direct(d) \subseteq Linked
    BY <1>0, DirectKept
  <1>3. Direct(c)' \subseteq Linked
    BY <1>0, DirectKept
  <1> SUFFICES ASSUME NEW V, NEW v \in V,
                      NEW F \in [Linked' \X [Linked' -> V] -> V], Local(V, F)'
               PROVE  \E g \in [Linked' -> V] : \A d \in Linked' : g[d] = F[<<d, g>>]
    BY DEF Recursive
  <1> DEFINE Ext(g, x) == [d \in Linked' |-> IF d = c THEN x ELSE g[d]]
             F0 == [k \in Linked \X [Linked -> V] |-> F[<<k[1], Ext(k[2], v)>>]]
  <1>4. \A g \in [Linked -> V], x \in V :
          /\ Ext(g, x) \in [Linked' -> V]
          /\ Ext(g, x)[c] = x
          /\ \A d \in Linked : Ext(g, x)[d] = g[d]
    BY <1>1
  <1>5. \A d \in Linked, g \in [Linked -> V] : F0[<<d, g>>] = F[<<d, Ext(g, v)>>]
    OBVIOUS
  <1> HIDE DEF Ext
  <1>6. F0 \in [Linked \X [Linked -> V] -> V]
    BY <1>1, <1>4
  <1> HIDE DEF F0
  <1>7. \A d \in Linked' : \A g, h \in [Linked' -> V] :
          (\A e \in Direct(d)' : g[e] = h[e]) => F[<<d, g>>] = F[<<d, h>>]
    BY DEF Local
  <1>8. Local(V, F0)
    <2> SUFFICES ASSUME NEW d \in Linked, NEW g \in [Linked -> V],
                        NEW h \in [Linked -> V], \A e \in Direct(d) : g[e] = h[e]
                 PROVE  F0[<<d, g>>] = F0[<<d, h>>]
      BY DEF Local
    <2>1. Direct(d)' = Direct(d) /\ Direct(d) \subseteq Linked
      BY <1>2
    <2>2. \A e \in Linked : Ext(g, v)[e] = g[e] /\ Ext(h, v)[e] = h[e]
      BY <1>4
    <2>3. \A e \in Direct(d)' : Ext(g, v)[e] = Ext(h, v)[e]
      BY <2>1, <2>2
    <2>4. Ext(g, v) \in [Linked' -> V] /\ Ext(h, v) \in [Linked' -> V]
      BY <1>4
    <2>5. F[<<d, Ext(g, v)>>] = F[<<d, Ext(h, v)>>]
      BY <1>1, <1>7, <2>3, <2>4
    <2> QED BY <1>5, <2>5
  <1>9. PICK g \in [Linked -> V] : \A d \in Linked : g[d] = F0[<<d, g>>]
    BY <1>0, <1>6, <1>8 DEF Recursive
  <1> DEFINE x == F[<<c, Ext(g, v)>>]
             h == Ext(g, x)
  <1>10. x \in V
    BY <1>1, <1>4
  <1>11. h \in [Linked' -> V] /\ h[c] = x /\ \A d \in Linked : h[d] = g[d]
    BY <1>4, <1>10
  <1> HIDE DEF h
  <1>12. \A d \in Linked' : F[<<d, Ext(g, v)>>] = F[<<d, h>>]
    <2> SUFFICES ASSUME NEW d \in Linked' PROVE F[<<d, Ext(g, v)>>] = F[<<d, h>>]
      OBVIOUS
    <2>1. Direct(d)' \subseteq Linked
      BY <1>1, <1>2, <1>3
    <2>2. \A e \in Direct(d)' : Ext(g, v)[e] = h[e]
      BY <1>4, <1>11, <2>1
    <2>3. Ext(g, v) \in [Linked' -> V]
      BY <1>4
    <2> QED BY <1>7, <1>11, <2>2, <2>3
  <1>13. \A d \in Linked : h[d] = F[<<d, h>>]
    BY <1>1, <1>5, <1>9, <1>11, <1>12
  <1>14. h[c] = F[<<c, h>>]
    BY <1>1, <1>11, <1>12
  <1> QED BY <1>1, <1>11, <1>13, <1>14

-----------------------------------------------------------------------------
(* Induction over the hierarchy: what holds of a class when it holds of    *)
(* those directly above it holds of all.                                   *)
LEMMA Induction ==
  ASSUME HInv, NEW D \in SUBSET Linked,
         \A d \in Linked : Direct(d) \subseteq D => d \in D
  PROVE  D = Linked
  <1>1. SUFFICES ASSUME Linked \ D # {} PROVE FALSE
    OBVIOUS
  <1>2. PICK d \in Linked \ D : Direct(d) \intersect (Linked \ D) = {}
    BY <1>1 DEF HInv, Grounded
  <1>3. Direct(d) \subseteq Linked
    BY DEF HInv, Hierarchy, Direct
  <1> QED BY <1>2, <1>3

(* The function S of Supers exists.                                        *)
LEMMA SupersFunction ==
  ASSUME HInv
  PROVE  \E S : S = [d \in Linked |-> {d} \union UNION {S[e] : e \in Direct(d)}]
  <1> DEFINE V == SUBSET Linked
             F == [k \in Linked \X [Linked -> V] |->
                     {k[1]} \union UNION {k[2][e] : e \in Direct(k[1])}]
  <1>1. \A d \in Linked : Direct(d) \subseteq Linked
    BY DEF HInv, Hierarchy, Direct
  <1>2. \A d \in Linked, g \in [Linked -> V] :
          F[<<d, g>>] = {d} \union UNION {g[e] : e \in Direct(d)}
    OBVIOUS
  <1>3. F \in [Linked \X [Linked -> V] -> V]
    <2> SUFFICES ASSUME NEW d \in Linked, NEW g \in [Linked -> V]
                 PROVE  {d} \union UNION {g[e] : e \in Direct(d)} \in V
      OBVIOUS
    <2> QED BY <1>1
  <1> HIDE DEF F
  <1>4. Local(V, F)
    <2> SUFFICES ASSUME NEW d \in Linked, NEW g \in [Linked -> V],
                        NEW h \in [Linked -> V], \A e \in Direct(d) : g[e] = h[e]
                 PROVE  F[<<d, g>>] = F[<<d, h>>]
      BY DEF Local
    <2>1. {g[e] : e \in Direct(d)} = {h[e] : e \in Direct(d)}
      OBVIOUS
    <2>2. /\ F[<<d, g>>] = {d} \union UNION {g[e] : e \in Direct(d)}
          /\ F[<<d, h>>] = {d} \union UNION {h[e] : e \in Direct(d)}
      BY <1>2
    <2> QED BY <2>1, <2>2
  <1>5. {} \in V
    OBVIOUS
  <1> HIDE DEF V
  <1>6. PICK g \in [Linked -> V] : \A d \in Linked : g[d] = F[<<d, g>>]
    BY <1>3, <1>4, <1>5 DEF HInv, Recursive
  <1>7. g = [d \in Linked |-> {d} \union UNION {g[e] : e \in Direct(d)}]
    BY <1>2, <1>6
  <1> QED BY <1>7

(* Supers satisfies its recursion.                                         *)
LEMMA SupersUnfold ==
  ASSUME HInv, NEW c \in Linked
  PROVE  Supers(c) = {c} \union UNION {Supers(e) : e \in Direct(c)}
  <1> DEFINE Solves(S) == S = [d \in Linked |->
                                 {d} \union UNION {S[e] : e \in Direct(d)}]
             T == CHOOSE S : Solves(S)
  <1>1. Solves(T)
    <2>1. \E S : Solves(S)
      BY SupersFunction
    <2> HIDE DEF Solves
    <2> QED BY <2>1
  <1>2. \A d \in Linked : Supers(d) = T[d]
    BY DEF Supers
  <1>3. Direct(c) \subseteq Linked
    BY DEF HInv, Hierarchy, Direct
  <1> HIDE DEF T
  <1>4. T[c] = {c} \union UNION {T[e] : e \in Direct(c)}
    BY <1>1
  <1>5. {T[e] : e \in Direct(c)} = {Supers(e) : e \in Direct(c)}
    BY <1>2, <1>3
  <1> QED BY <1>2, <1>4, <1>5

(* As a membership, which the provers find easier.                         *)
LEMMA SupersMember ==
  ASSUME HInv, NEW c \in Linked
  PROVE  /\ \A x : x \in Supers(c) <=> x = c \/ \E e \in Direct(c) : x \in Supers(e)
         /\ Direct(c) \subseteq Linked
  <1>1. Direct(c) \subseteq Linked
    BY DEF HInv, Hierarchy, Direct
  <1> QED BY <1>1, SupersUnfold

(* Supertypes are linked.                                                  *)
LEMMA SupersLinked ==
  ASSUME HInv
  PROVE  \A c \in Linked : Supers(c) \subseteq Linked
  <1> DEFINE D == {c \in Linked : Supers(c) \subseteq Linked}
  <1>1. \A d \in Linked : Direct(d) \subseteq D => d \in D
    BY SupersMember
  <1>2. D = Linked
    <2> HIDE DEF D
    <2>1. D \in SUBSET Linked
      BY DEF D
    <2> QED BY <1>1, <2>1, Induction
  <1> QED BY <1>2

(* A supertype's supertypes are supertypes.                                *)
LEMMA SupersTransitive ==
  ASSUME HInv
  PROVE  \A c \in Linked : \A d \in Supers(c) : Supers(d) \subseteq Supers(c)
  <1> DEFINE D == {c \in Linked : \A d \in Supers(c) : Supers(d) \subseteq Supers(c)}
  <1>1. ASSUME NEW c \in Linked, Direct(c) \subseteq D PROVE c \in D
    <2> SUFFICES ASSUME NEW d \in Supers(c), d # c PROVE Supers(d) \subseteq Supers(c)
      OBVIOUS
    <2>1. PICK e \in Direct(c) : d \in Supers(e)
      BY SupersMember
    <2>2. Supers(d) \subseteq Supers(e)
      BY <1>1, <2>1
    <2> QED BY <2>1, <2>2, SupersMember
  <1>2. D = Linked
    <2> HIDE DEF D
    <2>1. D \in SUBSET Linked
      BY DEF D
    <2> QED BY <1>1, <2>1, Induction
  <1> QED BY <1>2

(* No two classes are supertypes of each other.                            *)
LEMMA SupersAntisymmetric ==
  ASSUME HInv, NEW c \in Linked, NEW d \in Supers(c), c \in Supers(d)
  PROVE  c = d
  <1> SUFFICES ASSUME c # d PROVE FALSE
    OBVIOUS
  <1> DEFINE D == {x \in Supers(c) : c \in Supers(x)}
  <1>1. D \subseteq Linked /\ c \in D
    BY SupersLinked, SupersMember
  <1>2. PICK x \in D : Direct(x) \intersect D = {}
    BY <1>1 DEF HInv, Grounded
  <1>3. \E y \in D : y # x /\ y \in Supers(x)
    BY <1>1 DEF D
  <1>4. PICK y \in D : y # x /\ y \in Supers(x)
    BY <1>3
  <1>5. x \in Linked /\ x \in Supers(c)
    BY <1>1
  <1>6. PICK e \in Direct(x) : y \in Supers(e)
    BY <1>4, <1>5, SupersMember
  <1>7. e \in Linked /\ e \in Supers(x) /\ e \in Supers(c)
    BY <1>5, <1>6, SupersMember, SupersTransitive
  <1>8. c \in Supers(e)
    BY <1>4, <1>6, <1>7, SupersTransitive
  <1> QED BY <1>2, <1>6, <1>7, <1>8

(* Nor a class above itself.                                               *)
LEMMA SupersProper ==
  ASSUME HInv, NEW c \in Linked, NEW e \in Direct(c)
  PROVE  c \notin Supers(e) /\ e \in Supers(c) /\ e # c
  <1>1. e \in Linked /\ e \in Supers(c)
    BY SupersMember
  <1>2. Direct(c) \intersect {c} = {}
    BY DEF HInv, Grounded
  <1> QED BY <1>1, <1>2, SupersAntisymmetric

-----------------------------------------------------------------------------
(* The invariant is inductive.                                             *)

LEMMA HierarchyStep ==
  ASSUME Hierarchy, NEW c, NEW p, NEW is, NEW b, Adds(c, p, is, b)
  PROVE  Hierarchy'
  <1>1. klass'[c].parent = p /\ klass'[c].interfaces = is
    BY InstanceKlassFields DEF Adds
  <1> SUFFICES ASSUME NEW d \in Linked'
               PROVE
                 /\ klass'[d].parent \in Linked' \union {NoKlass}
                 /\ klass'[d].interfaces \subseteq Linked' \intersect InterfaceNames
                 /\ klass'[d].parent = NoKlass <=> d = Object
                 /\ d = Object => klass'[d].interfaces = {}
                 /\ IF IsInterface(d) THEN klass'[d].parent = Object
                    ELSE klass'[d].parent \notin InterfaceNames
    BY DEF Hierarchy, Adds
  <1>2. CASE d = c
    BY <1>1, <1>2 DEF Adds
  <1>3. CASE d \in Linked
    BY <1>3 DEF Adds, Hierarchy
  <1> QED BY <1>2, <1>3 DEF Adds

(* The new class is above none.                                            *)
LEMMA GroundedStep ==
  ASSUME Hierarchy, Grounded, NEW c, NEW p, NEW is, NEW b, Adds(c, p, is, b)
  PROVE  Grounded'
  <1>1. /\ \A d \in Linked : Direct(d)' = Direct(d) /\ Direct(d) \subseteq Linked
        /\ Direct(c)' \subseteq Linked
    BY DirectKept
  <1>2. Linked' = Linked \union {c} /\ c \notin Linked
    BY DEF Adds
  <1> SUFFICES ASSUME NEW D \in SUBSET Linked', D # {}
               PROVE  \E d \in D : Direct(d)' \intersect D = {}
    BY DEF Grounded
  <1>3. CASE D \intersect Linked = {}
    BY <1>1, <1>2, <1>3
  <1>4. CASE D \intersect Linked # {}
    <2>1. PICK d \in D \intersect Linked : Direct(d) \intersect (D \intersect Linked) = {}
      BY <1>4 DEF Grounded
    <2> QED BY <1>1, <2>1
  <1> QED BY <1>3, <1>4

LEMMA HInvStep ==
  ASSUME HInv, NEW c, NEW p, NEW is, NEW b, Adds(c, p, is, b)
  PROVE  HInv'
  BY HierarchyStep, GroundedStep, RecursiveStep DEF HInv

(* The recursion of Supers in the next state.                              *)
LEMMA SupersUnfolds ==
  HInv => \A c \in Linked : Supers(c) = {c} \union UNION {Supers(e) : e \in Direct(c)}
  BY SupersUnfold

LEMMA SupersUnfoldsNext ==
  HInv' => (\A c \in Linked :
              Supers(c) = {c} \union UNION {Supers(e) : e \in Direct(c)})'
  BY SupersUnfolds, PTL

(* What is linked stays as it is.                                          *)
Grows ==
  /\ Linked \subseteq Linked'
  /\ \A d \in Linked : klass'[d] = klass[d]

(* The supertypes of a class do not change.                                *)
LEMMA SupersKept ==
  ASSUME HInv, HInv', Grows
  PROVE  \A d \in Linked : Supers(d)' = Supers(d)
  <1> DEFINE D == {d \in Linked : Supers(d)' = Supers(d)}
  <1>1. ASSUME NEW d \in Linked, Direct(d) \subseteq D PROVE d \in D
    <2>1. d \in Linked' /\ Direct(d)' = Direct(d)
      BY DEF Grows, Direct
    <2>2. Supers(d)' = {d} \union UNION {Supers(e)' : e \in Direct(d)'}
      BY <2>1, SupersUnfoldsNext
    <2>3. {Supers(e)' : e \in Direct(d)} = {Supers(e) : e \in Direct(d)}
      BY <1>1
    <2>4. Supers(d) = {d} \union UNION {Supers(e) : e \in Direct(d)}
      BY SupersUnfold
    <2> QED BY <2>1, <2>2, <2>3, <2>4
  <1>2. D = Linked
    <2> HIDE DEF D
    <2>1. D \in SUBSET Linked
      BY DEF D
    <2> QED BY <1>1, <2>1, Induction
  <1> QED BY <1>2

(* What the constructor would make of the same arguments now.              *)
LEMMA InstanceKlassKept ==
  ASSUME Grows, NEW d, NEW q \in Linked \union {NoKlass}, NEW js, NEW a
  PROVE  InstanceKlass(d, q, js, a)' = InstanceKlass(d, q, js, a)
  <1>1. Inherited(q)' = Inherited(q)
    BY DEF Grows, Inherited
  <1>2. Total(q)' = Total(q)
    BY DEF Grows, Total
  <1>3. fields_layout(d, q, a)' = fields_layout(d, q, a)
    BY <1>1, <1>2 DEF fields_layout
  <1>4. vtable(d, q, a)' = vtable(d, q, a)
    BY DEF Grows, vtable
  <1>5. static_fields_layout(a)' = static_fields_layout(a)
    BY DEF static_fields_layout
  <1> QED BY <1>2, <1>3, <1>4, <1>5 DEF InstanceKlass

LEMMA LegalKept ==
  ASSUME HInv, HInv', Grows, NEW q \in Linked \union {NoKlass},
         NEW js \in SUBSET Linked, NEW a, Legal(q, js, a)
  PROVE  Legal(q, js, a)'
  <1> DEFINE E == js \union ({q} \ {NoKlass})
  <1>1. E \subseteq Linked
    BY LinkingAssumption DEF HInv, Hierarchy
  <1>2. {Supers(e)' : e \in E} = {Supers(e) : e \in E}
    BY <1>1, SupersKept
  <1>3. UNION {Supers(e) : e \in E} \subseteq Linked
    BY <1>1, SupersLinked
  <1>4. \A d \in UNION {Supers(e) : e \in E} : klass'[d] = klass[d]
    BY <1>3 DEF Grows
  <1> HIDE DEF E
  <1>5. \A d \in UNION {Supers(e) : e \in E} :
          \A s \in DOMAIN klass[d].methods \intersect DOMAIN a.methods :
            CASE klass[d].methods[s] = "private" -> TRUE
              [] klass[d].methods[s] = "static" -> a.methods[s] = "static"
              [] OTHER -> a.methods[s] \in {"public", "abstract"}
    BY DEF Legal, E
  <1>6. \A d \in UNION {Supers(e)' : e \in E} :
          \A s \in DOMAIN klass'[d].methods \intersect DOMAIN a.methods :
            CASE klass'[d].methods[s] = "private" -> TRUE
              [] klass'[d].methods[s] = "static" -> a.methods[s] = "static"
              [] OTHER -> a.methods[s] \in {"public", "abstract"}
    BY <1>2, <1>4, <1>5
  <1> QED BY <1>6 DEF Legal, E

(* What was built is still what would be built.                            *)
LEMMA BuiltKept ==
  ASSUME HInv, HInv', Grows, NEW d,
         NEW q \in Linked \union {NoKlass}, NEW js \in SUBSET Linked, NEW a \in Bodies,
         klass'[d] = InstanceKlass(d, q, js, a), Members(d, a), Legal(q, js, a)
  PROVE  (\E p \in Linked \union {NoKlass}, is \in SUBSET Linked, b \in Bodies :
            /\ klass[d] = InstanceKlass(d, p, is, b)
            /\ Members(d, b) /\ Legal(p, is, b))'
  <1>1. Legal(q, js, a)'
    BY LegalKept
  <1>2. klass'[d] = InstanceKlass(d, q, js, a)'
    BY InstanceKlassKept
  <1>3. q \in Linked' \union {NoKlass} /\ js \in SUBSET Linked'
    BY DEF Grows
  <1> QED BY <1>1, <1>2, <1>3

LEMMA BuiltStep ==
  ASSUME HInv, Built, NEW c, NEW p, NEW is, NEW b, Adds(c, p, is, b)
  PROVE  Built'
  <1>0. HInv' /\ Grows
    BY HInvStep DEF Grows, Adds
  <1> SUFFICES ASSUME NEW d \in Linked'
               PROVE  (\E q \in Linked \union {NoKlass}, js \in SUBSET Linked, a \in Bodies :
                         /\ klass[d] = InstanceKlass(d, q, js, a)
                         /\ Members(d, a) /\ Legal(q, js, a))'
    BY DEF Built
  <1>1. CASE d = c
    <2>1. /\ is \in SUBSET Linked /\ p \in Linked \union {NoKlass} /\ b \in Bodies
          /\ Members(c, b) /\ Legal(p, is, b) /\ klass'[c] = InstanceKlass(c, p, is, b)
      BY DEF Adds
    <2> QED BY <1>0, <1>1, <2>1, BuiltKept
  <1>2. CASE d \in Linked
    <2>1. PICK q \in Linked \union {NoKlass}, js \in SUBSET Linked, a \in Bodies :
            /\ klass[d] = InstanceKlass(d, q, js, a)
            /\ Members(d, a) /\ Legal(q, js, a)
      BY <1>2 DEF Built
    <2>2. klass'[d] = InstanceKlass(d, q, js, a)
      BY <1>2, <2>1 DEF Adds
    <2> QED BY <1>0, <2>1, <2>2, BuiltKept
  <1> QED BY <1>1, <1>2 DEF Adds

LEMMA BuiltStutter ==
  ASSUME HInv, Built, klass' = klass
  PROVE  HInv' /\ Built'
  <1>1. Linked' = Linked /\ Grows
    BY DEF Grows, Linked
  <1>2. \A d \in Linked : Direct(d)' = Direct(d)
    BY DEF Direct
  <1>3. Hierarchy' /\ Grounded' /\ Recursive'
    <2>0. Hierarchy /\ Grounded /\ Recursive
      BY DEF HInv
    <2>1. Hierarchy'
      BY <1>1, <2>0 DEF Hierarchy
    <2>2. Grounded'
      BY <1>1, <1>2, <2>0 DEF Grounded
    <2>3. ASSUME NEW V, NEW v \in V, NEW F \in [Linked' \X [Linked' -> V] -> V], Local(V, F)'
          PROVE  \E g \in [Linked' -> V] : \A d \in Linked' : g[d] = F[<<d, g>>]
      <3>1. Local(V, F)
        <4> SUFFICES ASSUME NEW d \in Linked, NEW g \in [Linked -> V],
                            NEW h \in [Linked -> V], \A e \in Direct(d) : g[e] = h[e]
                     PROVE  F[<<d, g>>] = F[<<d, h>>]
          BY DEF Local
        <4>1. d \in Linked' /\ g \in [Linked' -> V] /\ h \in [Linked' -> V]
          BY <1>1
        <4>2. \A e \in Direct(d)' : g[e] = h[e]
          BY <1>2
        <4> QED BY <2>3, <4>1, <4>2 DEF Local
      <3> QED BY <1>1, <2>0, <2>3, <3>1 DEF Recursive
    <2>4. Recursive'
      BY <2>3 DEF Recursive
    <2> QED BY <2>1, <2>2, <2>4
  <1>4. HInv'
    BY <1>3 DEF HInv
  <1> SUFFICES ASSUME NEW d \in Linked
               PROVE  (\E q \in Linked \union {NoKlass}, js \in SUBSET Linked, a \in Bodies :
                         /\ klass[d] = InstanceKlass(d, q, js, a)
                         /\ Members(d, a) /\ Legal(q, js, a))'
    BY <1>1, <1>4 DEF Built
  <1>5. PICK q \in Linked \union {NoKlass}, js \in SUBSET Linked, a \in Bodies :
          /\ klass[d] = InstanceKlass(d, q, js, a)
          /\ Members(d, a) /\ Legal(q, js, a)
    BY DEF Built
  <1>6. klass'[d] = InstanceKlass(d, q, js, a)
    BY <1>5
  <1> QED BY <1>1, <1>4, <1>5, <1>6, BuiltKept

(* The invariant holds initially ...                                       *)
LEMMA RInvInit == Init => RInv
  <1> SUFFICES ASSUME Init PROVE RInv
    OBVIOUS
  <1>1. Linked = {}
    BY DEF Init, Linked
  <1>2. klass = [c \in Linked |-> klass[c]]
    BY <1>1 DEF Init
  <1>3. Recursive
    BY <1>1 DEF Recursive
  <1> QED BY <1>1, <1>2, <1>3
          DEF Init, RInv, LInv, Hierarchy, Built, Grounded

(* ... and every step preserves it.                                        *)
LEMMA RInvStep == RInv /\ [Next]_vars => RInv'
  <1> SUFFICES ASSUME RInv, [Next]_vars PROVE RInv'
    OBVIOUS
  <1>1. ASSUME NEW c \in Names, Link(c) PROVE RInv'
    <2>1. PICK p, is, b : Adds(c, p, is, b)
      BY <1>1, LinkAdds
    <2>2. HInv /\ Built /\ stale \in {NoMethod, Garbage}
      BY DEF RInv, LInv, HInv
    <2>3. HInv'
      BY <2>1, <2>2, HInvStep
    <2>4. Built'
      BY <2>1, <2>2, BuiltStep
    <2>5. (klass = [d \in Linked |-> klass[d]])' /\ stale' \in {NoMethod, Garbage}
      BY <2>1, <2>2 DEF Adds
    <2> QED BY <2>3, <2>4, <2>5 DEF RInv, LInv, HInv
  <1>2. CASE UNCHANGED vars
    <2>1. klass' = klass /\ stale' = stale /\ Linked' = Linked
      BY <1>2 DEF vars, Linked
    <2>2. HInv /\ Built
      BY DEF RInv, LInv, HInv
    <2>3. HInv' /\ Built'
      BY <2>1, <2>2, BuiltStutter
    <2>4. (klass = [d \in Linked |-> klass[d]])' /\ stale' \in {NoMethod, Garbage}
      BY <2>1 DEF RInv, LInv
    <2> QED BY <2>3, <2>4 DEF RInv, LInv, HInv
  <1> QED BY <1>1, <1>2 DEF Next

LEMMA RInvInvariant == Spec => []RInv
  BY RInvInit, RInvStep, PTL DEF Spec

LEMMA RInvHInv == RInv => HInv
  BY DEF RInv, LInv, HInv

-----------------------------------------------------------------------------
(* Chains of superclasses.                                                 *)

(* Nothing is above Object, and Object is above everything.                *)
LEMMA ObjectOnTop ==
  ASSUME HInv
  PROVE  \A c \in Linked : /\ Object \in Supers(c) /\ Object \in Linked
                           /\ c = Object => \A x : x \in Supers(c) <=> x = c
  <1> DEFINE D == {c \in Linked : Object \in Supers(c) /\ Object \in Linked}
  <1>1. ASSUME NEW c \in Linked, Direct(c) \subseteq D PROVE c \in D
    <2>1. CASE c = Object
      BY <2>1, SupersMember
    <2>2. CASE c # Object
      <3>1. klass[c].parent \in Direct(c)
        BY <2>2 DEF HInv, Hierarchy, Direct
      <3> QED BY <1>1, <3>1, SupersMember
    <2> QED BY <2>1, <2>2
  <1>2. D = Linked
    <2> HIDE DEF D
    <2>1. D \in SUBSET Linked
      BY DEF D
    <2> QED BY <1>1, <2>1, Induction
  <1>3. ASSUME NEW c \in Linked, c = Object PROVE \A x : x \in Supers(c) <=> x = c
    <2>1. Direct(c) = {}
      BY <1>3 DEF HInv, Hierarchy, Direct
    <2> QED BY <2>1, SupersMember
  <1> QED BY <1>2, <1>3

(* The only class above an interface is Object.                            *)
LEMMA ChainOfInterface ==
  ASSUME HInv
  PROVE  \A c \in Linked : IsInterface(c) => \A x : x \in Chain(c) <=> x = Object
  <1> DEFINE D == {c \in Linked :
                     IsInterface(c) => \A x : x \in Chain(c) <=> x = Object}
  <1>0. ~IsInterface(Object)
    BY LinkingAssumption DEF IsInterface
  <1>1. ASSUME NEW c \in Linked, Direct(c) \subseteq D PROVE c \in D
    <2> SUFFICES ASSUME IsInterface(c), NEW x PROVE x \in Chain(c) <=> x = Object
      OBVIOUS
    <2>1. x = Object => x \in Chain(c)
      BY <1>0, ObjectOnTop DEF Chain
    <2>2. ASSUME x \in Chain(c) PROVE x = Object
      <3>1. x \in Supers(c) /\ ~IsInterface(x) /\ x # c
        BY <2>2 DEF Chain
      <3>2. PICK e \in Direct(c) : x \in Supers(e)
        BY <3>1, SupersMember
      <3>3. e = Object \/ IsInterface(e)
        BY <3>2 DEF HInv, Hierarchy, Direct, IsInterface
      <3>4. e \in Linked /\ e \in D
        BY <1>1, <3>2
      <3>5. x \in Chain(e)
        BY <3>1, <3>2 DEF Chain
      <3> QED BY <3>2, <3>3, <3>4, <3>5, ObjectOnTop
    <2> QED BY <2>1, <2>2
  <1>2. D = Linked
    <2> HIDE DEF D
    <2>1. D \in SUBSET Linked
      BY DEF D
    <2> QED BY <1>1, <2>1, Induction
  <1> QED BY <1>2

(* Where the superclass of a class is.                                     *)
LEMMA ParentLinked ==
  ASSUME HInv, NEW c \in Linked
  PROVE  /\ c = Object <=> klass[c].parent = NoKlass
         /\ c # Object => /\ klass[c].parent \in Linked
                          /\ klass[c].parent \in Direct(c)
                          /\ ~IsInterface(klass[c].parent)
  BY LinkingAssumption DEF HInv, Hierarchy, Direct, IsInterface

(* The superclasses of a class are itself and those of its superclass.     *)
LEMMA ChainOfClass ==
  ASSUME HInv, NEW c \in Linked, ~IsInterface(c)
  PROVE  \A x : x \in Chain(c) <=>
                  x = c \/ (c # Object /\ x \in Chain(klass[c].parent))
  <1> SUFFICES ASSUME NEW x
               PROVE  x \in Chain(c) <=>
                        x = c \/ (c # Object /\ x \in Chain(klass[c].parent))
    OBVIOUS
  <1>1. CASE c = Object
    <2>1. x \in Supers(c) <=> x = c
      BY <1>1, ObjectOnTop
    <2> QED BY <1>1, <2>1 DEF Chain
  <1>2. CASE c # Object
    <2> DEFINE p == klass[c].parent
    <2>1. p \in Linked /\ p \in Direct(c) /\ ~IsInterface(p)
      BY <1>2, ParentLinked
    <2>2. x = c \/ x \in Chain(p) => x \in Chain(c)
      BY <2>1, SupersMember DEF Chain
    <2>3. ASSUME x \in Chain(c), x # c PROVE x \in Chain(p)
      <3>1. PICK e \in Direct(c) : x \in Supers(e)
        BY <2>3, SupersMember DEF Chain
      <3>2. ~IsInterface(x) /\ x \in Chain(e) /\ e \in Linked
        BY <2>3, <3>1, SupersMember DEF Chain
      <3>3. e = p \/ IsInterface(e)
        BY <3>1 DEF HInv, Hierarchy, Direct, IsInterface
      <3>4. IsInterface(e) => x = Object
        BY <3>2, ChainOfInterface
      <3> QED BY <2>1, <3>2, <3>3, <3>4, ObjectOnTop DEF Chain
    <2> QED BY <1>2, <2>2, <2>3
  <1> QED BY <1>1, <1>2

-----------------------------------------------------------------------------
(* The body that a class was made of.                                      *)
LEMMA BuiltFrom ==
  ASSUME RInv, NEW c \in Linked
  PROVE  LET p == klass[c].parent
         IN  \E b \in Bodies :
               /\ Members(c, b) /\ Legal(p, klass[c].interfaces, b)
               /\ klass[c].fields_layout = fields_layout(c, p, b)
               /\ klass[c].static_fields_layout = static_fields_layout(b)
               /\ klass[c].total_non_static_fields_num = Total(p) + Len(b.fields)
               /\ klass[c].methods = b.methods
               /\ klass[c].vtable = vtable(c, p, b)
               /\ b.fields \in Seq(FieldSigs) /\ b.statics \in Seq(FieldSigs)
               /\ \A s \in DOMAIN b.methods : b.methods[s] \in MethodKinds
  <1>1. PICK p \in Linked \union {NoKlass}, is \in SUBSET Linked, b \in Bodies :
          /\ klass[c] = InstanceKlass(c, p, is, b)
          /\ Members(c, b) /\ Legal(p, is, b)
    BY DEF RInv, LInv, Built
  <1>2. b \in Body
    BY LinkingAssumption
  <1>3. /\ b.fields \in Seq(FieldSigs) /\ b.statics \in Seq(FieldSigs)
        /\ \A s \in DOMAIN b.methods : b.methods[s] \in MethodKinds
    BY <1>2 DEF Body
  <1> QED BY <1>1, <1>3, InstanceKlassFields

(* The fields a class adds to those of its superclass.                     *)
Own(c, b) == {<<c, b.fields[n]>> : n \in DOMAIN b.fields}

Fresh(c, p) == \A k \in DOMAIN Inherited(p) : k[1] # c

Continues(l, c, p, b) ==
  /\ DOMAIN l = DOMAIN Inherited(p) \union Own(c, b)
  /\ \A k \in DOMAIN Inherited(p) : l[k] = Inherited(p)[k]
  /\ \A k \in Own(c, b) : l[k] \in Nat /\ Total(p) =< l[k]
                          /\ l[k] < Total(p) + Len(b.fields)
  /\ \A j, k \in Own(c, b) : l[j] = l[k] => j = k

(* parse_fields: what is inherited keeps its offset, the new fields have   *)
(* those that follow.                                                      *)
LEMMA FieldsLayout ==
  ASSUME NEW c, NEW p, NEW b, b.fields \in Seq(FieldSigs), Total(p) \in Nat,
         Fresh(c, p)
  PROVE  Continues(fields_layout(c, p, b), c, p, b)
  <1> DEFINE l == fields_layout(c, p, b)
             new == {<<c, b.fields[n]>> : n \in DOMAIN b.fields}
             pos(k) == CHOOSE n \in DOMAIN b.fields : b.fields[n] = k[2]
  <1>1. l = [k \in DOMAIN Inherited(p) \union new |->
               IF k \in new THEN Total(p) + pos(k) - 1 ELSE Inherited(p)[k]]
    BY DEF fields_layout
  <1>2. \A k \in new : pos(k) \in DOMAIN b.fields /\ b.fields[pos(k)] = k[2]
                       /\ k = <<c, k[2]>>
    OBVIOUS
  <1>3. DOMAIN b.fields = 1 .. Len(b.fields) /\ Len(b.fields) \in Nat
    OBVIOUS
  <1>4. \A k \in new : k[1] = c
    OBVIOUS
  <1> HIDE DEF l, new, pos
  <1>5. DOMAIN l = DOMAIN Inherited(p) \union new
    BY <1>1
  <1>6. \A k \in DOMAIN Inherited(p) : l[k] = Inherited(p)[k]
    BY <1>1, <1>4 DEF Fresh
  <1>7. \A k \in new : l[k] = Total(p) + pos(k) - 1 /\ pos(k) \in 1 .. Len(b.fields)
    BY <1>1, <1>2, <1>3
  <1>8. \A k \in new : l[k] \in Nat /\ Total(p) =< l[k]
                       /\ l[k] < Total(p) + Len(b.fields)
    BY <1>3, <1>7
  <1>9. ASSUME NEW j \in new, NEW k \in new, l[j] = l[k] PROVE j = k
    <2>1. pos(j) = pos(k)
      BY <1>7, <1>9
    <2> QED BY <1>2, <2>1
  <1> QED BY <1>5, <1>6, <1>8, <1>9 DEF l, new, Own, Continues

(* Static fields are numbered apart.                                       *)
LEMMA StaticLayout ==
  ASSUME NEW b, b.statics \in Seq(FieldSigs)
  PROVE  LET l == static_fields_layout(b)
         IN  /\ \A s \in DOMAIN l : l[s] \in Nat
             /\ \A s, u \in DOMAIN l : l[s] = l[u] => s = u
             /\ DOMAIN l \subseteq FieldSigs
             /\ b.statics = <<>> => DOMAIN l = {}
  <1> DEFINE l == static_fields_layout(b)
             pos(s) == CHOOSE n \in DOMAIN b.statics : b.statics[n] = s
             sigs == {b.statics[n] : n \in DOMAIN b.statics}
  <1>1. l = [s \in sigs |-> pos(s) - 1]
    BY DEF static_fields_layout
  <1>2. \A s \in sigs : pos(s) \in DOMAIN b.statics /\ b.statics[pos(s)] = s
    OBVIOUS
  <1>3. DOMAIN b.statics = 1 .. Len(b.statics) /\ Len(b.statics) \in Nat
    OBVIOUS
  <1>4. sigs \subseteq FieldSigs /\ (b.statics = <<>> => sigs = {})
    OBVIOUS
  <1> HIDE DEF l, pos, sigs
  <1>5. DOMAIN l = sigs /\ \A s \in sigs : l[s] = pos(s) - 1
    BY <1>1
  <1>6. \A s \in sigs : pos(s) \in 1 .. Len(b.statics)
    BY <1>2, <1>3
  <1>7. \A s \in sigs : l[s] \in Nat
    BY <1>3, <1>5, <1>6
  <1>8. ASSUME NEW s \in sigs, NEW u \in sigs, l[s] = l[u] PROVE s = u
    <2>1. pos(s) = pos(u)
      BY <1>3, <1>5, <1>6, <1>8
    <2> QED BY <1>2, <2>1
  <1> QED BY <1>4, <1>5, <1>7, <1>8 DEF l

(* The layout of a class: each field has a place below the length, of its  *)
(* own, which is its place in the class that declares it; and those of     *)
(* the superclass are among them.                                          *)
Layout(c) == klass[c].fields_layout
Length(c) == klass[c].total_non_static_fields_num

LaidOut(c) ==
  /\ Length(c) \in Nat
  /\ \A k \in DOMAIN Layout(c) :
       /\ k[1] \in Supers(c)
       /\ Layout(c)[k] \in Nat /\ Layout(c)[k] < Length(c)
       /\ k = <<k[1], k[2]>>
       /\ k \in DOMAIN Layout(k[1]) /\ Layout(k[1])[k] = Layout(c)[k]
  /\ \A j, k \in DOMAIN Layout(c) : Layout(c)[j] = Layout(c)[k] => j = k
  /\ c # Object => DOMAIN Layout(klass[c].parent) \subseteq DOMAIN Layout(c)
  /\ c = Object \/ IsInterface(c) => DOMAIN Layout(c) = {}

LEMMA LayoutInduction ==
  ASSUME RInv
  PROVE  \A c \in Linked : LaidOut(c)
  <1>0. HInv
    BY RInvHInv
  <1> DEFINE D == {c \in Linked : LaidOut(c)}
  <1>1. ASSUME NEW c \in Linked, Direct(c) \subseteq D PROVE LaidOut(c)
    <2>0. PICK p : p = klass[c].parent
      OBVIOUS
    <2> DEFINE l == Layout(c)
    <2>1. PICK b \in Bodies :
            /\ Members(c, b)
            /\ l = fields_layout(c, p, b)
            /\ Length(c) = Total(p) + Len(b.fields)
            /\ b.fields \in Seq(FieldSigs)
      BY <2>0, BuiltFrom DEF Layout, Length
    <2> DEFINE new == {<<c, b.fields[n]>> : n \in DOMAIN b.fields}
    <2>2. /\ c = Object <=> p = NoKlass
          /\ c # Object => p \in D /\ p \in Direct(c)
      BY <1>0, <1>1, <2>0, ParentLinked
    <2>3. /\ Total(p) \in Nat
          /\ \A k \in DOMAIN Inherited(p) :
               /\ c # Object /\ k \in DOMAIN Layout(p) /\ Inherited(p)[k] = Layout(p)[k]
               /\ k[1] \in Supers(p)
               /\ Inherited(p)[k] \in Nat /\ Inherited(p)[k] < Total(p)
               /\ k = <<k[1], k[2]>>
               /\ k \in DOMAIN Layout(k[1]) /\ Layout(k[1])[k] = Inherited(p)[k]
          /\ \A j, k \in DOMAIN Inherited(p) : Inherited(p)[j] = Inherited(p)[k] => j = k
          /\ c # Object => DOMAIN Layout(p) = DOMAIN Inherited(p)
          /\ c = Object \/ p = Object => DOMAIN Inherited(p) = {}
      <3>1. CASE c = Object
        BY <2>2, <3>1, LinkingAssumption DEF Inherited, Total
      <3>2. CASE c # Object
        <4>1. p # NoKlass /\ LaidOut(p)
          BY <2>2, <3>2
        <4>2. Inherited(p) = Layout(p) /\ Total(p) = Length(p)
          BY <4>1 DEF Inherited, Total, Layout, Length
        <4> QED BY <3>2, <4>1, <4>2 DEF LaidOut
      <3> QED BY <3>1, <3>2
    <2>4. \A k \in DOMAIN Inherited(p) : k[1] # c /\ k[1] \in Supers(c)
      <3> SUFFICES ASSUME NEW k \in DOMAIN Inherited(p)
                   PROVE  k[1] # c /\ k[1] \in Supers(c)
        OBVIOUS
      <3>1. p \in Direct(c) /\ k[1] \in Supers(p)
        BY <2>2, <2>3
      <3>2. c \notin Supers(p)
        BY <1>0, <3>1, SupersProper
      <3> QED BY <1>0, <3>1, <3>2, SupersMember
    <2>5. /\ DOMAIN l = DOMAIN Inherited(p) \union new
          /\ \A k \in DOMAIN Inherited(p) : l[k] = Inherited(p)[k]
          /\ \A k \in new : l[k] \in Nat /\ Total(p) =< l[k] /\ l[k] < Length(c)
          /\ \A j, k \in new : l[j] = l[k] => j = k
      <3>1. Total(p) \in Nat /\ Fresh(c, p) /\ b.fields \in Seq(FieldSigs)
        BY <2>1, <2>3, <2>4 DEF Fresh
      <3> HIDE DEF new, l
      <3>2. new = Own(c, b)
        BY DEF new, Own
      <3>3. l = fields_layout(c, p, b) /\ Length(c) = Total(p) + Len(b.fields)
        BY <2>1
      <3>4. Continues(l, c, p, b)
        BY <3>1, <3>3, FieldsLayout
      <3> QED BY <3>2, <3>3, <3>4 DEF Continues
    <2>6. Length(c) \in Nat /\ Total(p) =< Length(c)
      BY <2>1, <2>3
    <2>7. \A k \in new : k[1] = c /\ k = <<k[1], k[2]>>
      OBVIOUS
    <2>8. c = Object \/ IsInterface(c) => new = {}
      BY <2>1 DEF Members
    <2>9. IsInterface(c) => p = Object
      BY <1>0, <2>0 DEF HInv, Hierarchy
    <2>10. c \in Supers(c)
      BY <1>0, SupersMember
    <2> HIDE DEF l, new
    <2>11. \A k \in DOMAIN l :
             /\ k[1] \in Supers(c)
             /\ l[k] \in Nat /\ l[k] < Length(c)
             /\ k = <<k[1], k[2]>>
             /\ k \in DOMAIN Layout(k[1]) /\ Layout(k[1])[k] = l[k]
      <3>1. ASSUME NEW k \in DOMAIN Inherited(p)
            PROVE  /\ k[1] \in Supers(c)
                   /\ l[k] \in Nat /\ l[k] < Length(c)
                   /\ k = <<k[1], k[2]>>
                   /\ k \in DOMAIN Layout(k[1]) /\ Layout(k[1])[k] = l[k]
        BY <2>3, <2>4, <2>5, <2>6
      <3>2. ASSUME NEW k \in new
            PROVE  /\ k[1] \in Supers(c)
                   /\ l[k] \in Nat /\ l[k] < Length(c)
                   /\ k = <<k[1], k[2]>>
                   /\ k \in DOMAIN Layout(k[1]) /\ Layout(k[1])[k] = l[k]
        BY <2>5, <2>7, <2>10 DEF l
      <3> QED BY <2>5, <3>1, <3>2
    <2>12. \A j, k \in DOMAIN l : l[j] = l[k] => j = k
      <3> SUFFICES ASSUME NEW j \in DOMAIN l, NEW k \in DOMAIN l, l[j] = l[k]
                   PROVE  j = k
        OBVIOUS
      <3>1. CASE j \in DOMAIN Inherited(p) /\ k \in DOMAIN Inherited(p)
        BY <2>3, <2>5, <3>1
      <3>2. CASE j \in new /\ k \in new
        BY <2>5, <3>2
      <3>3. \A x \in DOMAIN Inherited(p), y \in new : l[x] # l[y]
        BY <2>3, <2>5
      <3> QED BY <2>5, <3>1, <3>2, <3>3
    <2>13. c # Object => DOMAIN Layout(p) \subseteq DOMAIN l
      BY <2>3, <2>5
    <2>14. c = Object \/ IsInterface(c) => DOMAIN l = {}
      BY <2>3, <2>5, <2>8, <2>9
    <2> QED BY <2>0, <2>6, <2>11, <2>12, <2>13, <2>14 DEF LaidOut, l
  <1>2. D = Linked
    <2> HIDE DEF D
    <2>1. D \in SUBSET Linked
      BY DEF D
    <2>2. \A d \in Linked : Direct(d) \subseteq D => d \in D
      BY <1>1 DEF D
    <2> QED BY <1>0, <2>1, <2>2, Induction
  <1> QED BY <1>2

(* The fields of a superclass are in the layout.                           *)
LEMMA ChainLayout ==
  ASSUME RInv
  PROVE  \A c \in Linked : \A d \in Chain(c) : \A s :
           <<d, s>> \in DOMAIN Layout(d) => <<d, s>> \in DOMAIN Layout(c)
  <1>0. HInv
    BY RInvHInv
  <1> DEFINE Has(c) == \A d \in Chain(c) : \A s :
                         <<d, s>> \in DOMAIN Layout(d) => <<d, s>> \in DOMAIN Layout(c)
             D == {c \in Linked : Has(c)}
  <1>1. ASSUME NEW c \in Linked, Direct(c) \subseteq D PROVE Has(c)
    <2> SUFFICES ASSUME NEW d \in Chain(c), d # c, NEW s,
                        <<d, s>> \in DOMAIN Layout(d)
                 PROVE  <<d, s>> \in DOMAIN Layout(c)
      OBVIOUS
    <2>1. CASE IsInterface(c)
      <3>1. d = Object /\ d \in Linked
        BY <1>0, <2>1, ChainOfInterface, ObjectOnTop
      <3> QED BY <3>1, LayoutInduction DEF LaidOut
    <2>2. CASE ~IsInterface(c)
      <3>1. c # Object /\ d \in Chain(klass[c].parent)
        BY <1>0, <2>2, ChainOfClass
      <3>2. klass[c].parent \in D
        BY <1>0, <1>1, <3>1, ParentLinked
      <3>3. <<d, s>> \in DOMAIN Layout(klass[c].parent)
        BY <3>1, <3>2
      <3> QED BY <3>1, <3>3, LayoutInduction DEF LaidOut
    <2> QED BY <2>1, <2>2
  <1>2. D = Linked
    <2> HIDE DEF D, Has
    <2>1. D \in SUBSET Linked
      BY DEF D
    <2>2. \A d \in Linked : Direct(d) \subseteq D => d \in D
      BY <1>1 DEF D
    <2> QED BY <1>0, <2>1, <2>2, Induction
  <1> QED BY <1>2

LEMMA LayoutLemma == RInv => LayoutSound
  <1> SUFFICES ASSUME RInv, NEW c \in Linked
               PROVE
                 /\ \A j, k \in DOMAIN Layout(c) : Layout(c)[j] = Layout(c)[k] => j = k
                 /\ \A k \in DOMAIN Layout(c) :
                      /\ Layout(c)[k] < Length(c)
                      /\ FieldsAt(c, get_all_field_offset(k[1], k[2])) = {k}
                 /\ \A d \in Chain(c) : \A s \in FieldSigs :
                      <<d, s>> \in DOMAIN Layout(d) => <<d, s>> \in DOMAIN Layout(c)
                 /\ \A s \in DOMAIN klass[c].static_fields_layout :
                      FieldsAt(c, get_all_field_offset(c, s)) = {<<c, s>>}
    BY DEF LayoutSound, Layout, Length
  <1>1. LaidOut(c)
    BY LayoutInduction
  <1>2. ASSUME NEW k \in DOMAIN Layout(c)
        PROVE  FieldsAt(c, get_all_field_offset(k[1], k[2])) = {k}
    <2>1. get_all_field_offset(k[1], k[2]) = Layout(c)[k]
      BY <1>1 DEF LaidOut, get_all_field_offset, Layout
    <2>2. ~(Length(c) =< Layout(c)[k])
      BY <1>1 DEF LaidOut
    <2>3. FieldsAt(c, Layout(c)[k]) = {j \in DOMAIN Layout(c) : Layout(c)[j] = Layout(c)[k]}
      BY <2>2 DEF FieldsAt, Layout, Length
    <2> QED BY <1>1, <2>1, <2>3 DEF LaidOut
  <1>3. ASSUME NEW s \in DOMAIN klass[c].static_fields_layout
        PROVE  FieldsAt(c, get_all_field_offset(c, s)) = {<<c, s>>}
    <2> DEFINE l == klass[c].static_fields_layout
    <2>1. CASE <<c, s>> \in DOMAIN Layout(c)
      BY <1>2, <2>1
    <2>2. CASE <<c, s>> \notin DOMAIN Layout(c)
      <3>1. /\ \A t \in DOMAIN l : l[t] \in Nat
            /\ \A t, u \in DOMAIN l : l[t] = l[u] => t = u
        BY BuiltFrom, StaticLayout
      <3>2. Length(c) \in Nat
        BY <1>1 DEF LaidOut
      <3>3. get_all_field_offset(c, s) = l[s] + Length(c)
        BY <2>2 DEF get_all_field_offset, Layout, Length
      <3>4. Length(c) =< l[s] + Length(c) /\ (l[s] + Length(c)) - Length(c) = l[s]
        BY <3>1, <3>2
      <3>5. FieldsAt(c, l[s] + Length(c)) =
              {<<c, t>> : t \in {t \in DOMAIN l : l[t] = l[s]}}
        BY <3>4 DEF FieldsAt, Length
      <3>6. {t \in DOMAIN l : l[t] = l[s]} = {s}
        BY <3>1
      <3> QED BY <3>3, <3>5, <3>6
    <2> QED BY <2>1, <2>2
  <1> QED BY <1>1, <1>2, <1>3, ChainLayout DEF LaidOut

(* LayoutSound: whatever the hierarchy, a field has one offset in the      *)
(* objects of all subclasses, below their length and shared with no other  *)
(* field, and the offset Unsafe gives out for it is that one               *)
(* (parse_fields, get_all_field_offset).                                   *)
THEOREM LayoutsAreSound == Spec => []LayoutSound
  BY RInvInvariant, LayoutLemma, PTL

-----------------------------------------------------------------------------
(* check_interfaces and check_parent walk the hierarchy.                   *)
LEMMA CheckInterfacesFunction ==
  ASSUME HInv, NEW i
  PROVE  \E check : check = [d \in Linked |->
           \/ i \in klass[d].interfaces
           \/ \E e \in klass[d].interfaces : check[e]
           \/ klass[d].parent # NoKlass /\ check[klass[d].parent]]
  <1> DEFINE V == BOOLEAN
             body(d, g) == \/ i \in klass[d].interfaces
                           \/ \E e \in klass[d].interfaces : g[e]
                           \/ klass[d].parent # NoKlass /\ g[klass[d].parent]
             F == [k \in Linked \X [Linked -> V] |-> body(k[1], k[2])]
  <1>1. \A d \in Linked, g \in [Linked -> V] : F[<<d, g>>] = body(d, g)
    OBVIOUS
  <1>2. F \in [Linked \X [Linked -> V] -> V]
    OBVIOUS
  <1>3. Local(V, F)
    <2> SUFFICES ASSUME NEW d \in Linked, NEW g \in [Linked -> V],
                        NEW h \in [Linked -> V], \A e \in Direct(d) : g[e] = h[e]
                 PROVE  F[<<d, g>>] = F[<<d, h>>]
      BY DEF Local
    <2>1. \A e \in klass[d].interfaces : g[e] = h[e]
      BY LinkingAssumption DEF Direct, HInv, Hierarchy
    <2>2. klass[d].parent # NoKlass => g[klass[d].parent] = h[klass[d].parent]
      BY DEF Direct
    <2>3. body(d, g) = body(d, h)
      BY <2>1, <2>2
    <2> QED BY <1>1, <2>3
  <1> HIDE DEF F, body
  <1>4. FALSE \in V
    OBVIOUS
  <1> HIDE DEF V
  <1>5. PICK g \in [Linked -> V] : \A d \in Linked : g[d] = F[<<d, g>>]
    BY <1>2, <1>3, <1>4 DEF HInv, Recursive
  <1>6. g = [d \in Linked |-> body(d, g)]
    BY <1>1, <1>5
  <1> QED BY <1>6 DEF body

LEMMA CheckInterfacesUnfold ==
  ASSUME HInv, NEW i, NEW c \in Linked
  PROVE  check_interfaces(c, i) <=>
           (\/ i \in klass[c].interfaces
            \/ \E e \in klass[c].interfaces : check_interfaces(e, i)
            \/ klass[c].parent # NoKlass /\ check_interfaces(klass[c].parent, i))
  <1> DEFINE Solves(check) == check = [d \in Linked |->
               \/ i \in klass[d].interfaces
               \/ \E e \in klass[d].interfaces : check[e]
               \/ klass[d].parent # NoKlass /\ check[klass[d].parent]]
             T == CHOOSE check : Solves(check)
  <1>1. Solves(T)
    <2>1. \E check : Solves(check)
      BY CheckInterfacesFunction
    <2> HIDE DEF Solves
    <2> QED BY <2>1
  <1>2. \A d : check_interfaces(d, i) = T[d]
    BY DEF check_interfaces
  <1> HIDE DEF T
  <1>3. T[c] <=> (\/ i \in klass[c].interfaces
                  \/ \E e \in klass[c].interfaces : T[e]
                  \/ klass[c].parent # NoKlass /\ T[klass[c].parent])
    BY <1>1
  <1> QED BY <1>2, <1>3

ChecksParents(check, e) ==
  check = [d \in Linked |-> /\ klass[d].parent # NoKlass
                            /\ klass[d].parent = e \/ check[klass[d].parent]]

LEMMA CheckParentFunction ==
  ASSUME HInv, NEW e
  PROVE  \E check : ChecksParents(check, e)
  <1> DEFINE V == BOOLEAN
             body(d, g) == /\ klass[d].parent # NoKlass
                           /\ klass[d].parent = e \/ g[klass[d].parent]
             F == [k \in Linked \X [Linked -> V] |-> body(k[1], k[2])]
  <1>1. \A d \in Linked, g \in [Linked -> V] : F[<<d, g>>] = body(d, g)
    OBVIOUS
  <1>2. F \in [Linked \X [Linked -> V] -> V]
    OBVIOUS
  <1>3. Local(V, F)
    <2> SUFFICES ASSUME NEW d \in Linked, NEW g \in [Linked -> V],
                        NEW h \in [Linked -> V], \A x \in Direct(d) : g[x] = h[x]
                 PROVE  F[<<d, g>>] = F[<<d, h>>]
      BY DEF Local
    <2>1. klass[d].parent # NoKlass => g[klass[d].parent] = h[klass[d].parent]
      BY DEF Direct
    <2>2. body(d, g) = body(d, h)
      BY <2>1
    <2> QED BY <1>1, <2>2
  <1> HIDE DEF F, body
  <1>4. FALSE \in V
    OBVIOUS
  <1> HIDE DEF V
  <1>5. PICK g \in [Linked -> V] : \A d \in Linked : g[d] = F[<<d, g>>]
    BY <1>2, <1>3, <1>4 DEF HInv, Recursive
  <1>6. g = [d \in Linked |-> body(d, g)]
    BY <1>1, <1>5
  <1> QED BY <1>6 DEF body, ChecksParents

LEMMA CheckParentUnfold ==
  ASSUME HInv, NEW e, NEW c \in Linked
  PROVE  check_parent(c, e) <=>
           (/\ klass[c].parent # NoKlass
            /\ klass[c].parent = e \/ check_parent(klass[c].parent, e))
  <1> DEFINE T == CHOOSE check : ChecksParents(check, e)
  <1>1. ChecksParents(T, e)
    BY CheckParentFunction
  <1>2. \A d : check_parent(d, e) = T[d]
    BY DEF check_parent, ChecksParents
  <1> HIDE DEF T
  <1>3. T[c] <=> (/\ klass[c].parent # NoKlass
                  /\ klass[c].parent = e \/ T[klass[c].parent])
    BY <1>1 DEF ChecksParents
  <1> QED BY <1>2, <1>3

(* check_interfaces finds the superinterfaces ...                          *)
LEMMA CheckInterfaces ==
  ASSUME HInv, NEW i, IsInterface(i)
  PROVE  \A c \in Linked :
           check_interfaces(c, i) <=> \E e \in Direct(c) : i \in Supers(e)
  <1> DEFINE Right(c) == check_interfaces(c, i) <=> \E e \in Direct(c) : i \in Supers(e)
             D == {c \in Linked : Right(c)}
  <1>1. ASSUME NEW c \in Linked, Direct(c) \subseteq D PROVE Right(c)
    <2> DEFINE p == klass[c].parent
               is == klass[c].interfaces
    <2>1. Direct(c) \subseteq Linked /\ is \subseteq Direct(c)
          /\ (p # NoKlass => p \in Direct(c))
          /\ \A e \in Direct(c) : e \in is \/ (p # NoKlass /\ e = p)
      BY LinkingAssumption DEF HInv, Hierarchy, Direct
    <2>2. p # NoKlass => p # i
      BY LinkingAssumption DEF HInv, Hierarchy, IsInterface
    <2>3. \A e \in Direct(c) : check_interfaces(e, i) <=> \E f \in Direct(e) : i \in Supers(f)
      BY <1>1
    <2>4. \A e \in Direct(c) : i \in Supers(e) <=> i = e \/ \E f \in Direct(e) : i \in Supers(f)
      BY <2>1, SupersMember
    <2>5. \A e \in Direct(c) : i \in Supers(e) <=> i = e \/ check_interfaces(e, i)
      BY <2>3, <2>4
    <2>6. check_interfaces(c, i) <=>
            (\/ i \in is
             \/ \E e \in is : check_interfaces(e, i)
             \/ p # NoKlass /\ check_interfaces(p, i))
      BY CheckInterfacesUnfold, Zenon
    <2> HIDE DEF p, is
    <2> QED BY <2>1, <2>2, <2>5, <2>6
  <1>2. D = Linked
    <2> HIDE DEF D, Right
    <2>1. D \in SUBSET Linked
      BY DEF D
    <2>2. \A d \in Linked : Direct(d) \subseteq D => d \in D
      BY <1>1 DEF D
    <2> QED BY <2>1, <2>2, Induction
  <1> QED BY <1>2

(* ... and check_parent the proper superclasses.                           *)
LEMMA CheckParent ==
  ASSUME HInv, NEW e, ~IsInterface(e)
  PROVE  \A c \in Linked :
           check_parent(c, e) <=> c # Object /\ e \in Chain(klass[c].parent)
  <1> DEFINE Right(c) == check_parent(c, e) <=> c # Object /\ e \in Chain(klass[c].parent)
             D == {c \in Linked : Right(c)}
  <1>1. ASSUME NEW c \in Linked, Direct(c) \subseteq D PROVE Right(c)
    <2> DEFINE p == klass[c].parent
    <2>1. check_parent(c, e) <=> (p # NoKlass /\ (p = e \/ check_parent(p, e)))
      BY CheckParentUnfold, Zenon
    <2>2. CASE c = Object
      BY <2>1, <2>2, ParentLinked
    <2>3. CASE c # Object
      <3>1. p \in Linked /\ p \in Direct(c) /\ ~IsInterface(p) /\ p # NoKlass
        BY <2>3, ParentLinked
      <3>2. check_parent(p, e) <=> p # Object /\ e \in Chain(klass[p].parent)
        BY <1>1, <3>1
      <3>3. e \in Chain(p) <=> e = p \/ (p # Object /\ e \in Chain(klass[p].parent))
        BY <3>1, ChainOfClass
      <3> QED BY <2>1, <2>3, <3>1, <3>2, <3>3
    <2> QED BY <2>2, <2>3
  <1>2. D = Linked
    <2> HIDE DEF D, Right
    <2>1. D \in SUBSET Linked
      BY DEF D
    <2>2. \A d \in Linked : Direct(d) \subseteq D => d \in D
      BY <1>1 DEF D
    <2> QED BY <2>1, <2>2, Induction
  <1> QED BY <1>2

(* A class is found under a type when the type is one of its supertypes.   *)
LEMMA ChecksDecide ==
  ASSUME HInv, NEW c \in Linked, NEW e \in Linked
  PROVE  /\ IsInterface(e) =>
              (c = e \/ check_interfaces(c, e) <=> e \in Supers(c))
         /\ ~IsInterface(e) => (c = e \/ check_parent(c, e) <=> e \in Supers(c))
  <1>1. ASSUME IsInterface(e)
        PROVE  c = e \/ check_interfaces(c, e) <=> e \in Supers(c)
    <2>1. check_interfaces(c, e) <=> \E f \in Direct(c) : e \in Supers(f)
      BY <1>1, CheckInterfaces
    <2>2. e \in Supers(c) <=> e = c \/ \E f \in Direct(c) : e \in Supers(f)
      BY SupersMember
    <2> QED BY <2>1, <2>2
  <1>2. ASSUME ~IsInterface(e)
        PROVE  c = e \/ check_parent(c, e) <=> e \in Supers(c)
    <2>1. check_parent(c, e) <=> c # Object /\ e \in Chain(klass[c].parent)
      BY <1>2, CheckParent
    <2>2. e \in Supers(c) <=> e \in Chain(c)
      BY <1>2 DEF Chain
    <2>3. CASE IsInterface(c)
      <3>1. c # Object /\ klass[c].parent = Object /\ c # e
        BY <1>2, <2>3, LinkingAssumption DEF HInv, Hierarchy, IsInterface
      <3>2. Object \in Linked /\ ~IsInterface(Object)
        BY LinkingAssumption, ObjectOnTop DEF IsInterface
      <3>3. e \in Chain(Object) <=> e = Object
        BY <3>2, ObjectOnTop DEF Chain
      <3>4. e \in Chain(c) <=> e = Object
        BY <2>3, ChainOfInterface
      <3> QED BY <2>1, <2>2, <3>1, <3>3, <3>4
    <2>4. CASE ~IsInterface(c)
      <3>1. e \in Chain(c) <=> e = c \/ (c # Object /\ e \in Chain(klass[c].parent))
        BY <2>4, ChainOfClass
      <3> QED BY <2>1, <2>2, <3>1
    <2> QED BY <2>3, <2>4
  <1> QED BY <1>1, <1>2

LEMMA InstanceOfLemma == HInv => InstanceOfRight
  <1> SUFFICES ASSUME HInv, NEW ref \in Types, NEW type \in Types,
                      ref.dim = 0 => ref.elem \notin InterfaceNames,
                      type.dim \in {0, ref.dim},
                      type.dim > 0 => type.elem \notin InterfaceNames
               PROVE  check_instanceof(ref, type) <=> SubType(ref, type)
    BY DEF InstanceOfRight
  <1>1. "int" \notin Linked
    BY LinkingAssumption DEF HInv, Hierarchy
  <1>2. /\ ref \in TypeArrays => ref.elem = "int" /\ ref.dim \in 1 .. 2
        /\ ref \notin TypeArrays => ref.elem \in Linked /\ ref.dim \in 0 .. 2
        /\ type \in TypeArrays => type.elem = "int" /\ type.dim \in 1 .. 2
        /\ type \notin TypeArrays => type.elem \in Linked /\ type.dim \in 0 .. 2
    BY DEF Types, TypeArrays
  <1>3. CASE ref.dim = 0
    <2>1. /\ type.dim = 0 /\ ref \notin TypeArrays /\ type \notin TypeArrays
          /\ ref.elem \in Linked /\ type.elem \in Linked
      BY <1>2, <1>3
    <2>2. check_instanceof(ref, type) <=>
            \/ ref.elem = type.elem
            \/ IF IsInterface(type.elem) THEN check_interfaces(ref.elem, type.elem)
               ELSE check_parent(ref.elem, type.elem)
      BY <1>3, <2>1 DEF check_instanceof
    <2>3. check_instanceof(ref, type) <=> type.elem \in Supers(ref.elem)
      BY <2>1, <2>2, ChecksDecide
    <2>4. ref.elem \in Supers(ref.elem)
      BY <2>1, SupersMember
    <2> QED BY <1>3, <2>1, <2>3, <2>4 DEF SubType
  <1>4. CASE ref.dim # 0 /\ type.dim = 0
    <2>1. type \notin TypeArrays /\ ref.dim > type.dim
      BY <1>2, <1>4
    <2> QED BY <1>4, <2>1 DEF check_instanceof, SubType
  <1>5. CASE ref.dim # 0 /\ type.dim = ref.dim /\ type \in TypeArrays
    <2>1. check_instanceof(ref, type) <=> ref \in TypeArrays
      BY <1>5 DEF check_instanceof
    <2>2. ~(ref.dim > type.dim)
      BY <1>2, <1>5
    <2>3. ref.elem = type.elem <=> ref \in TypeArrays
      BY <1>1, <1>2, <1>5
    <2> QED BY <1>5, <2>1, <2>2, <2>3 DEF SubType
  <1>6. CASE ref.dim # 0 /\ type.dim = ref.dim /\ type \notin TypeArrays
    <2>1. check_instanceof(ref, type) <=>
            /\ ref \notin TypeArrays
            /\ ref.elem = type.elem \/ check_parent(ref.elem, type.elem)
      BY <1>6 DEF check_instanceof
    <2>2. ~(ref.dim > type.dim) /\ type.elem \in Linked /\ ~IsInterface(type.elem)
      BY <1>2, <1>6 DEF IsInterface
    <2>3. CASE ref \in TypeArrays
      BY <1>1, <1>2, <2>1, <2>2, <2>3 DEF SubType
    <2>4. CASE ref \notin TypeArrays
      <3>1. ref.elem \in Linked
        BY <1>2, <2>4
      <3>2. ref.elem = type.elem \/ check_parent(ref.elem, type.elem)
              <=> type.elem \in Supers(ref.elem)
        BY <2>2, <3>1, ChecksDecide
      <3>3. ref.elem \in Supers(ref.elem)
        BY <3>1, SupersMember
      <3> QED BY <1>6, <2>1, <2>2, <2>4, <3>2, <3>3 DEF SubType
    <2> QED BY <2>3, <2>4
  <1> QED BY <1>3, <1>4, <1>5, <1>6

(* InstanceOfRight: instanceof, checkcast and the search for an exception  *)
(* handler decide the subtype relation of any hierarchy, for the types     *)
(* check_instanceof is prepared for.                                       *)
THEOREM InstanceOfDecides == Spec => []InstanceOfRight
  BY RInvInvariant, RInvHInv, InstanceOfLemma, PTL

-----------------------------------------------------------------------------
(* What the vtable holds.                                                  *)
LEMMA VTable ==
  ASSUME RInv, NEW c \in Linked, NEW s
  PROVE  LET p == klass[c].parent
         IN  /\ s \in DOMAIN klass[c].methods =>
                  /\ klass[c].methods[s] # "static" => s \in DOMAIN klass[c].vtable
                  /\ s \in DOMAIN klass[c].vtable => klass[c].vtable[s] = c
             /\ s \notin DOMAIN klass[c].methods /\ p # NoKlass =>
                  /\ s \in DOMAIN klass[c].vtable <=> s \in DOMAIN klass[p].vtable
                  /\ s \in DOMAIN klass[p].vtable =>
                       klass[c].vtable[s] = klass[p].vtable[s]
  <1> DEFINE p == klass[c].parent
             above == IF p = NoKlass THEN <<>> ELSE klass[p].vtable
  <1>1. PICK b \in Bodies :
          /\ klass[c].methods = b.methods
          /\ klass[c].vtable = vtable(c, p, b)
    BY BuiltFrom
  <1> DEFINE new == {s1 \in DOMAIN b.methods : b.methods[s1] # "static"}
  <1>2. klass[c].vtable = [s1 \in DOMAIN above \union new |->
                             IF s1 \in DOMAIN b.methods THEN c ELSE above[s1]]
    BY <1>1 DEF vtable
  <1>3. p # NoKlass => above = klass[p].vtable
    OBVIOUS
  <1>4. /\ s \in DOMAIN klass[c].vtable <=> s \in DOMAIN above \/ s \in new
        /\ s \in DOMAIN klass[c].vtable =>
             klass[c].vtable[s] = IF s \in DOMAIN b.methods THEN c ELSE above[s]
    <2> HIDE DEF above, new, p
    <2> QED BY <1>2
  <1> QED BY <1>1, <1>3, <1>4

(* An overriding method hides no overridden one from those below.          *)
LEMMA Overrides ==
  ASSUME RInv, NEW c \in Linked, ~IsInterface(c), NEW s,
         s \in DOMAIN klass[c].methods, NEW e \in Overriders(c, s)
  PROVE  klass[c].methods[s] \in {"public", "abstract"}
  <1>0. HInv
    BY RInvHInv
  <1>1. e \in Chain(c) /\ s \in DOMAIN klass[e].methods
        /\ klass[e].methods[s] \in {"public", "abstract"}
    BY DEF Overriders, Declaring
  <1>2. CASE e = c
    BY <1>1, <1>2
  <1>3. CASE e # c
    <2> DEFINE p == klass[c].parent
               is == klass[c].interfaces
    <2>1. e \in Supers(p) /\ p # NoKlass
      BY <1>0, <1>1, <1>3, ChainOfClass, ParentLinked DEF Chain
    <2>2. PICK b \in Bodies : Legal(p, is, b) /\ klass[c].methods = b.methods
      BY BuiltFrom
    <2>3. e \in UNION {Supers(x) : x \in is \union ({p} \ {NoKlass})}
      BY <2>1
    <2>4. s \in DOMAIN klass[e].methods \intersect DOMAIN b.methods
      BY <1>1, <2>2
    <2>5. klass[e].methods[s] # "private" /\ klass[e].methods[s] # "static"
            => b.methods[s] \in {"public", "abstract"}
      <3> DEFINE above == UNION {Supers(x) : x \in is \union ({p} \ {NoKlass})}
      <3> HIDE DEF p, is
      <3>1. \A d \in above :
              \A u \in DOMAIN klass[d].methods \intersect DOMAIN b.methods :
                CASE klass[d].methods[u] = "private" -> TRUE
                  [] klass[d].methods[u] = "static" -> b.methods[u] = "static"
                  [] OTHER -> b.methods[u] \in {"public", "abstract"}
        BY <2>2 DEF Legal
      <3>2. e \in above
        BY <2>3
      <3> HIDE DEF above
      <3> QED BY <2>4, <3>1, <3>2
    <2>6. klass[e].methods[s] # "private" /\ klass[e].methods[s] # "static"
      BY <1>1
    <2> QED BY <2>2, <2>5, <2>6
  <1> QED BY <1>2, <1>3

(* The declarations above a class that does not declare.                   *)
LEMMA OverridersOfClass ==
  ASSUME HInv, NEW c \in Linked, ~IsInterface(c), NEW s,
         s \notin DOMAIN klass[c].methods
  PROVE  /\ \A x : x \in Overriders(c, s) <=>
                     c # Object /\ x \in Overriders(klass[c].parent, s)
         /\ \A x : x \in Declaring(c, s) <=>
                     c # Object /\ x \in Declaring(klass[c].parent, s)
  BY ChainOfClass DEF Overriders, Declaring

(* The entry of the vtable is the overriding method.                       *)
VTableRight(c, s) ==
  Overriders(c, s) # {} =>
    /\ s \in DOMAIN klass[c].vtable
    /\ klass[c].vtable[s] \in Overriders(c, s)
    /\ \A e \in Overriders(c, s) : e \in Chain(klass[c].vtable[s])

LEMMA VTableInduction ==
  ASSUME RInv, NEW s
  PROVE  \A c \in Linked : ~IsInterface(c) => VTableRight(c, s)
  <1>0. HInv
    BY RInvHInv
  <1> DEFINE D == {c \in Linked : ~IsInterface(c) => VTableRight(c, s)}
  <1>1. ASSUME NEW c \in Linked, Direct(c) \subseteq D, ~IsInterface(c)
        PROVE  VTableRight(c, s)
    <2> SUFFICES ASSUME Overriders(c, s) # {}
                 PROVE  /\ s \in DOMAIN klass[c].vtable
                        /\ klass[c].vtable[s] \in Overriders(c, s)
                        /\ \A e \in Overriders(c, s) : e \in Chain(klass[c].vtable[s])
      BY DEF VTableRight
    <2>1. CASE s \in DOMAIN klass[c].methods
      <3>1. klass[c].methods[s] \in {"public", "abstract"}
        BY <1>1, <2>1, Overrides
      <3>2. s \in DOMAIN klass[c].vtable /\ klass[c].vtable[s] = c
        BY <2>1, <3>1, VTable
      <3>3. c \in Overriders(c, s)
        BY <1>0, <1>1, <2>1, <3>1, SupersMember DEF Overriders, Declaring, Chain
      <3>4. \A e \in Overriders(c, s) : e \in Chain(c)
        BY DEF Overriders, Declaring
      <3> QED BY <3>2, <3>3, <3>4
    <2>2. CASE s \notin DOMAIN klass[c].methods
      <3> DEFINE p == klass[c].parent
      <3>1. c # Object /\ \A x : x \in Overriders(c, s) <=> x \in Overriders(p, s)
        BY <1>0, <1>1, <2>2, OverridersOfClass
      <3>2. p # NoKlass /\ p \in Direct(c) /\ ~IsInterface(p)
        BY <1>0, <3>1, ParentLinked
      <3>3. VTableRight(p, s)
        BY <1>1, <3>2
      <3>4. Overriders(p, s) # {}
        BY <3>1
      <3>5. s \in DOMAIN klass[c].vtable /\ klass[c].vtable[s] = klass[p].vtable[s]
        BY <2>2, <3>2, <3>3, <3>4, VTable DEF VTableRight
      <3> QED BY <3>1, <3>3, <3>4, <3>5 DEF VTableRight
    <2> QED BY <2>1, <2>2
  <1>2. D = Linked
    <2> HIDE DEF D
    <2>1. D \in SUBSET Linked
      BY DEF D
    <2>2. \A d \in Linked : Direct(d) \subseteq D => d \in D
      BY <1>1 DEF D
    <2> QED BY <1>0, <2>1, <2>2, Induction
  <1> QED BY <1>2

(* It is the nearest.                                                      *)
LEMMA NearestIsLowest ==
  ASSUME HInv, NEW D \in SUBSET Linked, NEW v \in D, ~IsInterface(v),
         \A e \in D : e \in Chain(v)
  PROVE  Nearest(D) = {v}
  <1>1. v \in Nearest(D)
    <2> SUFFICES ASSUME NEW e \in D, v \in Chain(e) PROVE e = v
      BY DEF Nearest
    <2>1. e \in Supers(v) /\ v \in Supers(e) /\ v \in Linked
      BY DEF Chain
    <2> QED BY <2>1, SupersAntisymmetric
  <1>2. \A d \in Nearest(D) : d = v
    BY DEF Nearest
  <1> QED BY <1>1, <1>2

(* The recursions of get_interface_method and get_class_method.            *)
InterfaceMethod(d, s, g) ==
  LET up == FirstOf({g[i] : i \in klass[d].interfaces})
      parent == IF klass[d].parent = NoKlass THEN {stale} ELSE g[klass[d].parent]
  IN  IF s \in DOMAIN klass[d].methods THEN {d}
      ELSE (up \ {NoMethod}) \union (IF NoMethod \in up THEN parent ELSE {})

ClassMethod(d, s, g) ==
  LET up == FirstOf({get_interface_method(i, s) : i \in klass[d].interfaces})
      parent == IF klass[d].parent = NoKlass THEN {stale} ELSE g[klass[d].parent]
  IN  IF s \in DOMAIN klass[d].methods THEN {d}
      ELSE (parent \ {NoMethod}) \union (IF NoMethod \in parent THEN up ELSE {})

FromInterfaces(d, s) ==
  FirstOf({get_interface_method(i, s) : i \in klass[d].interfaces})

SearchesInterfaces(g, s) == g = [d \in Linked |-> InterfaceMethod(d, s, g)]

SearchesClasses(g, s) == g = [d \in Linked |-> ClassMethod(d, s, g)]

LEMMA FirstOfMember ==
  ASSUME NEW R, NEW x
  PROVE  x \in FirstOf(R) <=> \/ x # NoMethod /\ \E r \in R : x \in r
                              \/ x = NoMethod /\ \A r \in R : x \in r
  BY DEF FirstOf

(* As memberships.                                                         *)
LEMMA InterfaceMethodMember ==
  ASSUME NEW d, NEW s, NEW g, NEW x
  PROVE  x \in InterfaceMethod(d, s, g) <=>
           IF s \in DOMAIN klass[d].methods THEN x = d
           ELSE \/ x # NoMethod /\ \E i \in klass[d].interfaces : x \in g[i]
                \/ /\ \A i \in klass[d].interfaces : NoMethod \in g[i]
                   /\ IF klass[d].parent = NoKlass THEN x = stale
                      ELSE x \in g[klass[d].parent]
  <1> DEFINE up == FirstOf({g[i] : i \in klass[d].interfaces})
             parent == IF klass[d].parent = NoKlass THEN {stale} ELSE g[klass[d].parent]
  <1>1. \A y : y \in up <=> \/ y # NoMethod /\ \E i \in klass[d].interfaces : y \in g[i]
                            \/ y = NoMethod /\ \A i \in klass[d].interfaces : y \in g[i]
    BY FirstOfMember
  <1>2. InterfaceMethod(d, s, g) =
          IF s \in DOMAIN klass[d].methods THEN {d}
          ELSE (up \ {NoMethod}) \union (IF NoMethod \in up THEN parent ELSE {})
    BY DEF InterfaceMethod
  <1>3. x \in parent <=> IF klass[d].parent = NoKlass THEN x = stale
                         ELSE x \in g[klass[d].parent]
    OBVIOUS
  <1> HIDE DEF up, parent
  <1> QED BY <1>1, <1>2, <1>3

LEMMA ClassMethodMember ==
  ASSUME NEW d, NEW s, NEW g, NEW x
  PROVE  x \in ClassMethod(d, s, g) <=>
           IF s \in DOMAIN klass[d].methods THEN x = d
           ELSE IF klass[d].parent = NoKlass
           THEN \/ x # NoMethod /\ x = stale
                \/ NoMethod = stale /\ x \in FromInterfaces(d, s)
           ELSE \/ x # NoMethod /\ x \in g[klass[d].parent]
                \/ NoMethod \in g[klass[d].parent] /\ x \in FromInterfaces(d, s)
  <1> DEFINE up == FromInterfaces(d, s)
             parent == IF klass[d].parent = NoKlass THEN {stale} ELSE g[klass[d].parent]
  <1>1. ClassMethod(d, s, g) =
          IF s \in DOMAIN klass[d].methods THEN {d}
          ELSE (parent \ {NoMethod}) \union (IF NoMethod \in parent THEN up ELSE {})
    BY DEF ClassMethod, FromInterfaces
  <1> HIDE DEF up, parent
  <1>2. x \in ClassMethod(d, s, g) <=>
          IF s \in DOMAIN klass[d].methods THEN x = d
          ELSE \/ x # NoMethod /\ x \in parent
               \/ NoMethod \in parent /\ x \in up
    BY <1>1
  <1> QED BY <1>2 DEF up, parent

LEMMA InterfaceMethodFunction ==
  ASSUME HInv, NEW s
  PROVE  \E g : SearchesInterfaces(g, s)
  <1> DEFINE M == Linked \union {NoMethod, stale}
             V == SUBSET M
             F == [k \in Linked \X [Linked -> V] |-> InterfaceMethod(k[1], s, k[2])]
  <1>1. \A d \in Linked, g \in [Linked -> V] : F[<<d, g>>] = InterfaceMethod(d, s, g)
    OBVIOUS
  <1>2. \A d \in Linked : /\ Direct(d) \subseteq Linked
                          /\ klass[d].interfaces \subseteq Direct(d)
                          /\ klass[d].parent # NoKlass => klass[d].parent \in Direct(d)
    BY LinkingAssumption DEF HInv, Hierarchy, Direct
  <1>3. F \in [Linked \X [Linked -> V] -> V]
    <2> SUFFICES ASSUME NEW d \in Linked, NEW g \in [Linked -> V],
                        NEW x \in InterfaceMethod(d, s, g)
                 PROVE  x \in M
      OBVIOUS
    <2>1. \A e \in Direct(d) : g[e] \subseteq M
      BY <1>2
    <2> QED BY <1>2, <2>1, InterfaceMethodMember
  <1> HIDE DEF F
  <1>4. Local(V, F)
    <2> SUFFICES ASSUME NEW d \in Linked, NEW g \in [Linked -> V],
                        NEW h \in [Linked -> V], \A e \in Direct(d) : g[e] = h[e]
                 PROVE  F[<<d, g>>] = F[<<d, h>>]
      BY DEF Local
    <2>1. \A x : x \in InterfaceMethod(d, s, g) <=> x \in InterfaceMethod(d, s, h)
      <3> TAKE x
      <3>1. \A i \in klass[d].interfaces : g[i] = h[i]
        BY <1>2
      <3>2. klass[d].parent # NoKlass => g[klass[d].parent] = h[klass[d].parent]
        BY <1>2
      <3>3. /\ x \in InterfaceMethod(d, s, g) <=>
                 IF s \in DOMAIN klass[d].methods THEN x = d
                 ELSE \/ x # NoMethod /\ \E i \in klass[d].interfaces : x \in g[i]
                      \/ /\ \A i \in klass[d].interfaces : NoMethod \in g[i]
                         /\ IF klass[d].parent = NoKlass THEN x = stale
                            ELSE x \in g[klass[d].parent]
            /\ x \in InterfaceMethod(d, s, h) <=>
                 IF s \in DOMAIN klass[d].methods THEN x = d
                 ELSE \/ x # NoMethod /\ \E i \in klass[d].interfaces : x \in h[i]
                      \/ /\ \A i \in klass[d].interfaces : NoMethod \in h[i]
                         /\ IF klass[d].parent = NoKlass THEN x = stale
                            ELSE x \in h[klass[d].parent]
        BY InterfaceMethodMember
      <3> QED BY <3>1, <3>2, <3>3
    <2>2. InterfaceMethod(d, s, g) = InterfaceMethod(d, s, h)
      BY <2>1 DEF InterfaceMethod
    <2> QED BY <1>1, <2>2
  <1>5. {} \in V
    OBVIOUS
  <1> HIDE DEF V
  <1>6. PICK g \in [Linked -> V] : \A d \in Linked : g[d] = F[<<d, g>>]
    BY <1>3, <1>4, <1>5 DEF HInv, Recursive
  <1>7. SearchesInterfaces(g, s)
    BY <1>1, <1>6 DEF SearchesInterfaces
  <1> QED BY <1>7

LEMMA GetInterfaceMethod ==
  ASSUME HInv, NEW s, NEW c \in Linked, NEW x
  PROVE  x \in get_interface_method(c, s) <=>
           IF s \in DOMAIN klass[c].methods THEN x = c
           ELSE \/ x # NoMethod /\ \E i \in klass[c].interfaces :
                                     x \in get_interface_method(i, s)
                \/ /\ \A i \in klass[c].interfaces : NoMethod \in get_interface_method(i, s)
                   /\ IF klass[c].parent = NoKlass THEN x = stale
                      ELSE x \in get_interface_method(klass[c].parent, s)
  <1> DEFINE T == CHOOSE g : SearchesInterfaces(g, s)
  <1>1. SearchesInterfaces(T, s)
    BY InterfaceMethodFunction
  <1>2. \A d : get_interface_method(d, s) = T[d]
    BY DEF get_interface_method, SearchesInterfaces, InterfaceMethod
  <1> HIDE DEF T
  <1>3. T[c] = InterfaceMethod(c, s, T)
    BY <1>1 DEF SearchesInterfaces
  <1>4. x \in InterfaceMethod(c, s, T) <=>
           IF s \in DOMAIN klass[c].methods THEN x = c
           ELSE \/ x # NoMethod /\ \E i \in klass[c].interfaces : x \in T[i]
                \/ /\ \A i \in klass[c].interfaces : NoMethod \in T[i]
                   /\ IF klass[c].parent = NoKlass THEN x = stale
                      ELSE x \in T[klass[c].parent]
    BY InterfaceMethodMember
  <1> QED BY <1>2, <1>3, <1>4

LEMMA ClassMethodFunction ==
  ASSUME HInv, NEW s
  PROVE  \E g : SearchesClasses(g, s)
  <1> DEFINE M == Linked \union {NoMethod, stale}
                    \union UNION {get_interface_method(i, s) : i \in Linked}
             V == SUBSET M
             F == [k \in Linked \X [Linked -> V] |-> ClassMethod(k[1], s, k[2])]
  <1>1. \A d \in Linked, g \in [Linked -> V] : F[<<d, g>>] = ClassMethod(d, s, g)
    OBVIOUS
  <1>2. \A d \in Linked : /\ Direct(d) \subseteq Linked
                          /\ klass[d].interfaces \subseteq Linked
                          /\ klass[d].parent # NoKlass => klass[d].parent \in Direct(d)
    BY LinkingAssumption DEF HInv, Hierarchy, Direct
  <1>3. \A d \in Linked : FromInterfaces(d, s) \subseteq M
    BY <1>2, FirstOfMember DEF FromInterfaces
  <1>4. NoMethod \in M /\ stale \in M /\ Linked \subseteq M
    OBVIOUS
  <1> HIDE DEF M
  <1>6. F \in [Linked \X [Linked -> V] -> V]
    <2> SUFFICES ASSUME NEW d \in Linked, NEW g \in [Linked -> V],
                        NEW x \in ClassMethod(d, s, g)
                 PROVE  x \in M
      OBVIOUS
    <2>1. \A e \in Direct(d) : g[e] \subseteq M
      BY <1>2
    <2> QED BY <1>2, <1>3, <1>4, <2>1, ClassMethodMember
  <1> HIDE DEF F
  <1>7. Local(V, F)
    <2> SUFFICES ASSUME NEW d \in Linked, NEW g \in [Linked -> V],
                        NEW h \in [Linked -> V], \A e \in Direct(d) : g[e] = h[e]
                 PROVE  F[<<d, g>>] = F[<<d, h>>]
      BY DEF Local
    <2>1. klass[d].parent # NoKlass => g[klass[d].parent] = h[klass[d].parent]
      BY <1>2
    <2>2. ClassMethod(d, s, g) = ClassMethod(d, s, h)
      BY <2>1 DEF ClassMethod
    <2> QED BY <1>1, <2>2
  <1>8. {} \in V
    OBVIOUS
  <1> HIDE DEF V
  <1>9. PICK g \in [Linked -> V] : \A d \in Linked : g[d] = F[<<d, g>>]
    BY <1>6, <1>7, <1>8 DEF HInv, Recursive
  <1>10. SearchesClasses(g, s)
    BY <1>1, <1>9 DEF SearchesClasses
  <1> QED BY <1>10

LEMMA GetClassMethod ==
  ASSUME HInv, NEW s, NEW c \in Linked, NEW x
  PROVE  x \in get_class_method(c, s) <=>
           IF s \in DOMAIN klass[c].methods THEN x = c
           ELSE IF klass[c].parent = NoKlass
           THEN \/ x # NoMethod /\ x = stale
                \/ NoMethod = stale /\ x \in FromInterfaces(c, s)
           ELSE \/ x # NoMethod /\ x \in get_class_method(klass[c].parent, s)
                \/ /\ NoMethod \in get_class_method(klass[c].parent, s)
                   /\ x \in FromInterfaces(c, s)
  <1> DEFINE T == CHOOSE g : SearchesClasses(g, s)
  <1>1. SearchesClasses(T, s)
    BY ClassMethodFunction
  <1>2. \A d : get_class_method(d, s) = T[d]
    BY DEF get_class_method, SearchesClasses, ClassMethod
  <1> HIDE DEF T
  <1>3. T[c] = ClassMethod(c, s, T)
    BY <1>1 DEF SearchesClasses
  <1>4. x \in ClassMethod(c, s, T) <=>
           IF s \in DOMAIN klass[c].methods THEN x = c
           ELSE IF klass[c].parent = NoKlass
                THEN \/ x # NoMethod /\ x = stale
                     \/ NoMethod = stale /\ x \in FromInterfaces(c, s)
                ELSE \/ x # NoMethod /\ x \in T[klass[c].parent]
                     \/ NoMethod \in T[klass[c].parent] /\ x \in FromInterfaces(c, s)
    BY ClassMethodMember
  <1> QED BY <1>2, <1>3, <1>4

(* A class under an overriding method runs the one its vtable holds.       *)
LEMMA SelectsOverrider ==
  ASSUME RInv, NEW s
  PROVE  \A c \in Linked :
           ~IsInterface(c) /\ Overriders(c, s) # {} =>
             \A x : x \in get_class_method(c, s) <=> x = klass[c].vtable[s]
  <1>0. HInv
    BY RInvHInv
  <1> DEFINE Right(c) == ~IsInterface(c) /\ Overriders(c, s) # {} =>
               \A x : x \in get_class_method(c, s) <=> x = klass[c].vtable[s]
             D == {c \in Linked : Right(c)}
  <1>1. ASSUME NEW c \in Linked, Direct(c) \subseteq D PROVE Right(c)
    <2> SUFFICES ASSUME ~IsInterface(c), Overriders(c, s) # {}, NEW x
                 PROVE  x \in get_class_method(c, s) <=> x = klass[c].vtable[s]
      OBVIOUS
    <2>1. CASE s \in DOMAIN klass[c].methods
      <3>1. klass[c].methods[s] \in {"public", "abstract"}
        BY <2>1, Overrides
      <3>2. klass[c].vtable[s] = c
        BY <2>1, <3>1, VTable
      <3> QED BY <1>0, <2>1, <3>2, GetClassMethod
    <2>2. CASE s \notin DOMAIN klass[c].methods
      <3> DEFINE p == klass[c].parent
      <3>1. c # Object /\ \A y : y \in Overriders(c, s) <=> y \in Overriders(p, s)
        BY <1>0, <2>2, OverridersOfClass
      <3>2. p # NoKlass /\ p \in Direct(c) /\ ~IsInterface(p) /\ p \in Linked
        BY <1>0, <3>1, ParentLinked
      <3>3. Overriders(p, s) # {}
        BY <3>1
      <3>4. /\ s \in DOMAIN klass[p].vtable
            /\ klass[p].vtable[s] \in Overriders(p, s)
        BY <3>2, <3>3, VTableInduction DEF VTableRight
      <3>5. klass[c].vtable[s] = klass[p].vtable[s]
        BY <2>2, <3>2, <3>4, VTable
      <3>6. klass[p].vtable[s] # NoMethod
        <4>1. klass[p].vtable[s] \in Linked
          BY <1>0, <3>2, <3>4, SupersLinked DEF Overriders, Declaring, Chain
        <4> QED BY <1>0, <4>1, LinkingAssumption DEF HInv, Hierarchy
      <3>7. \A y : y \in get_class_method(p, s) <=> y = klass[p].vtable[s]
        BY <1>1, <3>2, <3>3
      <3>8. x \in get_class_method(c, s) <=> x # NoMethod /\ x \in get_class_method(p, s)
        BY <1>0, <2>2, <3>2, <3>6, <3>7, GetClassMethod
      <3> QED BY <3>5, <3>6, <3>7, <3>8
    <2> QED BY <2>1, <2>2
  <1>2. D = Linked
    <2> HIDE DEF D, Right
    <2>1. D \in SUBSET Linked
      BY DEF D
    <2>2. \A d \in Linked : Direct(d) \subseteq D => d \in D
      BY <1>1 DEF D
    <2> QED BY <1>0, <2>1, <2>2, Induction
  <1> QED BY <1>2

(* What a superinterface gives, when Object declares nothing: a method of  *)
(* an interface, or null when there is none.                               *)
NotFound(c, s) == \A i \in Supers(c) : IsInterface(i) => s \notin DOMAIN klass[i].methods

LEMMA InterfaceSearch ==
  ASSUME HInv, NEW s, stale = NoMethod,
         Object \in Linked => s \notin DOMAIN klass[Object].methods
  PROVE  \A c \in Linked : IsInterface(c) \/ c = Object =>
           /\ \A x \in get_interface_method(c, s) : x = NoMethod \/ x \in Defaults(c, s)
           /\ NoMethod \in get_interface_method(c, s) <=> NotFound(c, s)
           /\ get_interface_method(c, s) # {}
  <1> DEFINE G(c) == get_interface_method(c, s)
             Right(c) == IsInterface(c) \/ c = Object =>
                           /\ \A x \in G(c) : x = NoMethod \/ x \in Defaults(c, s)
                           /\ NoMethod \in G(c) <=> NotFound(c, s)
                           /\ G(c) # {}
             D == {c \in Linked : Right(c)}
  <1>0. \A c \in Linked : c # NoMethod
    BY LinkingAssumption DEF HInv, Hierarchy
  <1>1. ASSUME NEW c \in Linked, Direct(c) \subseteq D, IsInterface(c) \/ c = Object
        PROVE  /\ \A x \in G(c) : x = NoMethod \/ x \in Defaults(c, s)
               /\ NoMethod \in G(c) <=> NotFound(c, s)
               /\ G(c) # {}
    <2> DEFINE is == klass[c].interfaces
               p == klass[c].parent
    <2>1. CASE s \in DOMAIN klass[c].methods
      <3>1. IsInterface(c) /\ c \in Supers(c) /\ c # NoMethod
        BY <1>0, <1>1, <2>1, SupersMember
      <3>2. \A x : x \in G(c) <=> x = c
        BY <2>1, GetInterfaceMethod
      <3> QED BY <2>1, <3>1, <3>2 DEF Defaults, NotFound
    <2>2. CASE s \notin DOMAIN klass[c].methods
      <3>1. \A i \in is : i \in Direct(c) /\ IsInterface(i)
        BY LinkingAssumption DEF HInv, Hierarchy, Direct, IsInterface
      <3>2. IF p = NoKlass THEN c = Object ELSE p = Object /\ p \in Direct(c)
        BY <1>1, ParentLinked DEF HInv, Hierarchy
      <3>3. \A e \in Direct(c) : e \in is \/ (p # NoKlass /\ e = p)
        BY DEF Direct
      <3>4. \A e \in Direct(c) : e \in Linked /\ Right(e)
        BY <1>1, SupersMember
      <3>5. p # NoKlass => \A x : x \in G(p) <=> x = NoMethod
        <4> SUFFICES ASSUME p # NoKlass PROVE \A x : x \in G(p) <=> x = NoMethod
          OBVIOUS
        <4>1. p = Object /\ p \in Linked /\ Right(p)
          BY <3>2, <3>4
        <4>2. \A i : i \in Supers(p) <=> i = Object
          BY <4>1, ObjectOnTop
        <4>3. ~IsInterface(Object)
          BY LinkingAssumption DEF IsInterface
        <4>4. Defaults(p, s) = {} /\ NotFound(p, s)
          BY <4>2, <4>3 DEF Defaults, NotFound
        <4> QED BY <4>1, <4>4
      <3>6. \A x : x \in G(c) <=>
                     \/ x # NoMethod /\ \E i \in is : x \in G(i)
                     \/ x = NoMethod /\ \A i \in is : x \in G(i)
        <4> TAKE x
        <4>1. x \in G(c) <=>
                \/ x # NoMethod /\ \E i \in is : x \in G(i)
                \/ /\ \A i \in is : NoMethod \in G(i)
                   /\ IF p = NoKlass THEN x = stale ELSE x \in G(p)
          BY <2>2, GetInterfaceMethod
        <4> HIDE DEF G
        <4> QED BY <3>5, <4>1
      <3>7. \A i \in is : /\ \A x \in G(i) : x = NoMethod \/ x \in Defaults(i, s)
                          /\ NoMethod \in G(i) <=> NotFound(i, s)
                          /\ G(i) # {}
        BY <3>1, <3>4
      <3> HIDE DEF G
      <3>8. \A i \in is : \A x : x \in Defaults(i, s) => x \in Defaults(c, s)
        BY <3>1, SupersMember DEF Defaults
      <3>9. NotFound(c, s) <=> \A i \in is : NotFound(i, s)
        <4>1. ASSUME NotFound(c, s), NEW i \in is PROVE NotFound(i, s)
          BY <3>1, <4>1, SupersMember DEF NotFound
        <4>2. ASSUME \A i \in is : NotFound(i, s), NEW e \in Supers(c), IsInterface(e)
              PROVE  s \notin DOMAIN klass[e].methods
          <5>1. CASE e = c
            BY <2>2, <5>1
          <5>2. CASE e # c
            <6>1. PICK f \in Direct(c) : e \in Supers(f)
              BY <5>2, SupersMember
            <6>2. CASE f \in is
              BY <4>2, <6>1, <6>2 DEF NotFound
            <6>3. CASE p # NoKlass /\ f = p
              <7>1. f = Object /\ f \in Linked
                BY <3>2, <3>4, <6>1, <6>3
              <7>2. e = Object
                BY <6>1, <7>1, ObjectOnTop
              <7> QED BY <4>2, <7>2, LinkingAssumption DEF IsInterface
            <6> QED BY <3>3, <6>1, <6>2, <6>3
          <5> QED BY <5>1, <5>2
        <4> QED BY <4>1, <4>2 DEF NotFound
      <3>10. NoMethod \in G(c) <=> NotFound(c, s)
        BY <3>6, <3>7, <3>9
      <3>11. \A x \in G(c) : x = NoMethod \/ x \in Defaults(c, s)
        BY <3>6, <3>7, <3>8
      <3>12. G(c) # {}
        <4>1. CASE \A i \in is : NoMethod \in G(i)
          BY <3>6, <4>1
        <4>2. CASE \E i \in is : NoMethod \notin G(i)
          BY <3>6, <3>7, <4>2
        <4> QED BY <4>1, <4>2
      <3> QED BY <3>10, <3>11, <3>12
    <2> QED BY <2>1, <2>2
  <1>2. D = Linked
    <2> HIDE DEF D
    <2>1. D \in SUBSET Linked
      BY DEF D
    <2>2. \A d \in Linked : Direct(d) \subseteq D => d \in D
      BY <1>1 DEF D
    <2> QED BY <2>1, <2>2, Induction
  <1> QED BY <1>2

(* What a class gives when no superclass declares the method.              *)
LEMMA DefaultSearch ==
  ASSUME HInv, NEW s, stale = NoMethod
  PROVE  \A c \in Linked : ~IsInterface(c) /\ Declaring(c, s) = {} =>
           /\ \A x \in get_class_method(c, s) : x = NoMethod \/ x \in Defaults(c, s)
           /\ NoMethod \in get_class_method(c, s) <=> NotFound(c, s)
           /\ get_class_method(c, s) # {}
  <1> DEFINE C(c) == get_class_method(c, s)
             Right(c) == ~IsInterface(c) /\ Declaring(c, s) = {} =>
                           /\ \A x \in C(c) : x = NoMethod \/ x \in Defaults(c, s)
                           /\ NoMethod \in C(c) <=> NotFound(c, s)
                           /\ C(c) # {}
             D == {c \in Linked : Right(c)}
  <1>1. ASSUME NEW c \in Linked, Direct(c) \subseteq D,
               ~IsInterface(c), Declaring(c, s) = {}
        PROVE  /\ \A x \in C(c) : x = NoMethod \/ x \in Defaults(c, s)
               /\ NoMethod \in C(c) <=> NotFound(c, s)
               /\ C(c) # {}
    <2> DEFINE is == klass[c].interfaces
               p == klass[c].parent
               up == FromInterfaces(c, s)
    <2>1. s \notin DOMAIN klass[c].methods
      BY <1>1, SupersMember DEF Declaring, Chain
    <2>2. Object \in Linked => s \notin DOMAIN klass[Object].methods
      BY <1>1, ObjectOnTop, LinkingAssumption DEF Declaring, Chain, IsInterface
    <2>3. \A i \in is : i \in Direct(c) /\ i \in Linked /\ IsInterface(i)
      BY LinkingAssumption DEF HInv, Hierarchy, Direct, IsInterface
    <2>4. \A i \in is :
            /\ \A x \in get_interface_method(i, s) : x = NoMethod \/ x \in Defaults(i, s)
            /\ NoMethod \in get_interface_method(i, s) <=> NotFound(i, s)
            /\ get_interface_method(i, s) # {}
      BY <2>2, <2>3, InterfaceSearch
    <2>5. \A x : x \in up <=>
                   \/ x # NoMethod /\ \E i \in is : x \in get_interface_method(i, s)
                   \/ x = NoMethod /\ \A i \in is : x \in get_interface_method(i, s)
      BY FirstOfMember DEF FromInterfaces
    <2> HIDE DEF up
    <2>6. NoMethod \in up <=> \A i \in is : NotFound(i, s)
      BY <2>4, <2>5
    <2>7. \A x \in up : x = NoMethod \/ \E i \in is : x \in Defaults(i, s)
      BY <2>4, <2>5
    <2>8. up # {}
      <3>1. CASE \A i \in is : NoMethod \in get_interface_method(i, s)
        BY <2>5, <3>1
      <3>2. CASE \E i \in is : NoMethod \notin get_interface_method(i, s)
        BY <2>4, <2>5, <3>2
      <3> QED BY <3>1, <3>2
    <2>9. \A i \in is : \A x : x \in Defaults(i, s) => x \in Defaults(c, s)
      BY <2>3, SupersMember DEF Defaults
    <2>10. \A x : x \in C(c) <=>
             IF p = NoKlass
             THEN \/ x # NoMethod /\ x = stale
                  \/ NoMethod = stale /\ x \in up
             ELSE \/ x # NoMethod /\ x \in C(p)
                  \/ NoMethod \in C(p) /\ x \in up
      BY <2>1, GetClassMethod DEF up
    <2> HIDE DEF C
    <2>11. CASE p = NoKlass
      <3>1. \A x : x \in C(c) <=> x \in up
        BY <2>10, <2>11
      <3>2. c = Object /\ is = {}
        BY <2>11, ParentLinked DEF HInv, Hierarchy
      <3>3. NotFound(c, s)
        BY <1>1, <3>2, ObjectOnTop DEF NotFound
      <3> QED BY <2>6, <2>7, <2>8, <2>9, <3>1, <3>2, <3>3
    <2>12. CASE p # NoKlass
      <3>1. c # Object /\ p \in Linked /\ p \in Direct(c) /\ ~IsInterface(p)
        BY <2>12, ParentLinked
      <3>2. Declaring(p, s) = {}
        BY <1>1, <2>1, <3>1, OverridersOfClass
      <3>3. /\ \A x \in C(p) : x = NoMethod \/ x \in Defaults(p, s)
            /\ NoMethod \in C(p) <=> NotFound(p, s)
            /\ C(p) # {}
        BY <1>1, <3>1, <3>2 DEF C
      <3>4. \A x : x \in Defaults(p, s) => x \in Defaults(c, s)
        BY <3>1, SupersMember DEF Defaults
      <3>5. NotFound(c, s) <=> NotFound(p, s) /\ \A i \in is : NotFound(i, s)
        <4>1. \A e \in Direct(c) : e = p \/ e \in is
          BY DEF Direct
        <4>2. \A x : x \in Supers(c) <=> \/ x = c
                                         \/ x \in Supers(p)
                                         \/ \E i \in is : x \in Supers(i)
          BY <2>3, <3>1, <4>1, SupersMember
        <4> HIDE DEF is, p
        <4> QED BY <1>1, <4>2 DEF NotFound
      <3>6. NoMethod \in C(c) <=> NotFound(c, s)
        BY <2>6, <2>10, <2>12, <3>3, <3>5
      <3>7. \A x \in C(c) : x = NoMethod \/ x \in Defaults(c, s)
        BY <2>7, <2>9, <2>10, <2>12, <3>3, <3>4
      <3>8. C(c) # {}
        <4>1. CASE NoMethod \in C(p)
          BY <2>8, <2>10, <2>12, <4>1
        <4>2. CASE NoMethod \notin C(p)
          BY <2>10, <2>12, <3>3, <4>2
        <4> QED BY <4>1, <4>2
      <3> QED BY <3>6, <3>7, <3>8
    <2> QED BY <2>11, <2>12
  <1>2. D = Linked
    <2> HIDE DEF D
    <2>1. D \in SUBSET Linked
      BY DEF D
    <2>2. \A d \in Linked : Direct(d) \subseteq D => d \in D
      BY <1>1 DEF D
    <2> QED BY <2>1, <2>2, Induction
  <1> QED BY <1>2

LEMMA SelectionLemma == RInv => SelectionRight
  <1> SUFFICES ASSUME RInv, NEW c \in Linked \ InterfaceNames, NEW s \in MethodSigs
               PROVE
                 /\ Overriders(c, s) # {} =>
                      \A instruction \in {"invokevirtual", "invokeinterface"} :
                        Selected(instruction, c, s) = Nearest(Overriders(c, s))
                 /\ Declaring(c, s) = {} /\ Defaults(c, s) # {} /\ stale = NoMethod =>
                      /\ Selected("invokeinterface", c, s) # {}
                      /\ Selected("invokeinterface", c, s) \subseteq Defaults(c, s)
    BY DEF SelectionRight
  <1>0. HInv /\ ~IsInterface(c)
    BY RInvHInv DEF IsInterface
  <1>1. ASSUME Overriders(c, s) # {},
               NEW instruction \in {"invokevirtual", "invokeinterface"}
        PROVE  Selected(instruction, c, s) = Nearest(Overriders(c, s))
    <2> DEFINE v == klass[c].vtable[s]
    <2>1. /\ s \in DOMAIN klass[c].vtable
          /\ v \in Overriders(c, s)
          /\ \A e \in Overriders(c, s) : e \in Chain(v)
      BY <1>0, <1>1, VTableInduction DEF VTableRight
    <2>2. Overriders(c, s) \subseteq Linked /\ ~IsInterface(v)
      BY <1>0, <2>1, SupersLinked DEF Overriders, Declaring, Chain
    <2>3. Nearest(Overriders(c, s)) = {v}
      <3> HIDE DEF v
      <3> QED BY <1>0, <2>1, <2>2, NearestIsLowest
    <2>4. CASE instruction = "invokevirtual"
      <3>1. Selected(instruction, c, s) = {v}
        BY <2>1, <2>4 DEF Selected, search_vtable
      <3> QED BY <2>3, <3>1
    <2>5. CASE instruction = "invokeinterface"
      <3>1. \A x : x \in get_class_method(c, s) <=> x = v
        BY <1>0, <1>1, SelectsOverrider
      <3>2. Selected(instruction, c, s) = get_class_method(c, s)
        BY <2>5 DEF Selected
      <3> QED BY <2>3, <3>1, <3>2
    <2> QED BY <2>4, <2>5
  <1>2. ASSUME Declaring(c, s) = {}, Defaults(c, s) # {}, stale = NoMethod
        PROVE  /\ Selected("invokeinterface", c, s) # {}
               /\ Selected("invokeinterface", c, s) \subseteq Defaults(c, s)
    <2>1. Selected("invokeinterface", c, s) = get_class_method(c, s)
      BY DEF Selected
    <2>2. /\ \A x \in get_class_method(c, s) : x = NoMethod \/ x \in Defaults(c, s)
          /\ NoMethod \in get_class_method(c, s) <=> NotFound(c, s)
          /\ get_class_method(c, s) # {}
      BY <1>0, <1>2, DefaultSearch
    <2>3. ~NotFound(c, s)
      BY <1>2 DEF NotFound, Defaults
    <2> QED BY <2>1, <2>2, <2>3
  <1> QED BY <1>1, <1>2

(* SelectionRight: in any hierarchy the compiler accepts, invokevirtual    *)
(* and invokeinterface run the overriding method nearest to the object's   *)
(* class, whatever the uninitialised pointer of get_class_method holds,    *)
(* and a default method when there is none and that pointer is null.       *)
THEOREM SelectionOverrides == Spec => []SelectionRight
  BY RInvInvariant, SelectionLemma, PTL

-----------------------------------------------------------------------------
(* The resolution of fields.  get_field recurs over two classes: at which  *)
(* it is, and this, in whose layout it looks.                              *)
Hit(this, at, s) ==
  \/ <<at, s>> \in DOMAIN klass[this].fields_layout
  \/ s \in DOMAIN klass[at].static_fields_layout

FieldSearch(k, s, search) ==
  LET this == k[1]
      at == k[2]
      up == UNION {search[<<i, i>>] : i \in klass[at].interfaces}
  IN  IF \/ <<at, s>> \in DOMAIN klass[this].fields_layout
         \/ s \in DOMAIN klass[at].static_fields_layout THEN {at}
      ELSE IF up # {} THEN up
      ELSE IF klass[at].parent = NoKlass THEN {}
      ELSE search[<<this, klass[at].parent>>]

SearchesFields(search, s) ==
  search = [k \in Linked \X Linked |-> FieldSearch(k, s, search)]

(* The same with one function for every class it is at, of this.           *)
FieldsAbove(at, s, g) ==
  [this \in Linked |->
     IF Hit(this, at, s) THEN {at}
     ELSE LET up == UNION {g[i][i] : i \in klass[at].interfaces}
          IN  IF up # {} THEN up
              ELSE IF klass[at].parent = NoKlass THEN {}
              ELSE g[klass[at].parent][this]]

LEMMA FieldSearchFunction ==
  ASSUME HInv, NEW s
  PROVE  \E search : SearchesFields(search, s)
  <1> DEFINE V == [Linked -> SUBSET Linked]
             F == [k \in Linked \X [Linked -> V] |-> FieldsAbove(k[1], s, k[2])]
  <1>1. \A at \in Linked, g \in [Linked -> V] : F[<<at, g>>] = FieldsAbove(at, s, g)
    OBVIOUS
  <1>2. \A d \in Linked : /\ Direct(d) \subseteq Linked
                          /\ klass[d].interfaces \subseteq Direct(d)
                          /\ klass[d].parent # NoKlass => klass[d].parent \in Direct(d)
    BY LinkingAssumption DEF HInv, Hierarchy, Direct
  <1>3. F \in [Linked \X [Linked -> V] -> V]
    <2> SUFFICES ASSUME NEW at \in Linked, NEW g \in [Linked -> V]
                 PROVE  FieldsAbove(at, s, g) \in V
      OBVIOUS
    <2> DEFINE up == UNION {g[i][i] : i \in klass[at].interfaces}
    <2>1. up \subseteq Linked
      <3>1. \A i \in klass[at].interfaces : g[i][i] \subseteq Linked
        BY <1>2
      <3> QED BY <3>1
    <2>2. klass[at].parent # NoKlass =>
            \A this \in Linked : g[klass[at].parent][this] \subseteq Linked
      BY <1>2
    <2>3. FieldsAbove(at, s, g) =
            [this \in Linked |->
               IF Hit(this, at, s) THEN {at}
               ELSE IF up # {} THEN up
               ELSE IF klass[at].parent = NoKlass THEN {}
               ELSE g[klass[at].parent][this]]
      BY DEF FieldsAbove
    <2> HIDE DEF up
    <2> QED BY <2>1, <2>2, <2>3
  <1> HIDE DEF F
  <1>4. Local(V, F)
    <2> SUFFICES ASSUME NEW d \in Linked, NEW g \in [Linked -> V],
                        NEW h \in [Linked -> V], \A e \in Direct(d) : g[e] = h[e]
                 PROVE  F[<<d, g>>] = F[<<d, h>>]
      BY DEF Local
    <2>1. {g[i][i] : i \in klass[d].interfaces} = {h[i][i] : i \in klass[d].interfaces}
      BY <1>2
    <2>2. klass[d].parent # NoKlass => g[klass[d].parent] = h[klass[d].parent]
      BY <1>2
    <2>3. FieldsAbove(d, s, g) = FieldsAbove(d, s, h)
      BY <2>1, <2>2 DEF FieldsAbove
    <2> QED BY <1>1, <2>3
  <1>5. [this \in Linked |-> {}] \in V
    OBVIOUS
  <1> HIDE DEF V
  <1>6. PICK g \in [Linked -> V] : \A d \in Linked : g[d] = F[<<d, g>>]
    BY <1>3, <1>4, <1>5 DEF HInv, Recursive
  <1> DEFINE search == [k \in Linked \X Linked |-> g[k[2]][k[1]]]
  <1>7. \A this, at \in Linked : search[<<this, at>>] = g[at][this]
    OBVIOUS
  <1>8. ASSUME NEW k \in Linked \X Linked
        PROVE  g[k[2]][k[1]] = FieldSearch(k, s, search)
    <2> DEFINE this == k[1]
               at == k[2]
               up == UNION {g[i][i] : i \in klass[at].interfaces}
    <2>1. this \in Linked /\ at \in Linked
      OBVIOUS
    <2>2. {search[<<i, i>>] : i \in klass[at].interfaces}
            = {g[i][i] : i \in klass[at].interfaces}
      <3>1. \A i \in klass[at].interfaces : search[<<i, i>>] = g[i][i]
        BY <1>2, <1>7, <2>1
      <3> HIDE DEF search
      <3> QED BY <3>1
    <2>3. klass[at].parent # NoKlass =>
            search[<<this, klass[at].parent>>] = g[klass[at].parent][this]
      BY <1>2, <1>7, <2>1
    <2>4. g[at] = FieldsAbove(at, s, g)
      BY <1>1, <1>6, <2>1
    <2>5. g[at][this] = IF Hit(this, at, s) THEN {at}
                        ELSE IF up # {} THEN up
                        ELSE IF klass[at].parent = NoKlass THEN {}
                        ELSE g[klass[at].parent][this]
      BY <2>1, <2>4 DEF FieldsAbove
    <2> HIDE DEF search
    <2> QED BY <2>2, <2>3, <2>5 DEF FieldSearch, Hit
  <1>9. SearchesFields(search, s)
    <2>1. search = [k \in Linked \X Linked |-> g[k[2]][k[1]]]
      OBVIOUS
    <2> HIDE DEF search
    <2> QED BY <1>8, <2>1 DEF SearchesFields
  <1> QED BY <1>9

(* What get_field(this) finds from at on.                                  *)
FieldsFound(this, at, s) == (CHOOSE search : SearchesFields(search, s))[<<this, at>>]

LEMMA GetField ==
  ASSUME HInv, NEW s
  PROVE  \A c \in Linked : get_field(c, s) = FieldsFound(c, c, s)
  BY DEF get_field, FieldsFound, SearchesFields, FieldSearch

FromSuperinterfaces(at, s) == UNION {FieldsFound(i, i, s) : i \in klass[at].interfaces}

LEMMA FieldsFoundUnfold ==
  ASSUME HInv, NEW s, NEW this \in Linked, NEW at \in Linked
  PROVE  FieldsFound(this, at, s) =
           IF Hit(this, at, s) THEN {at}
           ELSE IF FromSuperinterfaces(at, s) # {} THEN FromSuperinterfaces(at, s)
           ELSE IF klass[at].parent = NoKlass THEN {}
           ELSE FieldsFound(this, klass[at].parent, s)
  <1> DEFINE T == CHOOSE search : SearchesFields(search, s)
  <1>1. SearchesFields(T, s)
    BY FieldSearchFunction
  <1>2. \A c, d : FieldsFound(c, d, s) = T[<<c, d>>]
    BY DEF FieldsFound
  <1> HIDE DEF T
  <1>3. T[<<this, at>>] = FieldSearch(<<this, at>>, s, T)
    BY <1>1 DEF SearchesFields
  <1>4. FromSuperinterfaces(at, s) = UNION {T[<<i, i>>] : i \in klass[at].interfaces}
    BY <1>2 DEF FromSuperinterfaces
  <1>5. FieldSearch(<<this, at>>, s, T) =
          IF Hit(this, at, s) THEN {at}
          ELSE IF FromSuperinterfaces(at, s) # {} THEN FromSuperinterfaces(at, s)
          ELSE IF klass[at].parent = NoKlass THEN {}
          ELSE T[<<this, klass[at].parent>>]
    BY <1>4 DEF FieldSearch, Hit
  <1> QED BY <1>2, <1>3, <1>5

(* Looking in the layout of this is as good as looking in that of the      *)
(* superclass.                                                             *)
LEMMA HitDeclares ==
  ASSUME RInv, NEW s, NEW this \in Linked, NEW at \in Chain(this) \union {this}
  PROVE  Hit(this, at, s) <=> DeclaresField(at, s)
  <1>1. CASE at = this
    BY <1>1 DEF Hit, DeclaresField
  <1>2. CASE at \in Chain(this)
    <2>1. <<at, s>> \in DOMAIN Layout(at) => <<at, s>> \in DOMAIN Layout(this)
      BY <1>2, ChainLayout
    <2>2. <<at, s>> \in DOMAIN Layout(this) => <<at, s>> \in DOMAIN Layout(at)
      <3>1. ASSUME NEW k \in DOMAIN Layout(this) PROVE k \in DOMAIN Layout(k[1])
        BY LayoutInduction DEF LaidOut
      <3>2. <<at, s>>[1] = at
        OBVIOUS
      <3> QED BY <3>1, <3>2
    <2> QED BY <2>1, <2>2 DEF Hit, DeclaresField, Layout
  <1> QED BY <1>1, <1>2

(* Object declares no field.                                               *)
LEMMA ObjectHasNoField ==
  ASSUME RInv, Object \in Linked, NEW s
  PROVE  ~DeclaresField(Object, s)
  <1>1. DOMAIN Layout(Object) = {}
    BY LayoutInduction DEF LaidOut
  <1>2. PICK b \in Bodies : /\ Members(Object, b)
                            /\ klass[Object].static_fields_layout = static_fields_layout(b)
                            /\ b.statics \in Seq(FieldSigs)
    BY BuiltFrom
  <1>3. b.statics = <<>>
    BY <1>2, LinkingAssumption DEF Members, IsInterface
  <1>4. DOMAIN klass[Object].static_fields_layout = {}
    BY <1>2, <1>3, StaticLayout
  <1> QED BY <1>1, <1>4 DEF DeclaresField, Layout

(* The search finds a declaration of the field above, if there is one.     *)
Above(at, s) == {d \in Supers(at) : DeclaresField(d, s)}

LEMMA FieldsFoundDeclare ==
  ASSUME RInv, NEW s
  PROVE  \A at \in Linked : \A this \in Linked :
           at \in Chain(this) \union {this} =>
             /\ FieldsFound(this, at, s) \subseteq Above(at, s)
             /\ FieldsFound(this, at, s) = {} <=> Above(at, s) = {}
  <1>0. HInv
    BY RInvHInv
  <1> DEFINE Right(at) == \A this \in Linked :
               at \in Chain(this) \union {this} =>
                 /\ FieldsFound(this, at, s) \subseteq Above(at, s)
                 /\ FieldsFound(this, at, s) = {} <=> Above(at, s) = {}
             D == {at \in Linked : Right(at)}
  <1>1. ASSUME NEW at \in Linked, Direct(at) \subseteq D,
               NEW this \in Linked, at \in Chain(this) \union {this}
        PROVE  /\ FieldsFound(this, at, s) \subseteq Above(at, s)
               /\ FieldsFound(this, at, s) = {} <=> Above(at, s) = {}
    <2> DEFINE is == klass[at].interfaces
               p == klass[at].parent
               up == FromSuperinterfaces(at, s)
    <2>1. FieldsFound(this, at, s) =
            IF DeclaresField(at, s) THEN {at}
            ELSE IF up # {} THEN up
            ELSE IF p = NoKlass THEN {}
            ELSE FieldsFound(this, p, s)
      BY <1>0, <1>1, FieldsFoundUnfold, HitDeclares
    <2>2. CASE DeclaresField(at, s)
      <3>1. at \in Above(at, s)
        BY <1>0, <2>2, SupersMember DEF Above
      <3> QED BY <2>1, <2>2, <3>1
    <2>3. CASE ~DeclaresField(at, s)
      <3>1. \A i \in is : i \in Direct(at) /\ i \in Linked
        BY <1>0, LinkingAssumption DEF HInv, Hierarchy, Direct
      <3>2. \A i \in is : /\ FieldsFound(i, i, s) \subseteq Above(i, s)
                          /\ FieldsFound(i, i, s) = {} <=> Above(i, s) = {}
        BY <1>1, <3>1
      <3>3. \A x : x \in up <=> \E i \in is : x \in FieldsFound(i, i, s)
        BY DEF FromSuperinterfaces
      <3> HIDE DEF up
      <3>4. \A x : x \in Above(at, s) <=>
                     \/ \E i \in is : x \in Above(i, s)
                     \/ p # NoKlass /\ x \in Above(p, s)
        <4>1. \A e : e \in Direct(at) <=> e \in is \/ (p # NoKlass /\ e = p)
          BY <3>1, <1>0, LinkingAssumption DEF HInv, Hierarchy, Direct
        <4>2. \A x : x \in Supers(at) <=>
                       \/ x = at
                       \/ \E i \in is : x \in Supers(i)
                       \/ p # NoKlass /\ x \in Supers(p)
          BY <1>0, <4>1, SupersMember
        <4> HIDE DEF is, p
        <4> QED BY <2>3, <4>2 DEF Above
      <3>5. CASE p = NoKlass
        BY <2>1, <2>3, <3>2, <3>3, <3>4, <3>5
      <3>6. CASE p # NoKlass
        <4>1. p \in Linked /\ p \in Direct(at) /\ ~IsInterface(p)
          BY <1>0, <3>6, ParentLinked
        <4>2. p \in Chain(this)
          <5>1. at \in Supers(this)
            BY <1>0, <1>1, SupersMember DEF Chain
          <5>2. p \in Supers(at)
            BY <1>0, <4>1, SupersMember
          <5> QED BY <1>0, <4>1, <5>1, <5>2, SupersTransitive DEF Chain
        <4>3. /\ FieldsFound(this, p, s) \subseteq Above(p, s)
              /\ FieldsFound(this, p, s) = {} <=> Above(p, s) = {}
          BY <1>1, <4>1, <4>2
        <4>4. CASE up = {}
          BY <2>1, <2>3, <3>2, <3>3, <3>4, <3>6, <4>3, <4>4
        <4>5. CASE up # {}
          BY <2>1, <2>3, <3>2, <3>3, <3>4, <4>5
        <4> QED BY <4>4, <4>5
      <3> QED BY <3>5, <3>6
    <2> QED BY <2>2, <2>3
  <1>2. D = Linked
    <2> HIDE DEF D, Right
    <2>1. D \in SUBSET Linked
      BY DEF D
    <2>2. \A d \in Linked : Direct(d) \subseteq D => d \in D
      BY <1>1 DEF D, Right
    <2> QED BY <1>0, <2>1, <2>2, Induction
  <1> QED BY <1>2

(* The fields of the superinterfaces that a class names.                   *)
OwnFields(d, s) ==
  {i \in UNION {Supers(j) : j \in klass[d].interfaces} :
     IsInterface(i) /\ DeclaresField(i, s)}

Levels(c, s) == {d \in Chain(c) : DeclaresField(d, s) \/ OwnFields(d, s) # {}}

LEMMA SuperinterfacesFound ==
  ASSUME RInv, NEW s, NEW at \in Linked
  PROVE  /\ FromSuperinterfaces(at, s) \subseteq OwnFields(at, s)
         /\ FromSuperinterfaces(at, s) = {} <=> OwnFields(at, s) = {}
  <1>0. HInv
    BY RInvHInv
  <1> DEFINE is == klass[at].interfaces
  <1>1. \A i \in is : i \in Linked /\ IsInterface(i)
    BY <1>0 DEF HInv, Hierarchy, IsInterface
  <1>2. \A i \in is : /\ FieldsFound(i, i, s) \subseteq Above(i, s)
                      /\ FieldsFound(i, i, s) = {} <=> Above(i, s) = {}
    BY <1>1, FieldsFoundDeclare
  <1>3. ASSUME NEW i \in is, NEW x \in Above(i, s) PROVE IsInterface(x)
    <2>1. x \in Chain(i) => x = Object
      BY <1>0, <1>1, <1>3, ChainOfInterface
    <2>2. x # Object
      BY <1>0, <1>1, <1>3, ObjectOnTop, ObjectHasNoField DEF Above
    <2> QED BY <1>3, <2>1, <2>2 DEF Above, Chain
  <1>4. \A x : x \in FromSuperinterfaces(at, s) <=> \E i \in is : x \in FieldsFound(i, i, s)
    BY DEF FromSuperinterfaces
  <1>5. \A x : x \in OwnFields(at, s) <=> \E i \in is : x \in Above(i, s)
    BY <1>3 DEF OwnFields, Above
  <1> HIDE DEF is
  <1> QED BY <1>2, <1>4, <1>5

(* The declaration found is the nearest.                                   *)
NearestFound(this, at, s) ==
  \A d \in Nearest(Levels(at, s)) :
    IF DeclaresField(d, s) THEN FieldsFound(this, at, s) = {d}
    ELSE FieldsFound(this, at, s) \subseteq OwnFields(d, s)

LEMMA FieldsFoundNearest ==
  ASSUME RInv, NEW s
  PROVE  \A at \in Linked : ~IsInterface(at) =>
           \A this \in Linked : at \in Chain(this) => NearestFound(this, at, s)
  <1>0. HInv
    BY RInvHInv
  <1> DEFINE Right(at) == ~IsInterface(at) =>
               \A this \in Linked : at \in Chain(this) => NearestFound(this, at, s)
             D == {at \in Linked : Right(at)}
  <1>1. ASSUME NEW at \in Linked, Direct(at) \subseteq D, ~IsInterface(at),
               NEW this \in Linked, at \in Chain(this)
        PROVE  NearestFound(this, at, s)
    <2> DEFINE p == klass[at].parent
               up == FromSuperinterfaces(at, s)
    <2>1. FieldsFound(this, at, s) =
            IF DeclaresField(at, s) THEN {at}
            ELSE IF up # {} THEN up
            ELSE IF p = NoKlass THEN {}
            ELSE FieldsFound(this, p, s)
      BY <1>0, <1>1, FieldsFoundUnfold, HitDeclares
    <2>2. up \subseteq OwnFields(at, s) /\ (up = {} <=> OwnFields(at, s) = {})
      BY SuperinterfacesFound
    <2>3. CASE at \in Levels(at, s)
      <3>1. \A d \in Nearest(Levels(at, s)) : d = at
        BY <2>3 DEF Nearest, Levels
      <3>2. IF DeclaresField(at, s) THEN FieldsFound(this, at, s) = {at}
            ELSE FieldsFound(this, at, s) \subseteq OwnFields(at, s)
        BY <2>1, <2>2, <2>3 DEF Levels
      <3> QED BY <3>1, <3>2 DEF NearestFound
    <2>4. CASE at \notin Levels(at, s)
      <3>1. at \in Chain(at)
        BY <1>0, <1>1, ChainOfClass
      <3>2. ~DeclaresField(at, s) /\ OwnFields(at, s) = {}
        BY <2>4, <3>1 DEF Levels
      <3>3. CASE at = Object
        <4>1. Levels(at, s) = {}
          BY <1>0, <1>1, <2>4, <3>3, ChainOfClass DEF Levels
        <4> QED BY <4>1 DEF NearestFound, Nearest
      <3>4. CASE at # Object
        <4>1. /\ p # NoKlass /\ p \in Linked /\ p \in Direct(at) /\ ~IsInterface(p)
          BY <1>0, <3>4, ParentLinked
        <4>2. Levels(at, s) = Levels(p, s)
          <5>1. \A x : x \in Levels(at, s) <=> x \in Levels(p, s)
            BY <1>0, <1>1, <3>2, <3>4, ChainOfClass DEF Levels
          <5>2. Levels(at, s) \subseteq Levels(p, s) /\ Levels(p, s) \subseteq Levels(at, s)
            BY <5>1
          <5> QED BY <5>2
        <4>3. FieldsFound(this, at, s) = FieldsFound(this, p, s)
          BY <2>1, <2>2, <3>2, <4>1
        <4>4. p \in Chain(this)
          BY <1>0, <1>1, <4>1, SupersMember, SupersTransitive DEF Chain
        <4>5. NearestFound(this, p, s)
          BY <1>1, <4>1, <4>4
        <4> QED BY <4>2, <4>3, <4>5 DEF NearestFound
      <3> QED BY <3>3, <3>4
    <2> QED BY <2>3, <2>4
  <1>2. D = Linked
    <2> HIDE DEF D, Right
    <2>1. D \in SUBSET Linked
      BY DEF D
    <2>2. \A d \in Linked : Direct(d) \subseteq D => d \in D
      BY <1>1 DEF D, Right
    <2> QED BY <1>0, <2>1, <2>2, Induction
  <1> QED BY <1>2

LEMMA FieldsLemma == RInv => FieldsResolve
  <1> SUFFICES ASSUME RInv, NEW c \in Linked, NEW s \in FieldSigs
               PROVE
                 LET found == get_field(c, s)
                 IN  /\ found = {} <=> \A d \in Supers(c) : ~DeclaresField(d, s)
                     /\ \A f \in found : f \in Supers(c) /\ DeclaresField(f, s)
                     /\ ~IsInterface(c) =>
                          \A d \in Nearest(Levels(c, s)) :
                            IF DeclaresField(d, s) THEN found = {d}
                            ELSE found \subseteq OwnFields(d, s)
    BY DEF FieldsResolve, Levels, OwnFields
  <1>1. HInv /\ get_field(c, s) = FieldsFound(c, c, s)
    BY RInvHInv, GetField
  <1>2. /\ FieldsFound(c, c, s) \subseteq Above(c, s)
        /\ FieldsFound(c, c, s) = {} <=> Above(c, s) = {}
    BY FieldsFoundDeclare
  <1>3. Above(c, s) = {} <=> \A d \in Supers(c) : ~DeclaresField(d, s)
    BY DEF Above
  <1>4. ASSUME ~IsInterface(c) PROVE NearestFound(c, c, s)
    <2>1. c \in Chain(c)
      BY <1>1, <1>4, ChainOfClass
    <2> QED BY <1>4, <2>1, FieldsFoundNearest
  <1> QED BY <1>1, <1>2, <1>3, <1>4 DEF Above, NearestFound

(* FieldsResolve: in any hierarchy, get_field finds a field when and only  *)
(* when a supertype declares one, and the one JVMS 5.4.3.2 asks for.       *)
THEOREM FieldsAreResolved == Spec => []FieldsResolve
  BY RInvInvariant, FieldsLemma, PTL
=============================================================================
