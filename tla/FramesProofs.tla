---------------------------- MODULE FramesProofs ----------------------------
(***************************************************************************)
(* Proofs about Frames, for every set of exceptions and every bound on the *)
(* depth of the stack and on the monitors of a frame.                      *)
(*                                                                         *)
(* The inductive invariant links each frame with the one it has called     *)
(* (Link): the history variable base adds up the monitors, the saved pc    *)
(* points into the caller, and the kind of the caller decides who gets the *)
(* result.                                                                 *)
(***************************************************************************)
EXTENDS Frames, SequenceTheorems, TLAPS

(* A frame with a monitor, or of a <clinit> that must not throw, catches   *)
(* everything where it calls or throws.                                    *)
Guarded(f) ==
  f.locks > 0 \/ (f.site = "clinit" /\ ~ClinitsThrow) => f.catches = Exceptions

PcFor(i, f) == IF f.kind = "java" THEN i ELSE 0

(* f is the i-th frame and g the one it has called.                        *)
Link(i, f, g) ==
  /\ g.base = f.base + Owned(f)
  /\ g.ret = PcFor(i, f)
  /\ g.site = "invoke" => Guarded(f)
  /\ g.site # "bottom"
  /\ g.site = "native" <=> f.kind = "native"
  /\ g.site = "dispatch" => i = 1 /\ f.locks = 0

Native(f) == f.kind = "native" => f.locks = 0 /\ f.site = "invoke"

Bottom(f) ==
  /\ f.kind = "java" /\ f.site = "bottom"
  /\ f.base = 0 /\ ~f.sync /\ f.ret = 1

Unsynced(f) == f.site # "invoke" => ~f.sync

Chain(s) ==
  /\ Bottom(s[1])
  /\ \A i \in 1 .. Len(s) : Native(s[i]) /\ Unsynced(s[i])
  /\ \A i \in 1 .. Len(s) : i # Len(s) => Link(i, s[i], s[i + 1])

TopOK ==
  /\ monitorNum = Cur.base + Owned(Cur)
  /\ status \in {"alive", "aborted"} => pc = PcFor(Depth, Cur)
  /\ exc # None => Cur.kind = "java" /\ Guarded(Cur)
  /\ status \in {"done", "uncaught"} => Cur.locks = 0
  /\ status = "done" => Depth = 1
  /\ status = "uncaught" => Cur.site = "dispatch"

IInv == TypeOK /\ Chain(frames) /\ TopOK

(* What a step does: it keeps the invariant, and a frame that goes has     *)
(* given back its monitors.                                                *)
Kept ==
  /\ IInv'
  /\ Len(frames') < Len(frames) => monitorNum' = Cur.base

-----------------------------------------------------------------------------
(* Sequences of frames.                                                    *)
LEMMA WithSeq ==
  ASSUME NEW s \in Seq(Frame), NEW n \in 1 .. Len(s), NEW f \in Frame
  PROVE  /\ With(s, n, f) \in Seq(Frame)
         /\ Len(With(s, n, f)) = Len(s)
         /\ With(s, n, f)[n] = f
         /\ \A i \in 1 .. Len(s) : i # n => With(s, n, f)[i] = s[i]
BY DEF With

LEMMA AppendSeq ==
  ASSUME NEW s \in Seq(Frame), NEW f \in Frame
  PROVE  /\ Append(s, f) \in Seq(Frame)
         /\ Len(Append(s, f)) = Len(s) + 1
         /\ Append(s, f)[Len(s) + 1] = f
         /\ \A i \in 1 .. Len(s) : Append(s, f)[i] = s[i]
OBVIOUS

LEMMA PoppedSeq ==
  ASSUME NEW s \in Seq(Frame), NEW n \in Nat, n = Len(s) - 1
  PROVE  /\ SubSeq(s, 1, n) \in Seq(Frame)
         /\ Len(SubSeq(s, 1, n)) = n
         /\ \A i \in 1 .. n : SubSeq(s, 1, n)[i] = s[i]
<1>1. \A i \in 1 .. n : s[i] \in Frame
  OBVIOUS
<1>2. 1 \in Int /\ n \in Int
  OBVIOUS
<1>3. /\ SubSeq(s, 1, n) \in Seq(Frame)
      /\ Len(SubSeq(s, 1, n)) = (IF 1 <= n THEN n - 1 + 1 ELSE 0)
      /\ \A i \in 1 .. n - 1 + 1 : SubSeq(s, 1, n)[i] = s[1 + i - 1]
  BY ONLY <1>1, <1>2, SubSeqProperties, SMTT(30)
<1>4. n - 1 + 1 = n /\ (IF 1 <= n THEN n ELSE 0) = n
  OBVIOUS
<1>5. \A i \in 1 .. n : 1 + i - 1 = i
  OBVIOUS
<1>6. Len(SubSeq(s, 1, n)) = n
  BY <1>3, <1>4, Zenon
<1>7. \A i \in 1 .. n : SubSeq(s, 1, n)[i] = s[i]
  BY <1>3, <1>4, <1>5, Zenon
<1> QED
  BY <1>3, <1>6, <1>7, Zenon

LEMMA TopExists ==
  ASSUME TypeOK
  PROVE  /\ Depth \in Nat \ {0}
         /\ Depth \in 1 .. Depth
         /\ 1 \in 1 .. Depth
         /\ frames \in Seq(Frame)
         /\ \A i \in 1 .. Depth : frames[i] \in Frame
         /\ Cur = frames[Depth]
         /\ Cur \in Frame
         /\ DOMAIN frames = 1 .. Depth
<1>1. frames \in Seq(Frame) /\ frames # <<>>
  BY DEF TypeOK
<1>2. Len(frames) \in Nat \ {0} /\ DOMAIN frames = 1 .. Len(frames)
  BY <1>1
<1>3. \A i \in 1 .. Len(frames) : frames[i] \in Frame
  BY <1>1
<1> QED
  BY <1>1, <1>2, <1>3 DEF Depth, Cur

(* The links between frames depend neither on marks nor on pending         *)
(* exceptions.                                                             *)
Alike(f, g) ==
  /\ f.kind = g.kind /\ f.site = g.site /\ f.sync = g.sync
  /\ f.base = g.base /\ f.ret = g.ret
  /\ f.locks = g.locks /\ f.catches = g.catches

LEMMA LinkAlike ==
  ASSUME NEW i, NEW f, NEW g, NEW f2, NEW g2,
         Alike(f, f2), Link(i, f, g),
         g.base = g2.base, g.ret = g2.ret, g.site = g2.site
  PROVE  Link(i, f2, g2)
BY DEF Alike, Link, PcFor, Guarded, Owned

(* A change of the top frame.                                              *)
LEMMA ChainTop ==
  ASSUME NEW s \in Seq(Frame), NEW n \in Nat \ {0}, n = Len(s), Chain(s),
         NEW f \in Frame, Native(f),
         f.kind = s[n].kind, f.site = s[n].site, f.sync = s[n].sync,
         f.base = s[n].base, f.ret = s[n].ret
  PROVE  Chain(With(s, n, f))
<1> DEFINE m == With(s, n, f)
<1>1. /\ Len(m) = n /\ m[n] = f
      /\ \A i \in 1 .. n : i # n => m[i] = s[i]
  <2>1. n \in 1 .. Len(s)
    OBVIOUS
  <2> QED
    BY <2>1, WithSeq
<1> HIDE DEF m
<1>2. Bottom(m[1])
  <2>1. CASE n = 1
    BY <1>1, <2>1 DEF Chain, Bottom
  <2>2. CASE n # 1
    BY <1>1, <2>2 DEF Chain
  <2> QED
    BY <2>1, <2>2
<1>3. \A i \in 1 .. n : Native(m[i]) /\ Unsynced(m[i])
  <2>1. ASSUME NEW i \in 1 .. n PROVE Native(m[i]) /\ Unsynced(m[i])
    <3>1. CASE i = n
      BY <1>1, <3>1 DEF Chain, Unsynced
    <3>2. CASE i # n
      BY <1>1, <3>2 DEF Chain
    <3> QED
      BY <3>1, <3>2
  <2> QED
    BY <2>1
<1>4. ASSUME NEW i \in 1 .. n, i # n PROVE Link(i, m[i], m[i + 1])
  <2>1. i + 1 \in 1 .. n /\ m[i] = s[i] /\ Link(i, s[i], s[i + 1])
    BY <1>1, <1>4 DEF Chain
  <2>2. /\ m[i + 1].base = s[i + 1].base /\ m[i + 1].ret = s[i + 1].ret
        /\ m[i + 1].site = s[i + 1].site
    <3>1. CASE i + 1 = n
      BY <1>1, <3>1
    <3>2. CASE i + 1 # n
      BY <1>1, <2>1, <3>2
    <3> QED
      BY <3>1, <3>2
  <2> QED
    BY <2>1, <2>2 DEF Link
<1> QED
  BY <1>1, <1>2, <1>3, <1>4 DEF Chain, m

(* A call.                                                                 *)
LEMMA ChainPush ==
  ASSUME NEW s \in Seq(Frame), NEW n \in Nat \ {0}, n = Len(s), Chain(s),
         NEW g \in Frame, Link(n, s[n], g), Native(g), Unsynced(g)
  PROVE  Chain(Append(s, g))
<1> DEFINE m == Append(s, g)
<1>1. /\ Len(m) = n + 1 /\ m[n + 1] = g
      /\ \A i \in 1 .. n : m[i] = s[i]
  BY AppendSeq
<1> HIDE DEF m
<1>2. \A i \in 1 .. n + 1 : i = n + 1 \/ i \in 1 .. n
  OBVIOUS
<1>3. Bottom(m[1]) /\ \A i \in 1 .. n + 1 : Native(m[i]) /\ Unsynced(m[i])
  BY <1>1, <1>2 DEF Chain
<1>4. ASSUME NEW i \in 1 .. n + 1, i # n + 1 PROVE Link(i, m[i], m[i + 1])
  <2>1. CASE i = n
    BY <1>1, <2>1
  <2>2. CASE i # n
    <3>1. i \in 1 .. n /\ i + 1 \in 1 .. n
      BY <1>4, <2>2
    <3> QED
      BY <1>1, <2>2, <3>1 DEF Chain
  <2> QED
    BY <2>1, <2>2
<1> QED
  BY <1>1, <1>3, <1>4 DEF Chain, m

(* A return.                                                               *)
LEMMA ChainPop ==
  ASSUME NEW s \in Seq(Frame), NEW n \in Nat \ {0}, n + 1 = Len(s), Chain(s)
  PROVE  Chain(SubSeq(s, 1, n))
<1> DEFINE m == SubSeq(s, 1, n)
<1>1. Len(m) = n /\ \A i \in 1 .. n : m[i] = s[i]
  BY PoppedSeq
<1> HIDE DEF m
<1>2. \A i \in 1 .. n : i \in 1 .. Len(s) /\ i # Len(s)
  OBVIOUS
<1>3. Bottom(m[1]) /\ \A i \in 1 .. n : Native(m[i]) /\ Unsynced(m[i])
  BY <1>1, <1>2 DEF Chain
<1>4. ASSUME NEW i \in 1 .. n, i # n PROVE Link(i, m[i], m[i + 1])
  BY <1>1, <1>2, <1>4 DEF Chain
<1> QED
  BY <1>1, <1>3, <1>4 DEF Chain, m

(* A mark, anywhere.                                                       *)
LEMMA ChainAlike ==
  ASSUME NEW s \in Seq(Frame), NEW n \in 1 .. Len(s), Chain(s),
         NEW f \in Frame, Alike(s[n], f)
  PROVE  Chain(With(s, n, f))
<1> DEFINE m == With(s, n, f)
<1>1. /\ Len(m) = Len(s) /\ m[n] = f
      /\ \A i \in 1 .. Len(s) : i # n => m[i] = s[i]
  BY WithSeq
<1> HIDE DEF m
<1>2. \A i \in 1 .. Len(s) : Alike(s[i], m[i])
  BY <1>1 DEF Alike
<1>3. Len(s) \in Nat \ {0} /\ 1 \in 1 .. Len(s)
  OBVIOUS
<1>4. Bottom(m[1])
  BY <1>2, <1>3 DEF Chain, Bottom, Alike
<1>5. \A i \in 1 .. Len(s) : Native(m[i]) /\ Unsynced(m[i])
  BY <1>2 DEF Chain, Native, Unsynced, Alike
<1>6. ASSUME NEW i \in 1 .. Len(s), i # Len(s) PROVE Link(i, m[i], m[i + 1])
  <2>1. i + 1 \in 1 .. Len(s) /\ Link(i, s[i], s[i + 1])
    BY <1>3, <1>6 DEF Chain
  <2>2. /\ s[i + 1].base = m[i + 1].base /\ s[i + 1].ret = m[i + 1].ret
        /\ s[i + 1].site = m[i + 1].site
    BY <1>2, <2>1 DEF Alike
  <2> QED
    BY <1>2, <2>1, <2>2, LinkAlike
<1> QED
  BY <1>1, <1>4, <1>5, <1>6 DEF Chain, m

-----------------------------------------------------------------------------
(* The records the actions make are frames.                                *)
LEMMA FrameEdits ==
  ASSUME NEW f \in Frame
  PROVE  /\ Marked(f) \in Frame /\ Alike(f, Marked(f))
         /\ Unmarked(f) \in Frame /\ Alike(f, Unmarked(f))
         /\ \A e \in Exceptions :
              /\ [f EXCEPT !.pending = e] \in Frame
              /\ Alike(f, [f EXCEPT !.pending = e])
         /\ \A c \in SUBSET Exceptions : [f EXCEPT !.catches = c] \in Frame
         /\ \A k \in 0 .. MaxLocks : [f EXCEPT !.locks = k] \in Frame
BY DEF Frame, Marked, Unmarked, Alike

LEMMA Numbers ==
  ASSUME NEW f \in Frame
  PROVE  f.base \in Nat /\ f.locks \in Nat /\ f.ret \in Nat /\ f.sync \in BOOLEAN
         /\ f.catches \subseteq Exceptions
         /\ f.pending \in Exceptions \union {None}
         /\ Owned(f) \in Nat
         /\ f.kind \in {"java", "native"}
         /\ f.site \in {"bottom", "invoke", "native", "clinit", "dispatch"}
BY FramesAssumption DEF Frame, Owned

(* The last link, read from the frame above.                               *)
LEMMA BelowTop ==
  ASSUME IInv, Cur.site # "bottom"
  PROVE  /\ Depth - 1 \in Nat \ {0}
         /\ Depth - 1 \in 1 .. Depth
         /\ frames[Depth - 1] \in Frame
         /\ Link(Depth - 1, frames[Depth - 1], Cur)
<1>1. TypeOK /\ Chain(frames)
  BY DEF IInv
<1>2. Depth # 1
  BY <1>1, TopExists DEF Chain, Bottom
<1>3. Depth - 1 \in 1 .. Depth /\ Depth - 1 # Depth /\ Depth - 1 + 1 = Depth
  BY <1>1, <1>2, TopExists
<1>4. Link(Depth - 1, frames[Depth - 1], frames[Depth])
  BY <1>1, <1>3 DEF Chain, Depth
<1> QED
  BY <1>1, <1>3, <1>4, TopExists

LEMMA TopFrame ==
  ASSUME IInv
  PROVE  /\ Native(Cur) /\ Unsynced(Cur) /\ Bottom(frames[1])
         /\ Cur.site = "bottom" <=> Depth = 1
<1>1. TypeOK /\ Chain(frames)
  BY DEF IInv
<1>2. Depth = 1 => Cur.site = "bottom"
  BY <1>1, TopExists DEF Chain, Bottom
<1>3. Depth # 1 => Cur.site # "bottom"
  <2>1. SUFFICES ASSUME Depth # 1 PROVE Cur.site # "bottom"
    OBVIOUS
  <2>2. Depth - 1 \in 1 .. Depth /\ Depth - 1 # Depth /\ Depth - 1 + 1 = Depth
    BY <1>1, <2>1, TopExists
  <2>3. Link(Depth - 1, frames[Depth - 1], frames[Depth])
    BY <1>1, <2>2 DEF Chain, Depth
  <2> QED
    BY <1>1, <2>3, TopExists DEF Link
<1> QED
  BY <1>1, <1>2, <1>3, TopExists DEF Chain, Depth

LEMMA InvInit == ASSUME Init PROVE IInv
<1> DEFINE f == [kind |-> "java", site |-> "bottom", sync |-> FALSE,
                 catches |-> {}, locks |-> 0, mark |-> FALSE,
                 pending |-> None, ret |-> 1, base |-> 0]
<1>1. f \in Frame
  BY FramesAssumption DEF Frame
<1>2. /\ f.kind = "java" /\ f.site = "bottom" /\ f.sync = FALSE /\ f.locks = 0
      /\ f.ret = 1 /\ f.base = 0
  OBVIOUS
<1>3. frames = <<f>>
  BY DEF Init
<1> HIDE DEF f
<1>4. frames \in Seq(Frame) /\ Len(frames) = 1 /\ frames[1] = f /\ frames # <<>>
  BY <1>1, <1>3
<1>5. TypeOK
  BY <1>4 DEF Init, TypeOK
<1>6. Chain(frames)
  BY <1>2, <1>4 DEF Chain, Bottom, Native, Unsynced
<1>7. TopOK
  BY <1>2, <1>4 DEF TopOK, Init, Cur, Depth, Owned, PcFor
<1> QED
  BY <1>5, <1>6, <1>7 DEF IInv

-----------------------------------------------------------------------------
(* One lemma per shape of step.  A call: g is pushed on the frames m, which *)
(* are the present ones or differ from them in what no link depends on.    *)
LEMMA CallStep ==
  ASSUME IInv, status = "alive", UNCHANGED <<status>>, exc' = None,
         NEW m \in Seq(Frame), NEW g \in Frame,
         Len(m) = Depth, Chain(m),
         Link(Depth, m[Depth], g), Native(g), Unsynced(g),
         frames' = Append(m, g),
         g.locks = 0,
         monitorNum' = monitorNum + Owned(g), g.base = monitorNum,
         pc' = PcFor(Depth + 1, g)
  PROVE  Kept
<1> DEFINE n == Depth
<1>1. TypeOK /\ n \in Nat \ {0}
  BY TopExists DEF IInv
<1>2. Chain(frames')
  BY <1>1, ChainPush
<1>3. /\ frames' \in Seq(Frame) /\ Len(frames') = n + 1
      /\ frames'[n + 1] = g
  BY AppendSeq
<1>4. frames' # <<>>
  BY <1>1, <1>3
<1>5. Depth' = n + 1 /\ Cur' = g
  BY <1>3 DEF Depth, Cur
<1>6. pc' \in Nat /\ monitorNum' \in Nat
  BY <1>1, Numbers DEF PcFor, TypeOK
<1>7. TypeOK'
  BY <1>1, <1>3, <1>4, <1>6 DEF TypeOK
<1>8. TopOK'
  BY <1>5 DEF TopOK
<1> QED
  BY <1>1, <1>2, <1>3, <1>7, <1>8 DEF IInv, Kept, Depth

(* The current frame becomes f and stays current.                          *)
LEMMA StayStep ==
  ASSUME IInv, status = "alive", UNCHANGED <<pc, status>>,
         exc' \in Exceptions \union {None},
         NEW f \in Frame,
         f.kind = Cur.kind, f.site = Cur.site, f.sync = Cur.sync,
         f.base = Cur.base, f.ret = Cur.ret, Native(f),
         frames' = With(frames, Depth, f),
         monitorNum' = f.base + Owned(f),
         exc' # None => f.kind = "java" /\ Guarded(f)
  PROVE  Kept
<1> DEFINE n == Depth
<1>1. /\ TypeOK /\ Chain(frames)
      /\ n \in Nat \ {0} /\ n \in 1 .. n /\ n = Len(frames)
      /\ frames \in Seq(Frame) /\ Cur = frames[n]
  BY TopExists DEF IInv, Depth
<1>2. frames' \in Seq(Frame) /\ Len(frames') = n /\ frames'[n] = f
  BY <1>1, WithSeq
<1>3. Chain(frames')
  BY <1>1, ChainTop
<1>4. frames' # <<>>
  BY <1>1, <1>2
<1>5. Depth' = n /\ Cur' = f
  BY <1>2 DEF Depth, Cur
<1>6. monitorNum' \in Nat
  BY Numbers
<1>7. TypeOK'
  BY <1>1, <1>2, <1>4, <1>6 DEF TypeOK
<1>8. TopOK'
  BY <1>5 DEF TopOK, IInv, PcFor
<1> QED
  BY <1>1, <1>2, <1>3, <1>7, <1>8 DEF IInv, Kept

(* A return to the frame below, which becomes f.                           *)
LEMMA ReturnStep ==
  ASSUME IInv, status = "alive", Cur.site # "bottom", Cur.locks = 0,
         exc' \in Exceptions \union {None}, status' \in {"alive", "aborted"},
         NEW f \in Frame, Alike(frames[Depth - 1], f),
         \/ frames' = Popped /\ f = frames[Depth - 1]
         \/ frames' = With(Popped, Depth - 1, f),
         Released, pc' = Cur.ret,
         exc' # None => f.kind = "java" /\ Cur.site = "invoke"
  PROVE  Kept
<1> DEFINE n == Depth - 1
<1>1. /\ TypeOK /\ Chain(frames)
      /\ n \in Nat \ {0} /\ n + 1 = Len(frames) /\ n = Len(frames) - 1
      /\ frames \in Seq(Frame) /\ Cur \in Frame
      /\ Link(n, frames[n], Cur)
  BY TopExists, BelowTop DEF IInv, Depth
<1>2. Popped = SubSeq(frames, 1, n)
  BY DEF Popped
<1>3. /\ Popped \in Seq(Frame) /\ Len(Popped) = n
      /\ \A i \in 1 .. n : Popped[i] = frames[i]
  BY <1>1, <1>2, PoppedSeq
<1>4. Chain(Popped)
  BY <1>1, <1>2, ChainPop
<1>a. /\ Alike(frames[n], f)
      /\ \/ frames' = Popped /\ f = frames[n]
         \/ frames' = With(Popped, n, f)
  OBVIOUS
<1> HIDE DEF n
<1>b. n \in 1 .. n
  BY <1>1
<1>5. n \in 1 .. Len(Popped) /\ Popped[n] = frames[n] /\ Alike(Popped[n], f)
  BY <1>3, <1>a, <1>b
<1>6. /\ frames' \in Seq(Frame) /\ Len(frames') = n /\ frames'[n] = f
      /\ Chain(frames')
  <2>1. CASE frames' = Popped /\ f = frames[n]
    BY <1>3, <1>4, <1>5, <2>1
  <2>2. CASE frames' = With(Popped, n, f)
    <3>1. /\ frames' \in Seq(Frame) /\ Len(frames') = n /\ frames'[n] = f
      <4>1. /\ With(Popped, n, f) \in Seq(Frame)
            /\ Len(With(Popped, n, f)) = Len(Popped)
            /\ With(Popped, n, f)[n] = f
        BY <1>3, <1>5, WithSeq
      <4> QED
        BY <1>3, <2>2, <4>1
    <3>2. Chain(frames')
      BY <1>3, <1>4, <1>5, <2>2, ChainAlike
    <3> QED
      BY <3>1, <3>2
  <2> QED
    BY <1>a, <2>1, <2>2
<1>7. frames' # <<>>
  BY <1>1, <1>6
<1>8. Depth' = n /\ Cur' = f
  BY <1>6 DEF Depth, Cur
<1>9. monitorNum' = Cur.base /\ monitorNum' \in Nat /\ pc' \in Nat
  <2>1. monitorNum = Cur.base + Cur.locks + (IF Cur.sync THEN 1 ELSE 0)
    BY <1>1, Numbers DEF IInv, TopOK, Owned
  <2> QED
    BY <1>1, <2>1, Numbers DEF Released
<1>10. /\ Cur.base = f.base + Owned(f) /\ Cur.ret = PcFor(n, f)
       /\ Cur.site = "invoke" => Guarded(f)
  BY <1>1, <1>a DEF Link, Alike, Owned, PcFor, Guarded
<1>11. TypeOK'
  BY <1>1, <1>6, <1>7, <1>9 DEF TypeOK
<1>12. TopOK'
  <2>1. exc' # None => f.kind = "java" /\ Guarded(f)
    BY <1>10
  <2>2. f.kind = Cur'.kind /\ Guarded(f) = Guarded(Cur)'
    BY <1>8 DEF Guarded
  <2>3. monitorNum' = f.base + Owned(f) /\ pc' = PcFor(n, f)
    BY <1>9, <1>10
  <2>4. status' \in {"alive", "aborted"}
    OBVIOUS
  <2> QED
    BY <1>8, <2>1, <2>2, <2>3, <2>4 DEF TopOK
<1> QED
  BY <1>6, <1>9, <1>11, <1>12 DEF IInv, Kept

-----------------------------------------------------------------------------
(* One lemma per action.                                                   *)
LEMMA InvokeKeeps ==
  ASSUME IInv, NEW kind \in {"java", "native"}, NEW sync \in BOOLEAN,
         NEW c \in SUBSET Exceptions, NEW p,
         InvokeAs(kind, sync, c, p), p = IF kind = "java" THEN Depth + 1 ELSE 0
  PROVE  Kept
<1> DEFINE f == [Cur EXCEPT !.catches = c]
           g == NewFrame(kind, "invoke", sync, pc)
<1>1. TypeOK /\ TopOK /\ Cur \in Frame /\ pc \in Nat
  BY TopExists DEF IInv, TypeOK
<1>2. /\ Running("java") /\ Covers(c)
      /\ frames' = Append(With(frames, Depth, f), g)
      /\ pc' = p
      /\ monitorNum' = monitorNum + (IF sync THEN 1 ELSE 0)
      /\ UNCHANGED <<exc, status>>
  BY DEF InvokeAs
<1>3. f \in Frame /\ g \in Frame
  <2>1. f \in Frame
    BY <1>1, FrameEdits
  <2>2. g \in Frame
    BY <1>1, FramesAssumption DEF NewFrame, Frame, TypeOK
  <2> QED
    BY <2>1, <2>2
<1>4. /\ f.kind = Cur.kind /\ f.site = Cur.site /\ f.sync = Cur.sync
      /\ f.base = Cur.base /\ f.ret = Cur.ret /\ f.locks = Cur.locks
      /\ f.catches = c
  BY <1>1 DEF Frame
<1>5. /\ g.kind = kind /\ g.site = "invoke" /\ g.sync = sync /\ g.ret = pc
      /\ g.base = monitorNum /\ g.locks = 0
  BY DEF NewFrame
<1> HIDE DEF f, g
<1>6. Native(f) /\ Native(g) /\ Unsynced(g)
  BY <1>4, <1>5, TopFrame DEF Native, Unsynced
<1>7. Guarded(f)
  BY <1>2, <1>4 DEF Covers, Guarded
<1>8. /\ status = "alive" /\ exc = None /\ Cur.kind = "java"
      /\ pc = Depth /\ monitorNum = Cur.base + Owned(Cur)
  BY <1>1, <1>2 DEF Running, TopOK, PcFor
<1>9. Link(Depth, f, g)
  BY <1>4, <1>5, <1>7, <1>8 DEF Link, PcFor, Owned
<1>10. monitorNum' = monitorNum + Owned(g)
  <2>1. Owned(g) = IF sync THEN 1 ELSE 0
    BY <1>5 DEF Owned
  <2> QED
    BY <1>2, <2>1
<1>11. pc' = PcFor(Depth + 1, g)
  BY <1>2, <1>5 DEF PcFor
<1> DEFINE m == With(frames, Depth, f)
<1>12. /\ m \in Seq(Frame) /\ Len(m) = Depth /\ m[Depth] = f /\ Chain(m)
  <2>1. /\ Depth \in Nat \ {0} /\ Depth \in 1 .. Len(frames)
        /\ Depth = Len(frames) /\ frames \in Seq(Frame)
        /\ Cur = frames[Depth] /\ Chain(frames)
    BY <1>1, TopExists DEF IInv, Depth
  <2> HIDE DEF Depth
  <2>2. m \in Seq(Frame) /\ Len(m) = Depth /\ m[Depth] = f
    BY <1>3, <2>1, WithSeq
  <2>3. Chain(m)
    BY <1>3, <1>4, <1>6, <2>1, ChainTop
  <2> QED
    BY <2>2, <2>3
<1>13. frames' = Append(m, g)
  BY <1>2
<1> HIDE DEF m
<1> QED
  BY <1>2, <1>3, <1>5, <1>6, <1>8, <1>9, <1>10, <1>11, <1>12, <1>13, CallStep

(* add_frame_and_execute from a frame whose kind fits the site.  The       *)
(* frames below are m: the present ones, but for marks and what is pending. *)
LEMMA AddFrameKeeps ==
  ASSUME IInv, NEW m \in Seq(Frame), Len(m) = Depth, Chain(m),
         Alike(Cur, m[Depth]),
         NEW site \in {"native", "clinit", "dispatch"},
         NEW ret \in Nat, ret = PcFor(Depth, Cur),
         frames' = Append(m, NewFrame("java", site, FALSE, ret)),
         site = "native" <=> Cur.kind = "native",
         site = "dispatch" => Depth = 1 /\ Cur.locks = 0,
         pc' = Depth + 1, status = "alive", exc' = None,
         UNCHANGED <<monitorNum, status>>
  PROVE  Kept
<1> DEFINE g == NewFrame("java", site, FALSE, ret)
<1>1. TypeOK /\ TopOK /\ monitorNum \in Nat
  BY DEF IInv, TypeOK
<1>2. /\ g \in Frame /\ g.kind = "java" /\ g.site = site /\ ~g.sync
      /\ g.ret = ret /\ g.base = monitorNum /\ g.locks = 0
  BY <1>1, FramesAssumption DEF NewFrame, Frame
<1>3. frames' = Append(m, g)
  OBVIOUS
<1> HIDE DEF g
<1>4. Native(g) /\ Unsynced(g)
  BY <1>2 DEF Native, Unsynced
<1>5. monitorNum = Cur.base + Owned(Cur)
  BY <1>1 DEF TopOK
<1>6. Link(Depth, m[Depth], g)
  BY <1>2, <1>5 DEF Link, PcFor, Owned, Alike, Guarded
<1>7. monitorNum' = monitorNum + Owned(g)
  BY <1>1, <1>2 DEF Owned
<1>8. pc' = PcFor(Depth + 1, g)
  BY <1>2 DEF PcFor
<1> QED
  BY <1>2, <1>3, <1>4, <1>6, <1>7, <1>8, CallStep

LEMMA InitialClinitKeeps == ASSUME IInv, InitialClinit PROVE Kept
<1>1. TypeOK /\ TopOK /\ Chain(frames)
  BY DEF IInv
<1>2. /\ status = "alive" /\ exc = None /\ Cur.kind = "java"
      /\ frames' = Append(frames, NewFrame("java", "clinit", FALSE, pc))
      /\ pc' = Depth + 1
      /\ UNCHANGED <<monitorNum, exc, status>>
  BY DEF InitialClinit, Running, AddFrame
<1>3. pc \in Nat /\ pc = PcFor(Depth, Cur)
  BY <1>1, <1>2 DEF TopOK, TypeOK
<1>4. frames \in Seq(Frame) /\ Len(frames) = Depth /\ Alike(Cur, frames[Depth])
  BY <1>1, TopExists DEF Depth, Alike
<1> QED
  BY <1>1, <1>2, <1>3, <1>4, AddFrameKeeps

LEMMA CallBackKeeps == ASSUME IInv, CallBack PROVE Kept
<1>1. TypeOK /\ TopOK /\ Chain(frames)
  BY DEF IInv
<1>2. /\ status = "alive" /\ exc = None /\ Cur.kind = "native"
      /\ frames' = Append(frames, NewFrame("java", "native", FALSE, pc))
      /\ pc' = Depth + 1
      /\ UNCHANGED <<monitorNum, exc, status>>
  BY DEF CallBack, Running, AddFrame
<1>3. pc \in Nat /\ pc = PcFor(Depth, Cur)
  BY <1>1, <1>2 DEF TopOK, TypeOK
<1>4. frames \in Seq(Frame) /\ Len(frames) = Depth /\ Alike(Cur, frames[Depth])
  BY <1>1, TopExists DEF Depth, Alike
<1> QED
  BY <1>1, <1>2, <1>3, <1>4, AddFrameKeeps

LEMMA NativeThrowKeeps ==
  ASSUME IInv, NEW e \in Exceptions, NativeThrow(e) PROVE Kept
<1> DEFINE below == With(frames, Depth - 1, Marked(frames[Depth - 1]))
           m == With(below, Depth, [Cur EXCEPT !.pending = e])
<1>1. TypeOK /\ TopOK /\ Chain(frames)
  BY DEF IInv
<1>2. /\ status = "alive" /\ exc = None /\ Cur.kind = "native"
      /\ frames' = Append(m, NewFrame("java", "native", FALSE, pc))
      /\ pc' = Depth + 1
      /\ UNCHANGED <<monitorNum, exc, status>>
  BY DEF NativeThrow, Running
<1>3. pc \in Nat /\ pc = PcFor(Depth, Cur)
  BY <1>1, <1>2 DEF TopOK, TypeOK
<1>4. Cur.site # "bottom"
  BY <1>2, TopFrame DEF Native
<1>5. /\ below \in Seq(Frame) /\ Len(below) = Depth /\ below[Depth] = Cur
      /\ Chain(below)
  <2>1. /\ Depth - 1 \in 1 .. Len(frames) /\ frames[Depth - 1] \in Frame
        /\ frames \in Seq(Frame) /\ Depth - 1 # Depth /\ Depth \in 1 .. Len(frames)
        /\ Len(frames) = Depth /\ frames[Depth] = Cur
    <3>1. /\ Depth \in Nat \ {0} /\ Depth \in 1 .. Depth
          /\ frames \in Seq(Frame) /\ Cur = frames[Depth]
      BY <1>1, TopExists
    <3>2. Depth - 1 \in 1 .. Depth /\ frames[Depth - 1] \in Frame
      BY <1>4, BelowTop
    <3>3. Len(frames) = Depth /\ Depth - 1 # Depth
      BY <3>1 DEF Depth
    <3> QED
      BY <3>1, <3>2, <3>3
  <2>2. /\ Marked(frames[Depth - 1]) \in Frame
        /\ Alike(frames[Depth - 1], Marked(frames[Depth - 1]))
    BY <2>1, FrameEdits
  <2> HIDE DEF Depth
  <2>3. below \in Seq(Frame) /\ Len(below) = Depth /\ below[Depth] = Cur
    BY <2>1, <2>2, WithSeq
  <2>4. Chain(below)
    BY <1>1, <2>1, <2>2, ChainAlike
  <2> QED
    BY <2>3, <2>4
<1> HIDE DEF below
<1>6. m \in Seq(Frame) /\ Len(m) = Depth /\ Alike(Cur, m[Depth]) /\ Chain(m)
  <2> DEFINE f == [Cur EXCEPT !.pending = e]
  <2>1. f \in Frame /\ Alike(Cur, f)
    BY <1>1, TopExists, FrameEdits
  <2> HIDE DEF f
  <2>2. Depth \in 1 .. Len(below)
    BY <1>1, <1>5, TopExists
  <2>3. /\ With(below, Depth, f) \in Seq(Frame)
        /\ Len(With(below, Depth, f)) = Depth /\ With(below, Depth, f)[Depth] = f
    BY <1>5, <2>1, <2>2, WithSeq
  <2>4. Chain(With(below, Depth, f))
    BY <1>5, <2>1, <2>2, ChainAlike
  <2> QED
    BY <2>1, <2>3, <2>4 DEF f
<1> HIDE DEF m
<1> QED
  BY <1>1, <1>2, <1>3, <1>6, AddFrameKeeps

LEMMA UncaughtKeeps == ASSUME IInv, Uncaught PROVE Kept
<1>1. TypeOK /\ TopOK /\ Chain(frames) /\ Cur \in Frame
  BY TopExists DEF IInv
<1>2. /\ status = "alive" /\ exc # None /\ exc \notin Cur.catches /\ Depth = 1
      /\ frames' = Append(frames, NewFrame("java", "dispatch", FALSE, Cur.ret))
      /\ pc' = Depth + 1 /\ exc' = None
      /\ UNCHANGED <<monitorNum, status>>
  BY DEF Uncaught, Thrown
<1>3. Cur = frames[1] /\ Bottom(Cur)
  BY <1>1, <1>2, TopExists DEF Chain
<1>4. Cur.ret \in Nat /\ Cur.ret = PcFor(Depth, Cur) /\ Cur.kind = "java"
  BY <1>2, <1>3 DEF Bottom, PcFor
<1>5. Cur.locks = 0
  <2>1. exc \in Exceptions /\ Guarded(Cur)
    BY <1>1, <1>2 DEF TopOK, TypeOK
  <2> QED
    BY <1>1, <1>2, <2>1, Numbers DEF Guarded
<1>6. frames \in Seq(Frame) /\ Len(frames) = Depth /\ Alike(Cur, frames[Depth])
  BY <1>1, TopExists DEF Depth, Alike
<1> QED
  BY <1>1, <1>2, <1>4, <1>5, <1>6, AddFrameKeeps

(* The steps that leave the stack as high as it is.                        *)
LEMMA StayingKeeps ==
  ASSUME IInv,
         \/ MonitorEnter \/ MonitorExit \/ Handle
         \/ \E e \in Exceptions, c \in SUBSET Exceptions : Throw(e, c)
  PROVE  Kept
<1>1. TypeOK /\ TopOK /\ Cur \in Frame /\ Native(Cur)
  BY TopExists, TopFrame DEF IInv
<1>2. /\ Cur.locks \in Nat /\ Cur.base \in Nat /\ Cur.sync \in BOOLEAN
      /\ monitorNum = Cur.base + Owned(Cur)
  BY <1>1, Numbers DEF TopOK
<1>3. CASE MonitorEnter
  <2> DEFINE k == Cur.locks + 1
             f == [Cur EXCEPT !.locks = k]
  <2>1. /\ status = "alive" /\ exc = None /\ Cur.kind = "java"
        /\ UNCHANGED <<pc, exc, status>> /\ frames' = With(frames, Depth, f)
        /\ monitorNum' = monitorNum + 1 /\ Cur.locks < MaxLocks
    BY <1>1, <1>3 DEF MonitorEnter, Running, Frame
  <2>2. f \in Frame
    BY <1>1, <1>2, <2>1, FrameEdits, FramesAssumption
  <2>3. /\ f.kind = Cur.kind /\ f.site = Cur.site /\ f.sync = Cur.sync
        /\ f.base = Cur.base /\ f.ret = Cur.ret /\ f.locks = Cur.locks + 1
    BY <1>1 DEF Frame
  <2> HIDE DEF f
  <2>4. monitorNum' = f.base + Owned(f)
    BY <1>2, <2>1, <2>3 DEF Owned
  <2>5. Native(f)
    BY <2>1, <2>3 DEF Native
  <2>6. exc' \in Exceptions \union {None} /\ exc' = None
    BY <2>1
  <2> QED
    BY <2>1, <2>2, <2>3, <2>4, <2>5, <2>6, StayStep
<1>4. CASE MonitorExit
  <2> DEFINE k == Cur.locks - 1
             f == [Cur EXCEPT !.locks = k]
  <2>1. /\ status = "alive" /\ exc = None /\ Cur.kind = "java"
        /\ UNCHANGED <<pc, exc, status>> /\ frames' = With(frames, Depth, f)
        /\ monitorNum' = monitorNum - 1 /\ Cur.locks > 0
    BY <1>1, <1>4 DEF MonitorExit, Running, Frame
  <2>2. f \in Frame
    <3>1. k \in 0 .. MaxLocks
      BY <1>1, <2>1, FramesAssumption DEF Frame
    <3> QED
      BY <1>1, <3>1, FrameEdits
  <2>3. /\ f.kind = Cur.kind /\ f.site = Cur.site /\ f.sync = Cur.sync
        /\ f.base = Cur.base /\ f.ret = Cur.ret /\ f.locks = Cur.locks - 1
    BY <1>1 DEF Frame
  <2> HIDE DEF f
  <2>4. monitorNum' = f.base + Owned(f)
    BY <1>2, <2>1, <2>3 DEF Owned
  <2>5. Native(f)
    BY <2>1, <2>3 DEF Native
  <2>6. exc' \in Exceptions \union {None} /\ exc' = None
    BY <2>1
  <2> QED
    BY <2>1, <2>2, <2>3, <2>4, <2>5, <2>6, StayStep
<1>5. CASE Handle
  <2>1. /\ status = "alive" /\ exc' = None
        /\ UNCHANGED <<frames, pc, monitorNum, status>>
    BY <1>5 DEF Handle, Thrown
  <2>2. UNCHANGED <<Depth, Cur>>
    BY <2>1 DEF Depth, Cur
  <2>3. TypeOK' /\ Chain(frames')
    BY <1>1, <2>1 DEF TypeOK, IInv
  <2>4. TopOK'
    BY <1>1, <2>1, <2>2 DEF TopOK
  <2>5. ~(Len(frames') < Len(frames))
    BY <1>1, <2>1 DEF TypeOK
  <2> QED
    BY <2>3, <2>4, <2>5 DEF IInv, Kept
<1>6. ASSUME NEW e \in Exceptions, NEW c \in SUBSET Exceptions, Throw(e, c)
      PROVE  Kept
  <2> DEFINE f == [Cur EXCEPT !.catches = c]
  <2>1. /\ status = "alive" /\ Cur.kind = "java" /\ Covers(c)
        /\ UNCHANGED <<pc, monitorNum, status>> /\ exc' = e
        /\ frames' = With(frames, Depth, f)
    BY <1>6 DEF Throw, Running
  <2>2. f \in Frame
    BY <1>1, FrameEdits
  <2>3. /\ f.kind = Cur.kind /\ f.site = Cur.site /\ f.sync = Cur.sync
        /\ f.base = Cur.base /\ f.ret = Cur.ret /\ f.locks = Cur.locks
        /\ f.catches = c
    BY <1>1 DEF Frame
  <2> HIDE DEF f
  <2>4. monitorNum' = f.base + Owned(f)
    BY <1>2, <2>1, <2>3 DEF Owned
  <2>5. Native(f) /\ Guarded(f)
    BY <2>1, <2>3 DEF Native, Covers, Guarded
  <2>6. exc' \in Exceptions \union {None}
    BY <2>1
  <2> QED
    BY <2>1, <2>2, <2>3, <2>4, <2>5, <2>6, StayStep
<1> QED
  BY <1>3, <1>4, <1>5, <1>6

(* What follows an invocation: the frame is popped, the caller unmarked.   *)
LEMMA AfterInvokeKeeps ==
  ASSUME IInv, status = "alive", Cur.site = "invoke", Cur.locks = 0,
         NEW r \in Exceptions \union {None}, NEW marked \in BOOLEAN,
         AfterInvoke(r, marked), Released, pc' = Cur.ret
  PROVE  Kept
<1> DEFINE caller == frames[Depth - 1]
<1>1. caller \in Frame /\ Link(Depth - 1, caller, Cur)
  BY BelowTop
<1>2. caller.kind = "java"
  <2>1. Cur.site # "native" /\ caller.kind \in {"java", "native"}
    BY <1>1, Numbers
  <2> QED
    BY <1>1, <2>1 DEF Link
<1>3. CASE ~caller.mark /\ ~marked
  <2>1. frames' = Popped /\ exc' = None /\ UNCHANGED status
    BY <1>3 DEF AfterInvoke
  <2>2. Alike(caller, caller)
    BY DEF Alike
  <2> QED
    BY <1>1, <1>2, <2>1, <2>2, ReturnStep
<1>4. CASE caller.mark \/ marked
  <2>1. /\ frames' = With(Popped, Depth - 1, Unmarked(caller))
        /\ exc' = r /\ status' \in {"alive", "aborted"}
    BY <1>4 DEF AfterInvoke
  <2>2. /\ Unmarked(caller) \in Frame /\ Alike(caller, Unmarked(caller))
        /\ Unmarked(caller).kind = "java"
    BY <1>1, <1>2, FrameEdits DEF Alike
  <2> QED
    BY <2>1, <2>2, ReturnStep
<1> QED
  BY <1>3, <1>4

(* The end of the thread.                                                  *)
LEMMA EndKeeps ==
  ASSUME IInv, status = "alive", Cur.site \in {"bottom", "dispatch"},
         EndThread, Cur.locks = 0, Released, pc' = Cur.ret,
         NEW f \in Frame,
         \/ frames' = frames
         \/ /\ frames' = With(frames, Depth - 1, f)
            /\ Cur.site = "dispatch" /\ Alike(frames[Depth - 1], f),
         exc = None \/ Cur.site = "dispatch"
  PROVE  Kept
<1>1. /\ TypeOK /\ TopOK /\ Chain(frames) /\ Cur \in Frame
      /\ Native(Cur) /\ Unsynced(Cur)
  BY TopExists, TopFrame DEF IInv
<1>2. /\ UNCHANGED exc /\ pc' \in Nat
      /\ status' = IF Cur.site = "bottom" THEN "done" ELSE "uncaught"
  BY <1>1, Numbers DEF EndThread
<1>3. ~Cur.sync
  BY <1>1 DEF Unsynced
<1>4. monitorNum' = monitorNum
  BY <1>3 DEF Released
<1>5. /\ frames' \in Seq(Frame) /\ frames' # <<>> /\ Chain(frames')
      /\ Len(frames') = Len(frames) /\ frames'[Depth] = Cur
  <2>1. CASE frames' = frames
    BY <1>1, <2>1, TopExists
  <2>2. CASE /\ frames' = With(frames, Depth - 1, f)
             /\ Cur.site = "dispatch" /\ Alike(frames[Depth - 1], f)
    <3>1. /\ Depth - 1 \in 1 .. Len(frames) /\ Depth \in 1 .. Len(frames)
          /\ Depth - 1 # Depth /\ frames \in Seq(Frame) /\ frames[Depth] = Cur
          /\ Len(frames) # 0
      <4>1. /\ Depth \in Nat \ {0} /\ Depth \in 1 .. Depth
            /\ frames \in Seq(Frame) /\ Cur = frames[Depth]
        BY <1>1, TopExists
      <4>2. Depth - 1 \in 1 .. Depth
        BY <2>2, BelowTop
      <4>3. Len(frames) = Depth /\ Depth - 1 # Depth
        BY <4>1 DEF Depth
      <4> QED
        BY <4>1, <4>2, <4>3
    <3> HIDE DEF Depth
    <3> DEFINE m == With(frames, Depth - 1, f)
    <3>2. /\ m \in Seq(Frame) /\ Len(m) = Len(frames)
          /\ \A i \in 1 .. Len(frames) : i # Depth - 1 => m[i] = frames[i]
      <4> DEFINE k == Depth - 1
      <4>1. k \in 1 .. Len(frames)
        BY <3>1
      <4> HIDE DEF k
      <4>2. /\ With(frames, k, f) \in Seq(Frame)
            /\ Len(With(frames, k, f)) = Len(frames)
            /\ \A i \in 1 .. Len(frames) : i # k => With(frames, k, f)[i] = frames[i]
        BY <3>1, <4>1, WithSeq
      <4> QED
        BY <4>2 DEF k
    <3> HIDE DEF m
    <3>4. m[Depth] = Cur /\ frames' = m
      BY <2>2, <3>1, <3>2 DEF m
    <3>3. Chain(frames')
      BY <1>1, <2>2, <3>1, ChainAlike
    <3>5. Len(m) # 0
      BY <3>1, <3>2
    <3> QED
      BY <3>2, <3>3, <3>4, <3>5
  <2> QED
    BY <2>1, <2>2
<1>6. Depth' = Depth /\ Cur' = Cur
  BY <1>5 DEF Depth, Cur
<1>7. TypeOK'
  BY <1>1, <1>2, <1>4, <1>5 DEF TypeOK
<1>8. TopOK'
  BY <1>1, <1>2, <1>4, <1>6, TopFrame DEF TopOK
<1> QED
  BY <1>1, <1>5, <1>7, <1>8 DEF IInv, Kept, TypeOK

LEMMA ReturnKeeps ==
  ASSUME IInv, NEW r \in Exceptions \union {None}, Return(r)
  PROVE  Kept
<1>1. TypeOK /\ Cur \in Frame
  BY TopExists DEF IInv
<1>2. /\ status = "alive" /\ exc = None /\ Cur.kind = "java" /\ Cur.locks = 0
      /\ pc' = Cur.ret /\ Released
  BY DEF Return, Running
<1>3. CASE Cur.site \in {"bottom", "dispatch"} /\ EndThread /\ UNCHANGED frames
  BY <1>1, <1>2, <1>3, EndKeeps
<1>4. CASE Cur.site = "invoke" /\ AfterInvoke(r, FALSE)
  <2>1. FALSE \in BOOLEAN
    OBVIOUS
  <2> QED
    BY <1>2, <1>4, <2>1, AfterInvokeKeeps
<1>5. CASE /\ Cur.site \in {"native", "clinit"}
           /\ frames' = Popped /\ UNCHANGED <<exc, status>>
  <2> DEFINE f == frames[Depth - 1]
  <2>1. f \in Frame /\ Cur.site # "bottom"
    BY <1>5, BelowTop
  <2>2. Alike(f, f)
    BY DEF Alike
  <2>3. exc' = None /\ exc' \in Exceptions \union {None} /\ status' = "alive"
    BY <1>2, <1>5
  <2> QED
    BY <1>2, <1>5, <2>1, <2>2, <2>3, ReturnStep
<1> QED
  BY <1>3, <1>4, <1>5 DEF Return

LEMMA NativeReturnKeeps ==
  ASSUME IInv, NativeReturn
  PROVE  Kept
<1>1. Native(Cur) /\ Cur \in Frame
  BY TopExists, TopFrame DEF IInv
<1>2. /\ status = "alive" /\ Cur.kind = "native" /\ pc' = Cur.ret /\ Released
      /\ AfterInvoke(Cur.pending, FALSE)
  BY DEF NativeReturn, Running
<1>3. /\ Cur.site = "invoke" /\ Cur.locks = 0
      /\ Cur.pending \in Exceptions \union {None} /\ FALSE \in BOOLEAN
  BY <1>1, <1>2, Numbers DEF Native
<1> QED
  BY <1>2, <1>3, AfterInvokeKeeps

LEMMA UnwindKeeps ==
  ASSUME IInv, Unwind
  PROVE  Kept
<1> DEFINE below == frames[Depth - 1]
<1>1. TypeOK /\ TopOK /\ Cur \in Frame
  BY TopExists DEF IInv
<1>2. /\ status = "alive" /\ exc # None /\ exc \notin Cur.catches /\ Depth > 1
      /\ pc' = Cur.ret /\ Released
  BY DEF Unwind, Thrown
<1>3. exc \in Exceptions /\ Guarded(Cur)
  BY <1>1, <1>2 DEF TypeOK, TopOK
<1>4. Cur.locks = 0
  BY <1>1, <1>2, <1>3, Numbers DEF Guarded
<1>5. Cur.site # "bottom"
  BY <1>2, TopFrame
<1>6. below \in Frame /\ Marked(below) \in Frame /\ Alike(below, Marked(below))
  BY <1>5, BelowTop, FrameEdits
<1>7. CASE Cur.site = "invoke" /\ AfterInvoke(exc, TRUE)
  <2>1. exc \in Exceptions \union {None} /\ TRUE \in BOOLEAN
    BY <1>3
  <2> QED
    BY <1>2, <1>4, <1>7, <2>1, AfterInvokeKeeps
<1>8. CASE /\ Cur.site = "dispatch" /\ EndThread
           /\ frames' = With(frames, Depth - 1, Marked(below))
  BY <1>2, <1>4, <1>6, <1>8, EndKeeps
<1>9. CASE /\ Cur.site \in {"native", "clinit"}
           /\ frames' = With(Popped, Depth - 1, Marked(below))
           /\ exc' = None /\ UNCHANGED status
  <2>1. exc' \in Exceptions \union {None} /\ status' = "alive"
    BY <1>2, <1>9
  <2> QED
    BY <1>2, <1>4, <1>5, <1>6, <1>9, <2>1, ReturnStep
<1> QED
  BY <1>7, <1>8, <1>9 DEF Unwind

LEMMA InvStep ==
  ASSUME IInv, Next
  PROVE  Kept
<1>2. ASSUME NEW sync \in BOOLEAN, NEW c \in SUBSET Exceptions, InvokeJava(sync, c)
      PROVE  Kept
  <2>1. Depth + 1 = IF "java" = "java" THEN Depth + 1 ELSE 0
    OBVIOUS
  <2> QED
    BY <1>2, <2>1, InvokeKeeps DEF InvokeJava
<1>3. ASSUME NEW sync \in BOOLEAN, NEW c \in SUBSET Exceptions, InvokeNative(sync, c)
      PROVE  Kept
  <2>1. 0 = IF "native" = "java" THEN Depth + 1 ELSE 0
    OBVIOUS
  <2> QED
    BY <1>3, <2>1, InvokeKeeps DEF InvokeNative
<1>4. CASE \/ InitialClinit \/ CallBack \/ \E e \in Exceptions : NativeThrow(e)
           \/ Uncaught
  BY <1>4, InitialClinitKeeps, CallBackKeeps, NativeThrowKeeps, UncaughtKeeps
<1>5. CASE \/ MonitorEnter \/ MonitorExit \/ Handle
           \/ \E e \in Exceptions, c \in SUBSET Exceptions : Throw(e, c)
  BY <1>5, StayingKeeps
<1>6. CASE NativeReturn \/ Unwind \/ \E r \in Exceptions \union {None} : Return(r)
  BY <1>6, NativeReturnKeeps, UnwindKeeps, ReturnKeeps
<1> QED
  BY <1>2, <1>3, <1>4, <1>5, <1>6 DEF Next

LEMMA InvStutter == ASSUME IInv, UNCHANGED vars PROVE IInv'
BY DEF IInv, TypeOK, TopOK, Depth, Cur, vars

(* The inductive invariant holds.                                          *)
THEOREM Invariant == Spec => []IInv
<1>1. IInv /\ [Next]_vars => IInv'
  BY InvStep, InvStutter DEF Kept
<1> QED
  BY InvInit, <1>1, PTL DEF Spec

(* Every variable keeps its type.                                          *)
THEOREM TypeCorrect == Spec => []TypeOK
<1>1. IInv => TypeOK
  BY DEF IInv
<1> QED
  BY Invariant, <1>1, PTL

(* However a method is left, its thread owns as many monitors as when it   *)
(* was called: no path out of invokeVirtual, invokeStatic or athrow leaves *)
(* a monitor of a synchronized method behind.                              *)
THEOREM BalancedMonitors == Spec => MonitorsBalanced
<1>1. IInv /\ [Next]_vars =>
        [Len(frames') < Len(frames) => monitorNum' = frames[Len(frames)].base]_vars
  BY InvStep DEF Kept, Cur, Depth
<1> QED
  BY Invariant, <1>1, PTL DEF Spec, MonitorsBalanced

(* A thread that ends, however it ends, owns no monitor.                   *)
THEOREM EndsWithNothing == Spec => []NothingHeldAtEnd
<1>1. ASSUME IInv PROVE NothingHeldAtEnd
  <2>1. SUFFICES ASSUME status \in {"done", "uncaught"} PROVE monitorNum = 0
    BY DEF NothingHeldAtEnd
  <2>2. /\ monitorNum = Cur.base + Owned(Cur) /\ Cur.locks = 0
        /\ Cur \in Frame /\ Unsynced(Cur) /\ Bottom(frames[1])
    BY <1>1, <2>1, TopExists, TopFrame DEF IInv, TopOK
  <2>3. CASE status = "done"
    <3>1. Cur = frames[1]
      BY <1>1, <2>3, TopExists DEF IInv, TopOK
    <3> QED
      BY <2>2, <3>1 DEF Bottom, Owned
  <2>4. CASE status = "uncaught"
    <3>1. Cur.site = "dispatch"
      BY <1>1, <2>4 DEF IInv, TopOK
    <3>2. Depth - 1 = 1 /\ frames[Depth - 1].locks = 0
          /\ Cur.base = frames[Depth - 1].base + Owned(frames[Depth - 1])
      BY <1>1, <3>1, BelowTop DEF Link
    <3>3. Cur.base = 0
      BY <2>2, <3>2 DEF Bottom, Owned
    <3> QED
      BY <2>2, <3>1, <3>3 DEF Owned, Unsynced
  <2> QED
    BY <2>1, <2>3, <2>4
<1> QED
  BY Invariant, <1>1, PTL

(* The thread's pc and the pcs saved in its frames point into the code of  *)
(* the frames they belong to.                                              *)
THEOREM PcsRight == Spec => []PcsMatchFrames
<1>1. ASSUME IInv PROVE PcsMatchFrames
  <2>1. SUFFICES ASSUME status \in {"alive", "aborted"}, NEW i \in DOMAIN frames
                 PROVE  PcOf(i) = PcFor(i, frames[i])
    BY DEF PcsMatchFrames, PcFor
  <2>2. TypeOK /\ TopOK /\ Chain(frames)
    BY <1>1 DEF IInv
  <2>3. i \in 1 .. Depth
    BY <2>2, TopExists
  <2>4. CASE i = Depth
    BY <2>1, <2>2, <2>4, TopExists DEF TopOK, PcOf
  <2>5. CASE i # Depth
    <3>1. Link(i, frames[i], frames[i + 1])
      BY <2>2, <2>3, <2>5 DEF Chain, Depth
    <3> QED
      BY <2>5, <3>1 DEF Link, PcOf
  <2> QED
    BY <2>4, <2>5
<1> QED
  BY Invariant, <1>1, PTL

-----------------------------------------------------------------------------
(* The marks.  From here on no <clinit> throws.                            *)
Excused(f, g) ==
  f.kind = "java" /\ f.mark => g.kind = "native" /\ g.pending # None

Silent(f) == ~(f.kind = "java" /\ f.mark)

Excuses(s) ==
  /\ \A i \in 1 .. Len(s) : i # Len(s) => Excused(s[i], s[i + 1])
  /\ Silent(s[Len(s)])

MInv ==
  /\ status # "aborted"
  /\ status # "uncaught" => Excuses(frames)

(* A stack that agrees with s below its own top.                           *)
LEMMA ExcusesPrefix ==
  ASSUME NEW s \in Seq(Frame), Excuses(s),
         NEW n \in Nat \ {0}, n <= Len(s),
         NEW m \in Seq(Frame), Len(m) = n,
         \A i \in 1 .. n : i # n => m[i] = s[i],
         m[n].kind = s[n].kind, m[n].pending = s[n].pending, Silent(m[n])
  PROVE  Excuses(m)
<1>1. ASSUME NEW i \in 1 .. n, i # n PROVE Excused(m[i], m[i + 1])
  <2>1. i \in 1 .. Len(s) /\ i # Len(s) /\ i + 1 \in 1 .. n
    BY <1>1
  <2>2. Excused(s[i], s[i + 1]) /\ m[i] = s[i]
    BY <1>1, <2>1 DEF Excuses
  <2>3. m[i + 1].kind = s[i + 1].kind /\ m[i + 1].pending = s[i + 1].pending
    <3>1. CASE i + 1 = n
      BY <3>1
    <3>2. CASE i + 1 # n
      BY <2>1, <3>2
    <3> QED
      BY <3>1, <3>2
  <2> QED
    BY <2>2, <2>3 DEF Excused
<1> QED
  BY <1>1 DEF Excuses

LEMMA ExcusesPush ==
  ASSUME NEW s \in Seq(Frame), Len(s) \in Nat \ {0}, NEW g \in Frame, Silent(g),
         \A i \in 1 .. Len(s) : i # Len(s) => Excused(s[i], s[i + 1]),
         Excused(s[Len(s)], g)
  PROVE  Excuses(Append(s, g))
<1> DEFINE n == Len(s)
           m == Append(s, g)
<1>1. /\ Len(m) = n + 1 /\ m[n + 1] = g
      /\ \A i \in 1 .. n : m[i] = s[i]
  BY AppendSeq
<1>2. n \in Nat \ {0} /\ Excused(s[n], g)
  OBVIOUS
<1>3. \A i \in 1 .. n : i # n => Excused(s[i], s[i + 1])
  OBVIOUS
<1> HIDE DEF m, n
<1>4. ASSUME NEW i \in 1 .. n + 1, i # n + 1 PROVE Excused(m[i], m[i + 1])
  <2>1. i \in 1 .. n /\ n \in 1 .. n
    BY <1>2, <1>4
  <2>2. CASE i = n
    BY <1>1, <1>2, <2>1, <2>2
  <2>3. CASE i # n
    <3>1. i + 1 \in 1 .. n
      BY <1>2, <2>1, <2>3
    <3> QED
      BY <1>1, <1>3, <2>1, <2>3, <3>1
  <2> QED
    BY <2>2, <2>3
<1> QED
  BY <1>1, <1>4 DEF Excuses, m

(* What the links say of a pop: the frame below the top.                   *)
LEMMA ExcusedBelow ==
  ASSUME IInv, Excuses(frames), Cur.site # "bottom"
  PROVE  /\ Excused(frames[Depth - 1], Cur)
         /\ frames[Depth - 1].kind = "java" <=> Cur.site # "native"
<1>1. /\ Depth - 1 \in Nat \ {0} /\ Depth - 1 \in 1 .. Depth
      /\ frames[Depth - 1] \in Frame /\ Link(Depth - 1, frames[Depth - 1], Cur)
  BY BelowTop
<1>2. Depth - 1 + 1 = Depth /\ Depth - 1 # Depth /\ Cur = frames[Depth]
  BY TopExists DEF IInv
<1>3. Excused(frames[Depth - 1], frames[Depth])
  BY <1>1, <1>2 DEF Excuses, Depth
<1>4. frames[Depth - 1].kind \in {"java", "native"}
  BY <1>1, Numbers
<1> QED
  BY <1>1, <1>2, <1>3, <1>4 DEF Link

LEMMA ExcusedPop ==
  ASSUME IInv, Excuses(frames), Cur.site # "bottom", NEW f \in Frame, Silent(f),
         f.kind = frames[Depth - 1].kind, f.pending = frames[Depth - 1].pending,
         \/ frames' = Popped /\ f = frames[Depth - 1]
         \/ frames' = With(Popped, Depth - 1, f)
  PROVE  Excuses(frames')
<1> DEFINE n == Depth - 1
<1>1. /\ n \in Nat \ {0} /\ n = Len(frames) - 1 /\ n <= Len(frames)
      /\ frames \in Seq(Frame)
  BY TopExists, BelowTop DEF IInv, Depth
<1>2. /\ \/ frames' = Popped /\ f = frames[n]
         \/ frames' = With(Popped, n, f)
      /\ f.kind = frames[n].kind /\ f.pending = frames[n].pending
      /\ Popped = SubSeq(frames, 1, n)
  BY DEF Popped
<1> HIDE DEF n
<1>3. /\ Popped \in Seq(Frame) /\ Len(Popped) = n /\ n \in 1 .. n
      /\ \A i \in 1 .. n : Popped[i] = frames[i]
  BY <1>1, <1>2, PoppedSeq
<1>4. /\ With(Popped, n, f) \in Seq(Frame) /\ Len(With(Popped, n, f)) = n
      /\ With(Popped, n, f)[n] = f
      /\ \A i \in 1 .. n : i # n => With(Popped, n, f)[i] = Popped[i]
  BY <1>3, WithSeq
<1>5. /\ frames' \in Seq(Frame) /\ Len(frames') = n /\ frames'[n] = f
      /\ \A i \in 1 .. n : i # n => frames'[i] = frames[i]
  BY <1>2, <1>3, <1>4
<1> QED
  BY <1>1, <1>2, <1>5, ExcusesPrefix

LEMMA ExcusedTop ==
  ASSUME IInv, Excuses(frames), NEW f \in Frame,
         f.kind = Cur.kind, f.pending = Cur.pending, f.mark = Cur.mark
  PROVE  /\ With(frames, Depth, f) \in Seq(Frame)
         /\ Len(With(frames, Depth, f)) = Depth
         /\ Depth \in Nat \ {0}
         /\ Excuses(With(frames, Depth, f))
<1>1. /\ Depth \in Nat \ {0} /\ Depth = Len(frames) /\ frames \in Seq(Frame)
      /\ Depth \in 1 .. Len(frames) /\ Depth <= Len(frames) /\ Cur = frames[Depth]
  BY TopExists DEF IInv, Depth
<1>2. Silent(f)
  BY <1>1 DEF Excuses, Silent
<1> DEFINE n == Depth
           m == With(frames, n, f)
<1> HIDE DEF n
<1>3. n = Depth
  BY DEF n
<1>4. /\ m \in Seq(Frame) /\ Len(m) = n /\ m[n] = f
      /\ \A i \in 1 .. n : i # n => m[i] = frames[i]
  BY <1>1, <1>3, WithSeq
<1> HIDE DEF m
<1>5. Excuses(m)
  BY <1>1, <1>2, <1>3, <1>4, ExcusesPrefix
<1> QED
  BY <1>1, <1>3, <1>4, <1>5 DEF m

LEMMA MarksPush ==
  ASSUME IInv, NEW m \in Seq(Frame), Len(m) = Depth, Excuses(m),
         NEW kind \in {"java", "native"}, NEW sync \in BOOLEAN, NEW ret \in Nat,
         NEW site \in {"invoke", "native", "clinit", "dispatch"},
         frames' = Append(m, NewFrame(kind, site, sync, ret)),
         status = "alive", UNCHANGED status
  PROVE  MInv'
<1> DEFINE g == NewFrame(kind, site, sync, ret)
<1>1. g \in Frame /\ Silent(g)
  BY FramesAssumption DEF NewFrame, Frame, IInv, TypeOK, Silent
<1> HIDE DEF g
<1>2. Len(m) \in Nat \ {0}
  BY TopExists DEF IInv
<1>3. Excused(m[Len(m)], g)
  BY DEF Excuses, Silent, Excused
<1>4. \A i \in 1 .. Len(m) : i # Len(m) => Excused(m[i], m[i + 1])
  BY DEF Excuses
<1>5. Excuses(Append(m, g))
  BY <1>1, <1>2, <1>3, <1>4, ExcusesPush
<1> QED
  BY <1>5 DEF MInv, g

LEMMA MarksInvoke ==
  ASSUME IInv, MInv, NEW kind \in {"java", "native"}, NEW sync \in BOOLEAN,
         NEW c \in SUBSET Exceptions, NEW p, InvokeAs(kind, sync, c, p)
  PROVE  MInv'
<1> DEFINE f == [Cur EXCEPT !.catches = c]
           m == With(frames, Depth, f)
<1>1. Cur \in Frame /\ pc \in Nat
  BY TopExists DEF IInv, TypeOK
<1>2. /\ status = "alive" /\ UNCHANGED status
      /\ frames' = Append(m, NewFrame(kind, "invoke", sync, pc))
  BY DEF InvokeAs, Running
<1>3. /\ f \in Frame /\ f.kind = Cur.kind /\ f.pending = Cur.pending
      /\ f.mark = Cur.mark
  BY <1>1, FrameEdits DEF Frame
<1> HIDE DEF f
<1>4. m \in Seq(Frame) /\ Len(m) = Depth /\ Excuses(m)
  BY <1>2, <1>3, ExcusedTop DEF MInv
<1> HIDE DEF m
<1> QED
  BY <1>1, <1>2, <1>4, MarksPush

LEMMA MarksAddFrame ==
  ASSUME IInv, MInv, InitialClinit \/ CallBack \/ Uncaught
  PROVE  MInv'
<1>1. /\ pc \in Nat /\ Cur.ret \in Nat /\ frames \in Seq(Frame)
      /\ Len(frames) = Depth
  BY TopExists, Numbers DEF IInv, TypeOK, Depth
<1>2. \E ret \in Nat, site \in {"invoke", "native", "clinit", "dispatch"} :
        frames' = Append(frames, NewFrame("java", site, FALSE, ret))
  BY <1>1 DEF InitialClinit, CallBack, Uncaught, AddFrame
<1>3. status = "alive" /\ UNCHANGED status
  BY DEF InitialClinit, CallBack, Uncaught, AddFrame, Running, Thrown
<1>4. Excuses(frames)
  BY <1>3 DEF MInv
<1> QED
  BY <1>1, <1>2, <1>3, <1>4, MarksPush

LEMMA MarksNativeThrow ==
  ASSUME IInv, MInv, NEW e \in Exceptions, NativeThrow(e)
  PROVE  MInv'
<1> DEFINE n == Depth
           k == Depth - 1
           b == Marked(frames[k])
           below == With(frames, k, b)
           f == [Cur EXCEPT !.pending = e]
           m == With(below, n, f)
           g == NewFrame("java", "native", FALSE, pc)
<1>1. /\ Cur \in Frame /\ pc \in Nat /\ frames \in Seq(Frame)
      /\ n \in Nat \ {0} /\ n = Len(frames) /\ n \in 1 .. n
  BY TopExists DEF IInv, TypeOK, Depth
<1>2. /\ status = "alive" /\ UNCHANGED status /\ Cur.kind = "native"
      /\ frames' = Append(m, g)
  BY DEF NativeThrow, Running
<1>3. k \in 1 .. n /\ frames[k] \in Frame
  BY <1>2, TopFrame, BelowTop DEF Native
<1>4. b \in Frame /\ b.kind = frames[k].kind /\ b.pending = frames[k].pending
  BY <1>3, FrameEdits DEF Marked, Frame
<1>5. f \in Frame /\ f.kind = "native" /\ f.pending = e /\ e # None
  BY <1>1, <1>2, FrameEdits, FramesAssumption DEF Frame
<1>6. Excuses(frames)
  BY <1>2 DEF MInv
<1>7. n = k + 1 /\ n # k
  BY <1>1
<1> HIDE DEF n, k, b, f
<1>8. /\ below \in Seq(Frame) /\ Len(below) = n /\ below[k] = b
      /\ \A i \in 1 .. n : i # k => below[i] = frames[i]
  BY <1>1, <1>3, <1>4, WithSeq
<1> HIDE DEF below
<1>9. /\ m \in Seq(Frame) /\ Len(m) = n /\ m[n] = f
      /\ \A i \in 1 .. n : i # n => m[i] = below[i]
  <2>1. n \in 1 .. Len(below) /\ f \in Frame /\ below \in Seq(Frame)
    BY <1>1, <1>5, <1>8
  <2>2. /\ With(below, n, f) \in Seq(Frame)
        /\ Len(With(below, n, f)) = Len(below)
        /\ With(below, n, f)[n] = f
        /\ \A i \in 1 .. Len(below) : i # n => With(below, n, f)[i] = below[i]
    BY <2>1, WithSeq
  <2> QED
    BY <1>8, <2>2
<1> HIDE DEF m
<1>10. ASSUME NEW i \in 1 .. n, i # n PROVE Excused(m[i], m[i + 1])
  <2>1. CASE i = k
    BY <1>5, <1>7, <1>9, <2>1 DEF Excused
  <2>2. CASE i # k
    <3>1. i + 1 \in 1 .. n /\ i + 1 # n /\ Excused(frames[i], frames[i + 1])
      <4>1. i + 1 \in 1 .. n /\ i + 1 # n
        BY <1>1, <1>3, <1>7, <1>10, <2>2
      <4>2. Excused(frames[i], frames[i + 1])
        BY <1>1, <1>6, <1>10 DEF Excuses
      <4> QED
        BY <4>1, <4>2
    <3>2. m[i] = frames[i] /\ m[i + 1] = below[i + 1]
      BY <1>8, <1>9, <1>10, <2>2, <3>1
    <3>3. /\ m[i + 1].kind = frames[i + 1].kind
          /\ m[i + 1].pending = frames[i + 1].pending
      BY <1>4, <1>8, <3>1, <3>2
    <3> QED
      BY <3>1, <3>2, <3>3 DEF Excused
  <2> QED
    BY <2>1, <2>2
<1>11. Silent(m[n])
  BY <1>5, <1>9 DEF Silent
<1>12. Excuses(m)
  BY <1>9, <1>10, <1>11 DEF Excuses
<1>13. m \in Seq(Frame) /\ Len(m) = Depth /\ frames' = Append(m, g)
  BY <1>2, <1>9 DEF n
<1> QED
  BY <1>1, <1>2, <1>12, <1>13, MarksPush

LEMMA MarksStay ==
  ASSUME IInv, MInv,
         \/ MonitorEnter \/ MonitorExit \/ Handle
         \/ \E e \in Exceptions, c \in SUBSET Exceptions : Throw(e, c)
  PROVE  MInv'
<1>1. Cur \in Frame
  BY TopExists DEF IInv
<1>2. status = "alive" /\ UNCHANGED status /\ Excuses(frames)
  BY DEF MonitorEnter, MonitorExit, Handle, Throw, Running, Thrown, MInv
<1>3. CASE Handle
  BY <1>2, <1>3 DEF Handle, MInv
<1>4. CASE \/ MonitorEnter \/ MonitorExit
           \/ \E e \in Exceptions, c \in SUBSET Exceptions : Throw(e, c)
  <2>1. \E f \in Frame :
          /\ f.kind = Cur.kind /\ f.pending = Cur.pending /\ f.mark = Cur.mark
          /\ frames' = With(frames, Depth, f)
    <3>1. Cur.locks \in Nat
      BY <1>1, Numbers
    <3>2. CASE MonitorEnter
      <4> DEFINE f == [Cur EXCEPT !.locks = Cur.locks + 1]
      <4>1. Cur.locks + 1 \in 0 .. MaxLocks /\ frames' = With(frames, Depth, f)
        BY <1>1, <3>1, <3>2, FramesAssumption DEF MonitorEnter, Frame
      <4>2. /\ f \in Frame /\ f.kind = Cur.kind /\ f.pending = Cur.pending
            /\ f.mark = Cur.mark
        BY <1>1, <4>1, FrameEdits DEF Frame
      <4> QED
        BY <4>1, <4>2
    <3>3. CASE MonitorExit
      <4> DEFINE f == [Cur EXCEPT !.locks = Cur.locks - 1]
      <4>1. Cur.locks - 1 \in 0 .. MaxLocks /\ frames' = With(frames, Depth, f)
        BY <1>1, <3>1, <3>3, FramesAssumption DEF MonitorExit, Frame
      <4>2. /\ f \in Frame /\ f.kind = Cur.kind /\ f.pending = Cur.pending
            /\ f.mark = Cur.mark
        BY <1>1, <4>1, FrameEdits DEF Frame
      <4> QED
        BY <4>1, <4>2
    <3>4. ASSUME NEW e \in Exceptions, NEW c \in SUBSET Exceptions, Throw(e, c)
          PROVE  \E f \in Frame :
                   /\ f.kind = Cur.kind /\ f.pending = Cur.pending
                   /\ f.mark = Cur.mark
                   /\ frames' = With(frames, Depth, f)
      <4> DEFINE f == [Cur EXCEPT !.catches = c]
      <4>1. frames' = With(frames, Depth, f)
        BY <3>4 DEF Throw
      <4>2. /\ f \in Frame /\ f.kind = Cur.kind /\ f.pending = Cur.pending
            /\ f.mark = Cur.mark
        BY <1>1, FrameEdits DEF Frame
      <4> QED
        BY <4>1, <4>2
    <3> QED
      BY <1>4, <3>2, <3>3, <3>4
  <2>2. Excuses(frames')
    BY <1>2, <2>1, ExcusedTop
  <2> QED
    BY <1>2, <2>2 DEF MInv
<1> QED
  BY <1>3, <1>4

(* In a marked frame the result is an exception: the assert holds.         *)
LEMMA MarksAfterInvoke ==
  ASSUME IInv, MInv, status = "alive", Cur.site = "invoke",
         NEW r \in Exceptions \union {None}, NEW marked \in BOOLEAN,
         frames[Depth - 1].mark \/ marked => r # None,
         AfterInvoke(r, marked)
  PROVE  MInv'
<1> DEFINE caller == frames[Depth - 1]
<1>1. Excuses(frames) /\ caller \in Frame
  BY BelowTop DEF MInv
<1>2. CASE ~caller.mark /\ ~marked
  <2>1. frames' = Popped /\ UNCHANGED status /\ Silent(caller)
    BY <1>2 DEF AfterInvoke, Silent
  <2>2. Excuses(frames')
    BY <1>1, <2>1, ExcusedPop
  <2> QED
    BY <2>1, <2>2 DEF MInv
<1>3. CASE caller.mark \/ marked
  <2>1. frames' = With(Popped, Depth - 1, Unmarked(caller)) /\ UNCHANGED status
    BY <1>3 DEF AfterInvoke
  <2>2. /\ Unmarked(caller) \in Frame /\ Silent(Unmarked(caller))
        /\ Unmarked(caller).kind = caller.kind
        /\ Unmarked(caller).pending = caller.pending
    BY <1>1, FrameEdits DEF Unmarked, Silent, Frame
  <2>3. Excuses(frames')
    BY <1>1, <2>1, <2>2, ExcusedPop
  <2> QED
    BY <2>1, <2>3 DEF MInv
<1> QED
  BY <1>2, <1>3

LEMMA MarksReturn ==
  ASSUME IInv, MInv,
         NativeReturn \/ \E r \in Exceptions \union {None} : Return(r)
  PROVE  MInv'
<1> DEFINE below == frames[Depth - 1]
<1>1. /\ status = "alive" /\ exc = None /\ Excuses(frames) /\ Cur \in Frame
      /\ Cur.pending \in Exceptions \union {None} /\ Native(Cur) /\ FALSE \in BOOLEAN
  BY TopExists, TopFrame, Numbers DEF NativeReturn, Return, Running, MInv, IInv
<1>2. CASE NativeReturn
  <2>1. Cur.site = "invoke" /\ AfterInvoke(Cur.pending, FALSE)
    BY <1>1, <1>2 DEF NativeReturn, Running, Native
  <2>2. below.mark => Cur.pending # None
    BY <1>1, <2>1, ExcusedBelow DEF Excused
  <2> QED
    BY <1>1, <2>1, <2>2, MarksAfterInvoke
<1>3. ASSUME NEW r \in Exceptions \union {None}, Return(r) PROVE MInv'
  <2>1. Cur.kind = "java"
    BY <1>3 DEF Return, Running
  <2>2. CASE Cur.site \in {"bottom", "dispatch"} /\ EndThread /\ UNCHANGED frames
    BY <1>1, <2>2 DEF EndThread, MInv
  <2>3. CASE Cur.site = "invoke" /\ AfterInvoke(r, FALSE)
    <3>1. ~below.mark
      BY <1>1, <2>1, <2>3, ExcusedBelow DEF Excused
    <3> QED
      BY <1>1, <2>3, <3>1, MarksAfterInvoke
  <2>4. CASE /\ Cur.site \in {"native", "clinit"}
             /\ frames' = Popped /\ UNCHANGED <<exc, status>>
    <3>1. below \in Frame /\ Silent(below) /\ Cur.site # "bottom"
      BY <1>1, <2>1, <2>4, ExcusedBelow, BelowTop DEF Excused, Silent
    <3>2. Excuses(frames')
      BY <1>1, <2>4, <3>1, ExcusedPop
    <3> QED
      BY <1>1, <2>4, <3>2 DEF MInv
  <2> QED
    BY <1>3, <2>2, <2>3, <2>4 DEF Return
<1> QED
  BY <1>2, <1>3

LEMMA MarksUnwind ==
  ASSUME IInv, MInv, Unwind, ~ClinitsThrow
  PROVE  MInv'
<1> DEFINE below == frames[Depth - 1]
<1>1. /\ status = "alive" /\ exc # None /\ exc \notin Cur.catches
      /\ exc \in Exceptions /\ Depth > 1 /\ Excuses(frames)
  BY DEF Unwind, Thrown, IInv, TypeOK, MInv
<1>2. Cur.site # "bottom" /\ Cur.site # "clinit"
  <2>1. Guarded(Cur)
    BY <1>1 DEF IInv, TopOK
  <2> QED
    BY <1>1, <2>1, TopFrame DEF Guarded
<1>3. /\ below \in Frame /\ Marked(below) \in Frame
      /\ Marked(below).kind = below.kind /\ Marked(below).pending = below.pending
  BY <1>2, BelowTop, FrameEdits DEF Marked, Frame
<1>4. CASE Cur.site = "invoke" /\ AfterInvoke(exc, TRUE)
  <2>1. exc \in Exceptions \union {None} /\ TRUE \in BOOLEAN
    BY <1>1
  <2> QED
    BY <1>1, <1>4, <2>1, MarksAfterInvoke
<1>5. CASE Cur.site = "dispatch" /\ EndThread
  BY <1>5 DEF EndThread, MInv
<1>6. CASE /\ Cur.site = "native"
           /\ frames' = With(Popped, Depth - 1, Marked(below))
           /\ UNCHANGED status
  <2>1. Silent(Marked(below))
    BY <1>1, <1>3, <1>6, ExcusedBelow DEF Silent
  <2>2. Excuses(frames')
    BY <1>1, <1>2, <1>3, <1>6, <2>1, ExcusedPop
  <2> QED
    BY <1>1, <1>6, <2>2 DEF MInv
<1> QED
  BY <1>2, <1>4, <1>5, <1>6 DEF Unwind

LEMMA MarksInit == ASSUME Init PROVE MInv
<1>1. IInv
  BY InvInit
<1>2. Len(frames) = 1 /\ frames[1].mark = FALSE
  BY DEF Init
<1> QED
  BY <1>2 DEF Init, MInv, Excuses, Silent

LEMMA MarksStep ==
  ASSUME IInv, MInv, Next, ~ClinitsThrow
  PROVE  MInv'
<1>1. ASSUME NEW sync \in BOOLEAN, NEW c \in SUBSET Exceptions,
             InvokeJava(sync, c) \/ InvokeNative(sync, c)
      PROVE  MInv'
  BY <1>1, MarksInvoke DEF InvokeJava, InvokeNative
<1> QED
  BY <1>1, MarksAddFrame, MarksNativeThrow, MarksStay, MarksReturn, MarksUnwind
  DEF Next

(* Where no <clinit> throws, the mark of a java frame is gone when java    *)
(* code goes on in it, and the asserts behind the invocations hold.        *)
THEOREM MarksDoNotStay ==
  ASSUME ~ClinitsThrow
  PROVE  Spec => []MarksAreConsumed
<1>1. IInv /\ MInv /\ [Next]_vars => MInv'
  <2>1. ASSUME MInv, UNCHANGED vars PROVE MInv'
    BY <2>1 DEF MInv, vars
  <2> QED
    BY <2>1, MarksStep
<1>2. ASSUME IInv, MInv PROVE MarksAreConsumed
  <2>1. DOMAIN frames = 1 .. Len(frames) /\ Len(frames) \in 1 .. Len(frames)
    BY <1>2, TopExists DEF IInv, Depth
  <2>2. CASE status = "uncaught"
    BY <1>2, <2>2 DEF MarksAreConsumed, MInv
  <2>3. CASE status # "uncaught"
    <3>1. ASSUME NEW i \in 1 .. Len(frames),
                 frames[i].kind = "java", frames[i].mark
          PROVE  /\ i < Len(frames)
                 /\ frames[i + 1].kind = "native" /\ frames[i + 1].pending # None
      <4>1. i # Len(frames)
        BY <1>2, <2>3, <3>1 DEF MInv, Excuses, Silent
      <4>2. Excused(frames[i], frames[i + 1])
        BY <1>2, <2>3, <4>1 DEF MInv, Excuses
      <4> QED
        BY <2>1, <3>1, <4>1, <4>2 DEF Excused
    <3> QED
      BY <1>2, <2>1, <3>1 DEF MarksAreConsumed, MInv, Depth
  <2> QED
    BY <2>2, <2>3
<1> QED
  BY Invariant, MarksInit, <1>1, <1>2, PTL DEF Spec

(* Where no <clinit> throws, an exception at hand changes only when a      *)
(* handler takes it, a native gets it or the thread ends.                  *)
THEOREM ExceptionsStay ==
  ASSUME ~ClinitsThrow
  PROVE  Spec => NoExceptionLost
<1>1. ASSUME IInv, Next, exc # None, exc' # exc
      PROVE  exc \in Cur.catches \/ Cur.site \in {"bottom", "native"}
  <2>1. CASE Handle
    BY <2>1 DEF Handle
  <2>2. CASE Uncaught
    BY <1>1, <2>2, TopFrame DEF Uncaught
  <2>3. CASE Unwind
    <3>1. Cur.site # "clinit"
      <4>1. exc \in Exceptions /\ Guarded(Cur) /\ exc \notin Cur.catches
        BY <1>1, <2>3 DEF IInv, TypeOK, TopOK, Unwind
      <4> QED
        BY <4>1 DEF Guarded
    <3> QED
      BY <1>1, <2>3, <3>1 DEF Unwind, AfterInvoke, EndThread
  <2>4. CASE exc = None
    BY <1>1, <2>4
  <2> QED
    BY <1>1, <2>1, <2>2, <2>3, <2>4
    DEF Next, InvokeJava, InvokeNative, InvokeAs, InitialClinit, CallBack,
        NativeThrow, MonitorEnter, MonitorExit, Return, NativeReturn, Throw, Running
<1>2. IInv /\ [Next]_vars =>
        [exc # None /\ exc' # exc =>
           exc \in Cur.catches \/ Cur.site \in {"bottom", "native"}]_vars
  BY <1>1 DEF vars
<1> QED
  BY Invariant, <1>2, PTL DEF Spec, NoExceptionLost
=============================================================================
