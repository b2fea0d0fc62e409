------------------------- MODULE TouchBridgeProofs -------------------------
(* Theorems about TouchBridge, for any number of fingers and keys and any  *)
(* capacity of the guest's socket.                                         *)
EXTENDS TouchBridge, SequenceTheorems, FiniteSetTheorems, WellFoundedInduction, TLAPS

-----------------------------------------------------------------------------
(* Sequences.                                                              *)

LEMMA ConcatIs ==
  ASSUME NEW S, NEW q \in Seq(S), NEW f \in Seq(S)
  PROVE  /\ q \o f \in Seq(S) /\ Len(q \o f) = Len(q) + Len(f)
         /\ Len(q) \in Nat /\ Len(f) \in Nat
         /\ \A i \in 1..Len(q) : (q \o f)[i] = q[i]
         /\ \A i \in 1..Len(f) : (q \o f)[Len(q) + i] = f[i]
<1>1. Len(q) \in Nat /\ Len(f) \in Nat  BY LenProperties
<1>2. /\ q \o f \in Seq(S) /\ Len(q \o f) = Len(q) + Len(f)
      /\ \A i \in 1..(Len(q) + Len(f)) :
           (q \o f)[i] = IF i <= Len(q) THEN q[i] ELSE f[i - Len(q)]
  BY ConcatProperties
<1>3. ASSUME NEW i \in 1..Len(q) PROVE (q \o f)[i] = q[i]
  BY <1>1, <1>2
<1>4. ASSUME NEW i \in 1..Len(f) PROVE (q \o f)[Len(q) + i] = f[i]
  <2>1. Len(q) + i \in 1..(Len(q) + Len(f)) /\ ~(Len(q) + i <= Len(q))
        /\ (Len(q) + i) - Len(q) = i  BY <1>1
  <2>2. (q \o f)[Len(q) + i] = f[(Len(q) + i) - Len(q)]  BY <1>2, <2>1
  <2> QED BY <2>1, <2>2
<1> QED BY <1>1, <1>2, <1>3, <1>4

LEMMA TailIs ==
  ASSUME NEW S, NEW q \in Seq(S), q # <<>>
  PROVE  /\ Tail(q) \in Seq(S) /\ Len(q) \in Nat \ {0} /\ Len(Tail(q)) = Len(q) - 1
         /\ Head(q) = q[1] /\ q[1] \in S
         /\ \A i \in 1..(Len(q) - 1) : Tail(q)[i] = q[i + 1]
<1>1. Len(q) \in Nat \ {0}  BY EmptySeq, LenProperties
<1>2. q[1] \in S  BY <1>1, ElementOfSeq
<1>3. Tail(q) \in Seq(S) /\ Len(Tail(q)) = Len(q) - 1 /\ Head(q) = q[1]
      /\ \A i \in 1..Len(Tail(q)) : Tail(q)[i] = q[i + 1]
  BY HeadTailProperties
<1> QED BY <1>1, <1>2, <1>3

(* A datagram that is written moves from one sequence to the other.        *)
LEMMA Moved ==
  ASSUME NEW S, NEW q \in Seq(S), NEW o \in Seq(S), o # <<>>
  PROVE  /\ Append(q, Head(o)) \in Seq(S) /\ Len(Append(q, Head(o))) = Len(q) + 1
         /\ Append(q, Head(o)) \o Tail(o) = q \o o
<1>1. /\ Tail(o) \in Seq(S) /\ Len(o) \in Nat \ {0} /\ Len(Tail(o)) = Len(o) - 1
      /\ Head(o) = o[1] /\ o[1] \in S /\ \A i \in 1..(Len(o) - 1) : Tail(o)[i] = o[i + 1]
  BY TailIs
<1> DEFINE a == Append(q, Head(o))
<1>2. a \in Seq(S) /\ Len(a) = Len(q) + 1 /\ a[Len(q) + 1] = o[1] /\ Len(q) \in Nat
      /\ \A i \in 1..Len(q) : a[i] = q[i]
  BY <1>1, AppendProperties, LenProperties
<1> HIDE DEF a
<1>3. PICK b : b = Tail(o)  OBVIOUS
<1>4. b \in Seq(S)  BY <1>1, <1>3
<1>5. /\ a \o b \in Seq(S) /\ Len(a \o b) = Len(a) + Len(b)
      /\ \A i \in 1..Len(a) : (a \o b)[i] = a[i]
      /\ \A i \in 1..Len(b) : (a \o b)[Len(a) + i] = b[i]
  <2>1. a \in Seq(S)  BY <1>2
  <2>2. \A u \in Seq(S) : \A w \in Seq(S) :
          /\ u \o w \in Seq(S) /\ Len(u \o w) = Len(u) + Len(w)
          /\ \A i \in 1..Len(u) : (u \o w)[i] = u[i]
          /\ \A i \in 1..Len(w) : (u \o w)[Len(u) + i] = w[i]
    BY ConcatIs
  <2> QED BY <1>4, <2>1, <2>2
<1>6. /\ a \o Tail(o) \in Seq(S) /\ Len(a \o Tail(o)) = Len(a) + Len(Tail(o))
      /\ \A i \in 1..Len(a) : (a \o Tail(o))[i] = a[i]
      /\ \A i \in 1..Len(Tail(o)) : (a \o Tail(o))[Len(a) + i] = Tail(o)[i]
  BY <1>3, <1>5
<1>7. /\ q \o o \in Seq(S) /\ Len(q \o o) = Len(q) + Len(o)
      /\ \A i \in 1..Len(q) : (q \o o)[i] = q[i]
      /\ \A i \in 1..Len(o) : (q \o o)[Len(q) + i] = o[i]
  BY ConcatIs
<1>8. Len(a \o Tail(o)) = Len(q \o o)  BY <1>1, <1>2, <1>6, <1>7
<1>9. ASSUME NEW i \in 1..Len(q \o o) PROVE (a \o Tail(o))[i] = (q \o o)[i]
  <2>1. CASE i <= Len(q)
    <3>1. i \in 1..Len(q) /\ i \in 1..Len(a)  BY <1>2, <2>1
    <3> QED BY <1>2, <1>6, <1>7, <3>1
  <2>2. CASE i = Len(q) + 1
    <3>1. i \in 1..Len(a) /\ 1 \in 1..Len(o)  BY <1>1, <1>2, <2>2
    <3>2. (q \o o)[Len(q) + 1] = o[1]  BY <1>7, <3>1
    <3> QED BY <1>2, <1>6, <2>2, <3>1, <3>2
  <2>3. CASE i > Len(q) + 1
    <3>1. PICK j \in 1..(Len(o) - 1) : i = Len(a) + j /\ i = Len(q) + (j + 1)
      <4>1. i \in Nat /\ Len(a) = Len(q) + 1 /\ i <= Len(q) + Len(o) /\ Len(q) \in Nat
            /\ Len(o) \in Nat
        BY <1>1, <1>2, <1>7
      <4>2. i - Len(a) \in 1..(Len(o) - 1)  BY <2>3, <4>1
      <4>3. i = Len(a) + (i - Len(a)) /\ i = Len(q) + ((i - Len(a)) + 1)  BY <4>1
      <4> QED BY <4>2, <4>3
    <3>2. j \in 1..Len(Tail(o)) /\ j + 1 \in 1..Len(o)  BY <1>1, <3>1
    <3>3. (a \o Tail(o))[Len(a) + j] = Tail(o)[j] /\ (q \o o)[Len(q) + (j + 1)] = o[j + 1]
      BY <1>6, <1>7, <3>2
    <3> QED BY <1>1, <3>1, <3>3
  <2> QED BY <1>2, <1>7, <2>1, <2>2, <2>3
<1>10. a \o Tail(o) = q \o o  BY <1>6, <1>7, <1>8, <1>9, SeqEqual
<1> QED BY <1>2, <1>10 DEF a

-----------------------------------------------------------------------------
(* The pointers of a touch event.                                          *)

(* A set of natural numbers has a least one.                               *)
LEMMA Least ==
  ASSUME NEW T, T \subseteq Nat, T # {}
  PROVE  \E n \in T : \A m \in T : n <= m
<1> DEFINE R == {ss \in Nat \X Nat : ss[1] < ss[2]}
<1>1. R = OpToRel(<, Nat)  BY Zenon DEF OpToRel
<1>2. IsWellFoundedOn(R, Nat)  BY <1>1, NatLessThanWellFounded, Zenon
<1>3. \E n \in T : \A m \in T : ~(<<m, n>> \in R)
  <2> HIDE DEF R
  <2> QED BY <1>2, WFMin
<1>4. PICK n \in T : \A m \in T : ~(<<m, n>> \in R)  BY <1>3
<1>5. ASSUME NEW m \in T PROVE n <= m
  <2>1. <<m, n>> \notin R BY <1>4
  <2> QED BY <2>1
<1> QED BY <1>5

Below(S, f) == {g \in S : g < f}

LEMMA FingersAre ==
  ASSUME NEW S \in SUBSET Fingers
  PROVE  S \subseteq Nat /\ IsFiniteSet(S) /\ Cardinality(S) \in 0..MaxFingers
<1>1. MaxFingers \in Nat /\ Fingers \subseteq Nat  BY TouchBridgeAssumption DEF Fingers
<1>2. IsFiniteSet(0..(MaxFingers - 1)) /\ Cardinality(0..(MaxFingers - 1)) = MaxFingers
  BY <1>1, TouchBridgeAssumption, FS_Interval
<1>3. IsFiniteSet(S) /\ Cardinality(S) <= MaxFingers  BY <1>2, FS_Subset DEF Fingers
<1>4. Cardinality(S) \in Nat  BY <1>3, FS_CardinalityType
<1> QED BY <1>1, <1>3, <1>4

(* The members of a set of fingers can be counted from the lowest.         *)
LEMMA Counted ==
  ASSUME NEW S \in SUBSET Fingers, NEW i \in 1..Cardinality(S)
  PROVE  \E f \in S : Cardinality(Below(S, f)) = i - 1
<1>1. S \subseteq Nat /\ IsFiniteSet(S) /\ Cardinality(S) \in Nat  BY FingersAre
<1> DEFINE T == {m \in 1..Cardinality(S) : ~\E f \in S : Cardinality(Below(S, f)) = m - 1}
<1>2. SUFFICES ASSUME T # {} PROVE FALSE  OBVIOUS
<1>3. PICK m \in T : \A j \in T : m <= j
  <2>1. T \subseteq Nat  OBVIOUS
  <2> HIDE DEF T
  <2> QED BY <1>2, <2>1, Least
<1>4. m # 1
  <2>1. S # {}  BY <1>1, FS_EmptySet
  <2>2. PICK f \in S : \A g \in S : f <= g  BY <1>1, <2>1, Least
  <2>3. Below(S, f) = {}
    <3>1. \A g \in S : ~(g < f)  BY <1>1, <2>2
    <3> QED BY <3>1 DEF Below
  <2>4. Cardinality(Below(S, f)) = 0  BY <2>3, FS_EmptySet
  <2> QED BY <2>2, <2>4
<1>5. m \in 1..Cardinality(S) /\ m - 1 \in 1..Cardinality(S) /\ ~(m <= m - 1)  BY <1>1, <1>4
<1>6. PICK f \in S : Cardinality(Below(S, f)) = (m - 1) - 1  BY <1>3, <1>5
<1> DEFINE lower == Below(S, f) \cup {f}
<1>7. IsFiniteSet(lower) /\ Cardinality(lower) = m - 1
  <2>1. Below(S, f) \subseteq S /\ f \notin Below(S, f)  BY <1>1 DEF Below
  <2>2. IsFiniteSet(Below(S, f))  BY <1>1, <2>1, FS_Subset
  <2>3. IsFiniteSet(lower) /\ Cardinality(lower) = Cardinality(Below(S, f)) + 1
    BY <2>1, <2>2, FS_AddElement
  <2> QED BY <1>5, <1>6, <2>3
<1>8. {g \in S : f < g} # {}
  <2>1. SUFFICES ASSUME {g \in S : f < g} = {} PROVE FALSE  OBVIOUS
  <2>2. S = lower
    <3>1. ASSUME NEW g \in S PROVE g \in lower
      <4>1. ~(f < g) /\ g \in Nat /\ f \in Nat  BY <1>1, <2>1
      <4> QED BY <4>1 DEF Below
    <3>2. lower \subseteq S  BY DEF Below
    <3> QED BY <3>1, <3>2
  <2>3. Cardinality(S) = m - 1  BY <1>7, <2>2
  <2> QED BY <1>1, <1>5, <2>3
<1>9. PICK h \in {g \in S : f < g} : \A g \in {e \in S : f < e} : h <= g
  <2>1. {g \in S : f < g} \subseteq Nat  BY <1>1
  <2> QED BY <1>8, <2>1, Least
<1>10. Below(S, h) = lower
  <2>1. ASSUME NEW g \in S, g < h PROVE g \in lower
    <3>1. ~(f < g)  BY <1>1, <1>9, <2>1
    <3>2. g \in Nat /\ f \in Nat  BY <1>1
    <3> QED BY <3>1, <3>2 DEF Below
  <2>2. ASSUME NEW g \in lower PROVE g \in S /\ g < h
    <3>1. f \in Nat /\ h \in Nat /\ f < h  BY <1>1, <1>9
    <3>2. g \in S /\ g \in Nat /\ (g < f \/ g = f)  BY <1>1 DEF Below
    <3> QED BY <3>1, <3>2
  <2> QED BY <2>1, <2>2 DEF Below
<1>11. h \in S /\ Cardinality(Below(S, h)) = m - 1  BY <1>7, <1>9, <1>10
<1> QED BY <1>11

LEMMA PointersAre ==
  ASSUME NEW S \in SUBSET Fingers
  PROVE  Pointers(S) \in Seq(Fingers) /\ Len(Pointers(S)) = Cardinality(S)
<1> DEFINE n == Cardinality(S)
<1>1. n \in Nat  BY FingersAre
<1>2. ASSUME NEW i \in 1..n
      PROVE  (CHOOSE f \in S : Cardinality({g \in S : g < f}) = i - 1) \in Fingers
  <2>1. \E f \in S : Cardinality({g \in S : g < f}) = i - 1  BY Counted DEF Below
  <2> QED BY <2>1
<1> DEFINE p == [i \in 1..n |-> CHOOSE f \in S : Cardinality({g \in S : g < f}) = i - 1]
<1>3. p \in [1..n -> Fingers]  BY <1>2
<1>4. Pointers(S) = p  BY DEF Pointers
<1> HIDE DEF p
<1>5. p \in Seq(Fingers)  BY <1>1, <1>3, SeqDef
<1>6. Len(p) = n
  <2>1. DOMAIN p = 1..n /\ DOMAIN p = 1..Len(p) /\ Len(p) \in Nat
    BY <1>3, <1>5, LenProperties
  <2> QED BY <1>1, <2>1
<1> QED BY <1>4, <1>5, <1>6

-----------------------------------------------------------------------------
(* Events and frames.                                                      *)

LEMMA EventIs ==
  ASSUME NEW e \in Events
  PROVE  /\ e.type \in {"slot", "id", "press", "release", "sync"}
         /\ e.type = "slot" => e.value \in Slots
         /\ e.type = "id" => e.value \in Fingers \cup {Free}
         /\ e.type \in {"press", "release"} => e.key \in Keys
BY DEF Events, Sync

Lift == {"up", "cancel"}

SaysSlot(e, s) == e.type = "slot" /\ e.value = s
SaysId(e, v)   == e.type = "id" /\ e.value = v

(* What a touch event is written as: pairs of a slot and an id, and then   *)
(* nothing but what concerns the button.                                   *)
FrameIs(f, action, ids) ==
  /\ f \in Seq(Events) /\ Len(f) >= 2 * Len(ids) /\ Len(ids) \in Nat /\ Len(f) \in Nat
  /\ \A j \in 1..Len(ids) :
       /\ SaysSlot(f[2 * j - 1], j - 1)
       /\ SaysId(f[2 * j], IF action \in Lift THEN Free ELSE ids[j])
  /\ \A j \in 1..Len(f) : j > 2 * Len(ids) =>
       /\ f[j].type \in {"press", "release", "sync"}
       /\ f[j].type \in {"press", "release"} => f[j].key = BtnTouch
       /\ f[j].type = "press" => action \in {"down", "pointer_down"}
  /\ action \in Lift =>
       \E j \in 1..Len(f) : f[j].type = "release" /\ f[j].key = BtnTouch

LEMMA Single ==
  ASSUME NEW S, NEW e \in S PROVE <<e>> \in Seq(S) /\ Len(<<e>>) = 1 /\ <<e>>[1] = e
OBVIOUS

LEMMA FrameOf ==
  ASSUME NEW action \in Actions, NEW ids \in Seq(Fingers), Len(ids) <= MaxFingers
  PROVE  FrameIs(Frame(action, ids), action, ids)
<1> DEFINE n == Len(ids)
           pairs == [k \in 1..(2 * n) |->
                       IF k % 2 = 1 THEN Event("slot", k \div 2)
                       ELSE Event("id", IF action \in {"up", "cancel"} THEN Free ELSE ids[k \div 2])]
<1>1. n \in Nat /\ \A j \in 1..n : ids[j] \in Fingers  BY LenProperties, ElementOfSeq
<1>2. ASSUME NEW j \in 1..n
      PROVE  /\ 2 * j - 1 \in 1..(2 * n) /\ 2 * j \in 1..(2 * n)
             /\ pairs[2 * j - 1] = Event("slot", j - 1)
             /\ pairs[2 * j] = Event("id", IF action \in Lift THEN Free ELSE ids[j])
  <2>1. 2 * j - 1 \in 1..(2 * n) /\ (2 * j - 1) % 2 = 1 /\ (2 * j - 1) \div 2 = j - 1  BY <1>1
  <2>2. 2 * j \in 1..(2 * n) /\ (2 * j) % 2 = 0 /\ (2 * j) \div 2 = j  BY <1>1
  <2>3. pairs[2 * j - 1] = Event("slot", j - 1)  BY <2>1
  <2>4. pairs[2 * j] = Event("id", IF action \in Lift THEN Free ELSE ids[j])
    BY <2>2 DEF Lift
  <2> QED BY <2>1, <2>2, <2>3, <2>4
<1>3. ASSUME NEW k \in 1..(2 * n) PROVE pairs[k] \in Events
  <2>1. PICK j \in 1..n : k = 2 * j - 1 \/ k = 2 * j
    <3>1. (k + 1) \div 2 \in 1..n
          /\ (k = 2 * ((k + 1) \div 2) - 1 \/ k = 2 * ((k + 1) \div 2))  BY <1>1
    <3> QED BY <3>1
  <2>2. j - 1 \in Slots /\ ids[j] \in Fingers  BY <1>1, TouchBridgeAssumption DEF Slots
  <2>3. Event("slot", j - 1) \in Events  BY <2>2 DEF Events, Event
  <2>4. Event("id", IF action \in Lift THEN Free ELSE ids[j]) \in Events
    BY <2>2 DEF Events, Event
  <2> HIDE DEF pairs
  <2> QED BY <1>2, <2>1, <2>3, <2>4
<1> HIDE DEF pairs
<1>4. pairs \in Seq(Events) /\ Len(pairs) = 2 * n
  <2>1. pairs \in [1..(2 * n) -> Events]  BY <1>3 DEF pairs
  <2>2. 2 * n \in Nat  BY <1>1
  <2>3. pairs \in Seq(Events)  BY <2>1, <2>2, SeqDef
  <2>4. DOMAIN pairs = 1..(2 * n) /\ DOMAIN pairs = 1..Len(pairs) /\ Len(pairs) \in Nat
    BY <2>1, <2>3, LenProperties
  <2> QED BY <2>2, <2>3, <2>4
<1>5. PICK b : b = Button(action)  OBVIOUS
<1>6. /\ b \in Seq(Events) /\ Len(b) \in {0, 1}
      /\ \A j \in 1..Len(b) : /\ b[j].type \in {"press", "release"} /\ b[j].key = BtnTouch
                              /\ b[j].type = "press" => action \in {"down", "pointer_down"}
      /\ action \in Lift => Len(b) = 1 /\ b[1].type = "release" /\ b[1].key = BtnTouch
  <2>1. KeyEvent(BtnTouch, TRUE) \in Events /\ KeyEvent(BtnTouch, FALSE) \in Events
    BY DEF KeyEvent, Events, Keys
  <2>2. CASE action \in {"down", "pointer_down"}
    <3>1. b = <<KeyEvent(BtnTouch, TRUE)>>  BY <1>5, <2>2 DEF Button
    <3>2. b \in Seq(Events) /\ Len(b) = 1 /\ b[1] = KeyEvent(BtnTouch, TRUE)
      BY <2>1, <3>1, Single
    <3> QED BY <2>2, <3>2 DEF KeyEvent, Lift
  <2>3. CASE action \in Lift
    <3>1. b = <<KeyEvent(BtnTouch, FALSE)>>  BY <1>5, <2>3 DEF Button, Lift
    <3>2. b \in Seq(Events) /\ Len(b) = 1 /\ b[1] = KeyEvent(BtnTouch, FALSE)
      BY <2>1, <3>1, Single
    <3> QED BY <3>2 DEF KeyEvent
  <2>4. CASE action \notin {"down", "pointer_down"} /\ action \notin Lift
    <3>1. b = <<>>  BY <1>5, <2>4 DEF Button, Lift
    <3> QED BY <2>4, <3>1
  <2> QED BY <2>2, <2>3, <2>4
<1>7. PICK s : s = <<Sync>>  OBVIOUS
<1>8. s \in Seq(Events) /\ Len(s) = 1 /\ s[1] = Sync
  <2>1. Sync \in Events  BY DEF Events
  <2> QED BY <1>7, <2>1
<1>9. \A u \in Seq(Events) : \A w \in Seq(Events) :
        /\ u \o w \in Seq(Events) /\ Len(u \o w) = Len(u) + Len(w)
        /\ \A i \in 1..Len(u) : (u \o w)[i] = u[i]
        /\ \A i \in 1..Len(w) : (u \o w)[Len(u) + i] = w[i]
  BY ConcatIs
<1>10. PICK x : x = pairs \o b  OBVIOUS
<1>11. /\ x \in Seq(Events) /\ Len(x) = 2 * n + Len(b)
       /\ \A i \in 1..(2 * n) : x[i] = pairs[i]
       /\ \A i \in 1..Len(b) : x[2 * n + i] = b[i]
  BY <1>4, <1>6, <1>9, <1>10
<1>12. PICK f : f = x \o s  OBVIOUS
<1>13. /\ f \in Seq(Events) /\ Len(f) = Len(x) + 1
       /\ \A i \in 1..Len(x) : f[i] = x[i]
       /\ f[Len(x) + 1] = Sync
  <2>1. 1 \in 1..Len(s)  BY <1>8
  <2>2. /\ x \o s \in Seq(Events) /\ Len(x \o s) = Len(x) + Len(s)
        /\ \A i \in 1..Len(x) : (x \o s)[i] = x[i]
        /\ (x \o s)[Len(x) + 1] = s[1]
    BY <1>8, <1>9, <1>11, <2>1
  <2> QED BY <1>8, <1>12, <2>2
<1>14. Frame(action, ids) = f
  BY <1>5, <1>7, <1>10, <1>12 DEF Frame, pairs
<1>15. Len(f) = 2 * n + Len(b) + 1 /\ Len(b) \in Nat /\ 2 * n \in Nat  BY <1>1, <1>6, <1>11, <1>13
<1>16. ASSUME NEW j \in 1..n
       PROVE  /\ SaysSlot(f[2 * j - 1], j - 1)
              /\ SaysId(f[2 * j], IF action \in Lift THEN Free ELSE ids[j])
  <2>1. ASSUME NEW i \in 1..(2 * n) PROVE f[i] = pairs[i]
    <3>1. i \in 1..Len(x)  BY <1>11, <1>15
    <3> QED BY <1>11, <1>13, <3>1
  <2>2. PICK v : v = IF action \in Lift THEN Free ELSE ids[j]  OBVIOUS
  <2>3. f[2 * j - 1] = Event("slot", j - 1)  BY <1>2, <2>1
  <2>4. f[2 * j] = Event("id", v)  BY <1>2, <2>1, <2>2
  <2>5. SaysSlot(f[2 * j - 1], j - 1)  BY <2>3 DEF SaysSlot, Event
  <2>6. SaysId(f[2 * j], v)  BY <2>4 DEF SaysId, Event
  <2> QED BY <2>2, <2>5, <2>6
<1>17. ASSUME NEW j \in 1..Len(f), j > 2 * n
       PROVE  /\ f[j].type \in {"press", "release", "sync"}
              /\ f[j].type \in {"press", "release"} => f[j].key = BtnTouch
              /\ f[j].type = "press" => action \in {"down", "pointer_down"}
  <2>1. CASE j = Len(x) + 1  BY <1>13, <2>1 DEF Sync
  <2>2. CASE j # Len(x) + 1
    <3>1. j - 2 * n \in 1..Len(b) /\ j = 2 * n + (j - 2 * n) /\ j \in 1..Len(x)
      BY <1>11, <1>15, <1>17, <2>2
    <3>2. PICK i \in 1..Len(b) : j = 2 * n + i  BY <3>1
    <3>3. f[j] = b[i]  BY <1>11, <1>13, <3>1, <3>2
    <3> QED BY <1>6, <3>3
  <2> QED BY <2>1, <2>2
<1>18. ASSUME action \in Lift PROVE \E j \in 1..Len(f) : f[j].type = "release" /\ f[j].key = BtnTouch
  <2>1. Len(b) = 1 /\ b[1].type = "release" /\ b[1].key = BtnTouch  BY <1>6, <1>18
  <2>2. 2 * n + 1 \in 1..Len(x) /\ 2 * n + 1 \in 1..Len(f)  BY <1>11, <1>15, <2>1
  <2>3. f[2 * n + 1] = b[1]
    <3>1. 1 \in 1..Len(b)  BY <2>1
    <3> QED BY <1>11, <1>13, <2>2, <3>1
  <2> QED BY <2>1, <2>2, <2>3
<1>19. Len(f) >= 2 * n /\ Len(f) \in Nat  BY <1>15
<1>20. FrameIs(f, action, ids)
  <2> HIDE DEF n
  <2> QED BY <1>1, <1>13, <1>16, <1>17, <1>18, <1>19 DEF FrameIs, n
<1> QED BY <1>14, <1>20

(* Every place of a frame is in a pair or behind them.                     *)
LEMMA FramePlace ==
  ASSUME NEW f, NEW action, NEW ids, FrameIs(f, action, ids), NEW i \in 1..Len(f)
  PROVE  \/ i > 2 * Len(ids)
         \/ \E j \in 1..Len(ids) : i = 2 * j - 1 /\ SaysSlot(f[i], j - 1)
         \/ \E j \in 1..Len(ids) :
              i = 2 * j /\ SaysId(f[i], IF action \in Lift THEN Free ELSE ids[j])
<1>1. Len(ids) \in Nat /\ Len(f) \in Nat  BY DEF FrameIs
<1>2. ASSUME i <= 2 * Len(ids)
      PROVE  \E j \in 1..Len(ids) : i = 2 * j - 1 \/ i = 2 * j
  <2>1. (i + 1) \div 2 \in 1..Len(ids)
        /\ (i = 2 * ((i + 1) \div 2) - 1 \/ i = 2 * ((i + 1) \div 2))  BY <1>1, <1>2
  <2> QED BY <2>1
<1>3. CASE i <= 2 * Len(ids)  BY <1>2, <1>3 DEF FrameIs
<1> QED BY <1>1, <1>3

-----------------------------------------------------------------------------
(* What a guest will find once it has read all that is pending.            *)

(* The slot an event at place i is about, with a slot selected before.     *)
Cursor(es, sl, i) == IF i = 1 THEN sl ELSE es[i - 1].value

IdAt(es, sl, s, i) == es[i].type = "id" /\ Cursor(es, sl, i) = s

(* Slot s will hold the id v: the last event says so, or none says other.  *)
HoldsId(es, sl, tr, s, v) ==
  \/ \E i \in 1..Len(es) : /\ IdAt(es, sl, s, i) /\ es[i].value = v
                           /\ \A j \in 1..Len(es) : j > i => ~IdAt(es, sl, s, j)
  \/ tr[s] = v /\ \A i \in 1..Len(es) : ~IdAt(es, sl, s, i)

PressAt(es, k, i)   == es[i].type = "press" /\ es[i].key = k
ReleaseAt(es, k, i) == es[i].type = "release" /\ es[i].key = k

(* Key k will be up.                                                       *)
ComesUp(es, down, k) ==
  \/ \E i \in 1..Len(es) : /\ ReleaseAt(es, k, i)
                           /\ \A j \in 1..Len(es) : j > i => ~PressAt(es, k, j)
  \/ k \notin down /\ \A i \in 1..Len(es) : ~PressAt(es, k, i)

(* Every id comes after its slot, but perhaps the first.                   *)
Paired(es) == \A i \in 2..Len(es) : es[i].type = "id" => es[i - 1].type = "slot"

(* What the guest makes of an event.                                       *)
NextSlot(e, sl)     == IF e.type = "slot" THEN e.value ELSE sl
NextIds(e, sl, tr)  == IF e.type = "id" THEN [tr EXCEPT ![sl] = e.value] ELSE tr
NextDown(e, down)   == CASE e.type = "press"   -> down \cup {e.key}
                         [] e.type = "release" -> down \ {e.key}
                         [] OTHER              -> down

(* Reading the first event leaves what will be found as it is.             *)
LEMMA ReadKeepsIds ==
  ASSUME NEW es \in Seq(Events), es # <<>>, Paired(es), NEW sl \in Slots,
         NEW tr \in [Slots -> Fingers \cup {Free}], NEW s \in Slots, NEW v,
         HoldsId(es, sl, tr, s, v)
  PROVE  HoldsId(Tail(es), NextSlot(es[1], sl), NextIds(es[1], sl, tr), s, v)
<1> DEFINE n == Len(es)
           ts == Tail(es)
           sl2 == NextSlot(es[1], sl)
           tr2 == NextIds(es[1], sl, tr)
<1>1. /\ n \in Nat \ {0} /\ Len(ts) = n - 1
      /\ \A i \in 1..(n - 1) : ts[i] = es[i + 1]
  BY TailIs
<1> HIDE DEF ts, sl2, tr2
<1>2. ASSUME NEW i \in 1..(n - 1)
      PROVE  IdAt(ts, sl2, s, i) <=> IdAt(es, sl, s, i + 1)
  <2>1. ts[i] = es[i + 1] /\ i + 1 # 1 /\ (i + 1) - 1 = i  BY <1>1
  <2>2. CASE es[i + 1].type # "id"  BY <2>1, <2>2 DEF IdAt
  <2>3. CASE es[i + 1].type = "id"
    <3>1. i + 1 \in 2..n  BY <1>1
    <3>2. es[i].type = "slot"  BY <2>1, <2>3, <3>1 DEF Paired
    <3>3. Cursor(ts, sl2, i) = es[i].value
      <4>1. CASE i = 1  BY <3>2, <4>1 DEF Cursor, sl2, NextSlot
      <4>2. CASE i # 1
        <5>1. i - 1 \in 1..(n - 1) /\ (i - 1) + 1 = i  BY <1>1, <4>2
        <5>2. ts[i - 1] = es[i]  BY <1>1, <5>1
        <5> QED BY <4>2, <5>2 DEF Cursor
      <4> QED BY <4>1, <4>2
    <3>4. Cursor(es, sl, i + 1) = es[i].value  BY <2>1 DEF Cursor
    <3> QED BY <2>1, <3>3, <3>4 DEF IdAt
  <2> QED BY <2>2, <2>3
<1>3. CASE \E i \in 1..n : /\ IdAt(es, sl, s, i) /\ es[i].value = v
                           /\ \A j \in 1..n : j > i => ~IdAt(es, sl, s, j)
  <2>1. PICK i \in 1..n : /\ IdAt(es, sl, s, i) /\ es[i].value = v
                          /\ \A j \in 1..n : j > i => ~IdAt(es, sl, s, j)  BY <1>3
  <2>2. ASSUME NEW j \in 1..(n - 1), j > i - 1 PROVE ~IdAt(ts, sl2, s, j)
    <3>1. j + 1 \in 1..n /\ j + 1 > i  BY <1>1, <2>2
    <3> QED BY <1>2, <2>1, <3>1
  <2>3. CASE i = 1
    <3>1. es[1].type = "id" /\ sl = s /\ es[1].value = v  BY <2>1, <2>3 DEF IdAt, Cursor
    <3>2. tr2[s] = v  BY <3>1 DEF tr2, NextIds
    <3>3. \A j \in 1..(n - 1) : ~IdAt(ts, sl2, s, j)
      <4>1. ASSUME NEW j \in 1..(n - 1) PROVE j > i - 1  BY <2>3
      <4> QED BY <2>2, <4>1
    <3> QED BY <1>1, <3>2, <3>3 DEF HoldsId, ts, sl2, tr2
  <2>4. CASE i # 1
    <3>1. i - 1 \in 1..(n - 1) /\ (i - 1) + 1 = i  BY <1>1, <2>4
    <3>2. ts[i - 1] = es[i] /\ IdAt(ts, sl2, s, i - 1)  BY <1>1, <1>2, <2>1, <3>1
    <3>3. \E k \in 1..(n - 1) : /\ IdAt(ts, sl2, s, k) /\ ts[k].value = v
                                /\ \A j \in 1..(n - 1) : j > k => ~IdAt(ts, sl2, s, j)
      BY <2>1, <2>2, <3>1, <3>2
    <3> QED BY <1>1, <3>3 DEF HoldsId, ts, sl2, tr2
  <2> QED BY <2>3, <2>4
<1>4. CASE tr[s] = v /\ \A i \in 1..n : ~IdAt(es, sl, s, i)
  <2>1. \A j \in 1..(n - 1) : ~IdAt(ts, sl2, s, j)
    <3>1. ASSUME NEW j \in 1..(n - 1) PROVE ~IdAt(ts, sl2, s, j)
      <4>1. j + 1 \in 1..n  BY <1>1
      <4> QED BY <1>2, <1>4, <4>1
    <3> QED BY <3>1
  <2>2. ~IdAt(es, sl, s, 1)
    <3>1. 1 \in 1..n  BY <1>1
    <3> QED BY <1>4, <3>1
  <2>3. tr2[s] = v  BY <1>4, <2>2 DEF tr2, NextIds, IdAt, Cursor
  <2> QED BY <1>1, <2>1, <2>3 DEF HoldsId, ts, sl2, tr2
<1> QED BY <1>3, <1>4 DEF HoldsId

LEMMA ReadKeepsKeys ==
  ASSUME NEW es \in Seq(Events), es # <<>>, NEW down, NEW k, ComesUp(es, down, k)
  PROVE  ComesUp(Tail(es), NextDown(es[1], down), k)
<1> DEFINE n == Len(es)
           ts == Tail(es)
           down2 == NextDown(es[1], down)
<1>1. /\ n \in Nat \ {0} /\ Len(ts) = n - 1
      /\ \A i \in 1..(n - 1) : ts[i] = es[i + 1]
  BY TailIs
<1> HIDE DEF ts, down2
<1>2. ASSUME NEW i \in 1..(n - 1)
      PROVE  /\ PressAt(ts, k, i) <=> PressAt(es, k, i + 1)
             /\ ReleaseAt(ts, k, i) <=> ReleaseAt(es, k, i + 1)
             /\ i + 1 \in 1..n
  <2>1. i + 1 \in 1..n  BY <1>1
  <2> QED BY <1>1, <2>1 DEF PressAt, ReleaseAt
<1>3. CASE \E i \in 1..n : /\ ReleaseAt(es, k, i)
                           /\ \A j \in 1..n : j > i => ~PressAt(es, k, j)
  <2>1. PICK i \in 1..n : /\ ReleaseAt(es, k, i)
                          /\ \A j \in 1..n : j > i => ~PressAt(es, k, j)  BY <1>3
  <2>2. ASSUME NEW j \in 1..(n - 1), j > i - 1 PROVE ~PressAt(ts, k, j)
    <3>1. j + 1 \in 1..n /\ j + 1 > i  BY <1>1, <2>2
    <3> QED BY <1>2, <2>1, <3>1
  <2>3. CASE i = 1
    <3>1. es[1].type = "release" /\ es[1].key = k  BY <2>1, <2>3 DEF ReleaseAt
    <3>2. k \notin down2  BY <3>1 DEF down2, NextDown
    <3>3. \A j \in 1..(n - 1) : ~PressAt(ts, k, j)
      <4>1. ASSUME NEW j \in 1..(n - 1) PROVE j > i - 1  BY <2>3
      <4> QED BY <2>2, <4>1
    <3> QED BY <1>1, <3>2, <3>3 DEF ComesUp, ts, down2
  <2>4. CASE i # 1
    <3>1. i - 1 \in 1..(n - 1) /\ (i - 1) + 1 = i  BY <1>1, <2>4
    <3>2. ReleaseAt(ts, k, i - 1)  BY <1>2, <2>1, <3>1
    <3>3. \E m \in 1..(n - 1) : /\ ReleaseAt(ts, k, m)
                                /\ \A j \in 1..(n - 1) : j > m => ~PressAt(ts, k, j)
      BY <2>2, <3>1, <3>2
    <3> QED BY <1>1, <3>3 DEF ComesUp, ts, down2
  <2> QED BY <2>3, <2>4
<1>4. CASE k \notin down /\ \A i \in 1..n : ~PressAt(es, k, i)
  <2>1. \A j \in 1..(n - 1) : ~PressAt(ts, k, j)  BY <1>2, <1>4
  <2>2. ~PressAt(es, k, 1)
    <3>1. 1 \in 1..n  BY <1>1
    <3> QED BY <1>4, <3>1
  <2>3. k \notin down2  BY <1>4, <2>2 DEF down2, NextDown, PressAt
  <2> QED BY <1>1, <2>1, <2>3 DEF ComesUp, ts, down2
<1> QED BY <1>3, <1>4 DEF ComesUp

(* Events that say nothing of a slot or a key leave it as it will be.      *)
LEMMA QuietKeepsIds ==
  ASSUME NEW q \in Seq(Events), NEW f \in Seq(Events), \A i \in 1..Len(f) : f[i].type # "id",
         NEW sl, NEW tr, NEW s, NEW v, HoldsId(q, sl, tr, s, v)
  PROVE  HoldsId(q \o f, sl, tr, s, v)
<1> DEFINE n == Len(q)
           es == q \o f
<1>1. /\ n \in Nat /\ Len(f) \in Nat /\ Len(es) = n + Len(f)
      /\ \A i \in 1..n : es[i] = q[i]
      /\ \A i \in 1..Len(f) : es[n + i] = f[i]
  BY ConcatIs
<1> HIDE DEF es
<1>2. ASSUME NEW i \in 1..n PROVE i \in 1..Len(es) /\ (IdAt(es, sl, s, i) <=> IdAt(q, sl, s, i))
  <2>1. Cursor(es, sl, i) = Cursor(q, sl, i)
    <3>1. CASE i = 1  BY <3>1 DEF Cursor
    <3>2. CASE i # 1
      <4>1. i - 1 \in 1..n  BY <1>1, <3>2
      <4> QED BY <1>1, <4>1 DEF Cursor
    <3> QED BY <3>1, <3>2
  <2> QED BY <1>1, <2>1 DEF IdAt
<1>3. ASSUME NEW i \in 1..Len(es), ~(i \in 1..n) PROVE ~IdAt(es, sl, s, i)
  <2>1. i - n \in 1..Len(f) /\ i = n + (i - n)  BY <1>1, <1>3
  <2>2. PICK j \in 1..Len(f) : i = n + j  BY <2>1
  <2>3. es[i] = f[j]  BY <1>1, <2>2
  <2> QED BY <2>3 DEF IdAt
<1>4. CASE \E i \in 1..n : /\ IdAt(q, sl, s, i) /\ q[i].value = v
                           /\ \A j \in 1..n : j > i => ~IdAt(q, sl, s, j)
  <2>1. PICK i \in 1..n : /\ IdAt(q, sl, s, i) /\ q[i].value = v
                          /\ \A j \in 1..n : j > i => ~IdAt(q, sl, s, j)  BY <1>4
  <2>2. i \in 1..Len(es) /\ IdAt(es, sl, s, i) /\ es[i].value = v  BY <1>1, <1>2, <2>1
  <2>3. \A j \in 1..Len(es) : j > i => ~IdAt(es, sl, s, j)  BY <1>2, <1>3, <2>1
  <2> QED BY <2>2, <2>3 DEF HoldsId, es
<1>5. CASE tr[s] = v /\ \A i \in 1..n : ~IdAt(q, sl, s, i)
  <2>1. \A j \in 1..Len(es) : ~IdAt(es, sl, s, j)  BY <1>2, <1>3, <1>5
  <2> QED BY <1>5, <2>1 DEF HoldsId, es
<1> QED BY <1>4, <1>5 DEF HoldsId

LEMMA QuietKeepsKeys ==
  ASSUME NEW q \in Seq(Events), NEW f \in Seq(Events), NEW k,
         \A i \in 1..Len(f) : ~PressAt(f, k, i), NEW down, ComesUp(q, down, k)
  PROVE  ComesUp(q \o f, down, k)
<1> DEFINE n == Len(q)
           es == q \o f
<1>1. /\ n \in Nat /\ Len(f) \in Nat /\ Len(es) = n + Len(f)
      /\ \A i \in 1..n : es[i] = q[i]
      /\ \A i \in 1..Len(f) : es[n + i] = f[i]
  BY ConcatIs
<1> HIDE DEF es
<1>2. ASSUME NEW i \in 1..n
      PROVE  /\ i \in 1..Len(es) /\ (PressAt(es, k, i) <=> PressAt(q, k, i))
             /\ ReleaseAt(es, k, i) <=> ReleaseAt(q, k, i)
  BY <1>1 DEF PressAt, ReleaseAt
<1>3. ASSUME NEW i \in 1..Len(es), ~(i \in 1..n) PROVE ~PressAt(es, k, i)
  <2>1. i - n \in 1..Len(f) /\ i = n + (i - n)  BY <1>1, <1>3
  <2>2. PICK j \in 1..Len(f) : i = n + j  BY <2>1
  <2>3. es[i] = f[j]  BY <1>1, <2>2
  <2> QED BY <2>2, <2>3 DEF PressAt
<1>4. CASE \E i \in 1..n : /\ ReleaseAt(q, k, i)
                           /\ \A j \in 1..n : j > i => ~PressAt(q, k, j)
  <2>1. PICK i \in 1..n : /\ ReleaseAt(q, k, i)
                          /\ \A j \in 1..n : j > i => ~PressAt(q, k, j)  BY <1>4
  <2>2. i \in 1..Len(es) /\ ReleaseAt(es, k, i)  BY <1>2, <2>1
  <2>3. \A j \in 1..Len(es) : j > i => ~PressAt(es, k, j)  BY <1>2, <1>3, <2>1
  <2> QED BY <2>2, <2>3 DEF ComesUp, es
<1>5. CASE k \notin down /\ \A i \in 1..n : ~PressAt(q, k, i)
  <2>1. \A j \in 1..Len(es) : ~PressAt(es, k, j)  BY <1>2, <1>3, <1>5
  <2> QED BY <1>5, <2>1 DEF ComesUp, es
<1> QED BY <1>4, <1>5 DEF ComesUp

(* A frame that releases a key and does not press it.                      *)
LEMMA ReleaseBrings ==
  ASSUME NEW q \in Seq(Events), NEW f \in Seq(Events), NEW k, NEW down,
         \A i \in 1..Len(f) : ~PressAt(f, k, i), \E i \in 1..Len(f) : ReleaseAt(f, k, i)
  PROVE  ComesUp(q \o f, down, k)
<1> DEFINE n == Len(q)
           es == q \o f
<1>1. /\ n \in Nat /\ Len(f) \in Nat /\ Len(es) = n + Len(f)
      /\ \A i \in 1..Len(f) : es[n + i] = f[i]
  BY ConcatIs
<1> HIDE DEF es
<1>2. PICK i \in 1..Len(f) : ReleaseAt(f, k, i)  OBVIOUS
<1>3. n + i \in 1..Len(es) /\ ReleaseAt(es, k, n + i)  BY <1>1, <1>2 DEF ReleaseAt
<1>4. ASSUME NEW j \in 1..Len(es), j > n + i PROVE ~PressAt(es, k, j)
  <2>1. j - n \in 1..Len(f) /\ j = n + (j - n)  BY <1>1, <1>4
  <2>2. PICK m \in 1..Len(f) : j = n + m  BY <2>1
  <2>3. es[j] = f[m]  BY <1>1, <2>2
  <2> QED BY <2>2, <2>3 DEF PressAt
<1> QED BY <1>3, <1>4 DEF ComesUp, es

(* A touch event puts its pointers into the first slots.                   *)
LEMMA FrameHolds ==
  ASSUME NEW q \in Seq(Events), NEW f, NEW action, NEW ids, FrameIs(f, action, ids),
         NEW sl, NEW tr, NEW j \in 1..Len(ids)
  PROVE  HoldsId(q \o f, sl, tr, j - 1, IF action \in Lift THEN Free ELSE ids[j])
<1> DEFINE n == Len(q)
           es == q \o f
           v  == IF action \in Lift THEN Free ELSE ids[j]
<1>1. f \in Seq(Events) /\ Len(ids) \in Nat /\ Len(f) >= 2 * Len(ids)  BY DEF FrameIs
<1>2. /\ n \in Nat /\ Len(f) \in Nat /\ Len(es) = n + Len(f)
      /\ \A i \in 1..Len(f) : es[n + i] = f[i]
  BY <1>1, ConcatIs
<1> HIDE DEF es, v
<1>3. ASSUME NEW m \in 1..Len(ids)
      PROVE  /\ n + 2 * m \in 1..Len(es) /\ n + 2 * m # 1
             /\ SaysSlot(es[(n + 2 * m) - 1], m - 1)
             /\ SaysId(es[n + 2 * m], IF action \in Lift THEN Free ELSE ids[m])
  <2>1. /\ 2 * m - 1 \in 1..Len(f) /\ 2 * m \in 1..Len(f)
        /\ n + (2 * m - 1) = (n + 2 * m) - 1 /\ n + 2 * m # 1 /\ n + 2 * m \in 1..Len(es)
    BY <1>1, <1>2
  <2>2. es[n + (2 * m - 1)] = f[2 * m - 1] /\ es[n + 2 * m] = f[2 * m]  BY <1>2, <2>1
  <2>3. /\ SaysSlot(f[2 * m - 1], m - 1)
        /\ SaysId(f[2 * m], IF action \in Lift THEN Free ELSE ids[m])
    BY DEF FrameIs
  <2> QED BY <2>1, <2>2, <2>3
<1>4. IdAt(es, sl, j - 1, n + 2 * j) /\ es[n + 2 * j].value = v
  BY <1>3 DEF IdAt, Cursor, SaysSlot, SaysId, v
<1>5. ASSUME NEW i \in 1..Len(es), i > n + 2 * j, IdAt(es, sl, j - 1, i) PROVE FALSE
  <2>1. i - n \in 1..Len(f) /\ i = n + (i - n)  BY <1>1, <1>2, <1>5
  <2>2. PICK p \in 1..Len(f) : i = n + p  BY <2>1
  <2>3. es[i] = f[p] /\ f[p].type = "id"  BY <1>2, <1>5, <2>2 DEF IdAt
  <2>4. \/ p > 2 * Len(ids)
        \/ \E m \in 1..Len(ids) : p = 2 * m - 1 /\ SaysSlot(f[p], m - 1)
        \/ \E m \in 1..Len(ids) :
             p = 2 * m /\ SaysId(f[p], IF action \in Lift THEN Free ELSE ids[m])
    BY FramePlace
  <2>5. ~(p > 2 * Len(ids))  BY <2>3 DEF FrameIs
  <2>6. PICK m \in 1..Len(ids) : p = 2 * m  BY <2>3, <2>4, <2>5 DEF SaysSlot
  <2>7. Cursor(es, sl, i) = m - 1  BY <1>3, <2>2, <2>6 DEF Cursor, SaysSlot
  <2>8. m - 1 # j - 1  BY <1>1, <1>2, <1>5, <2>2, <2>6
  <2> QED BY <1>5, <2>7, <2>8 DEF IdAt
<1>6. n + 2 * j \in 1..Len(es)  BY <1>3
<1> QED BY <1>4, <1>5, <1>6 DEF HoldsId, es, v

LEMMA PairedTail ==
  ASSUME NEW es \in Seq(Events), es # <<>>, Paired(es) PROVE Paired(Tail(es))
<1>1. /\ Len(es) \in Nat \ {0} /\ Len(Tail(es)) = Len(es) - 1
      /\ \A i \in 1..(Len(es) - 1) : Tail(es)[i] = es[i + 1]
  BY TailIs
<1>2. ASSUME NEW i \in 2..(Len(es) - 1), es[i + 1].type = "id"
      PROVE  es[(i - 1) + 1].type = "slot"
  <2>1. i + 1 \in 2..Len(es) /\ (i + 1) - 1 = (i - 1) + 1  BY <1>1
  <2> QED BY <1>2, <2>1 DEF Paired
<1>3. ASSUME NEW i \in 2..Len(Tail(es)), Tail(es)[i].type = "id"
      PROVE  Tail(es)[i - 1].type = "slot"
  <2>1. i \in 2..(Len(es) - 1) /\ i \in 1..(Len(es) - 1) /\ i - 1 \in 1..(Len(es) - 1)  BY <1>1
  <2>2. Tail(es)[i] = es[i + 1] /\ Tail(es)[i - 1] = es[(i - 1) + 1]  BY <1>1, <2>1
  <2> QED BY <1>2, <1>3, <2>1, <2>2
<1> QED BY <1>3 DEF Paired

LEMMA PairedJoin ==
  ASSUME NEW q \in Seq(Events), NEW f \in Seq(Events), Paired(q), Paired(f),
         Len(f) > 0 => f[1].type # "id"
  PROVE  Paired(q \o f)
<1> DEFINE es == q \o f
<1>1. /\ Len(q) \in Nat /\ Len(f) \in Nat /\ Len(es) = Len(q) + Len(f)
      /\ \A i \in 1..Len(q) : es[i] = q[i]
      /\ \A i \in 1..Len(f) : es[Len(q) + i] = f[i]
  BY ConcatIs
<1> HIDE DEF es
<1>2. ASSUME NEW i \in 2..Len(es), es[i].type = "id" PROVE es[i - 1].type = "slot"
  <2>1. CASE i <= Len(q)
    <3>1. i \in 1..Len(q) /\ i - 1 \in 1..Len(q) /\ i \in 2..Len(q)  BY <1>1, <2>1
    <3> QED BY <1>1, <1>2, <3>1 DEF Paired
  <2>2. CASE i > Len(q)
    <3>1. i - Len(q) \in 1..Len(f) /\ i = Len(q) + (i - Len(q))  BY <1>1, <2>2
    <3>2. PICK j \in 1..Len(f) : i = Len(q) + j  BY <3>1
    <3>3. f[j].type = "id" /\ j # 1  BY <1>1, <1>2, <3>2
    <3>4. j \in 2..Len(f) /\ j - 1 \in 1..Len(f) /\ i - 1 = Len(q) + (j - 1)  BY <1>1, <3>2, <3>3
    <3>5. f[j - 1].type = "slot"  BY <3>3, <3>4 DEF Paired
    <3> QED BY <1>1, <3>4, <3>5
  <2> QED BY <1>1, <2>1, <2>2
<1> QED BY <1>2 DEF Paired, es

LEMMA FramePaired ==
  ASSUME NEW f, NEW action, NEW ids, FrameIs(f, action, ids)
  PROVE  Paired(f) /\ (Len(f) > 0 => f[1].type # "id")
<1>1. Len(f) \in Nat /\ Len(ids) \in Nat  BY DEF FrameIs
<1>2. ASSUME NEW i \in 1..Len(f), f[i].type = "id"
      PROVE  \E j \in 1..Len(ids) : i = 2 * j /\ f[2 * j - 1].type = "slot"
  <2>1. ~(i > 2 * Len(ids))  BY <1>2 DEF FrameIs
  <2>2. PICK j \in 1..Len(ids) : i = 2 * j  BY <1>2, <2>1, FramePlace DEF SaysSlot
  <2>3. f[2 * j - 1].type = "slot"  BY DEF FrameIs, SaysSlot
  <2> QED BY <2>2, <2>3
<1>3. ASSUME NEW i \in 2..Len(f), f[i].type = "id" PROVE f[i - 1].type = "slot"
  <2>1. i \in 1..Len(f)  BY <1>1
  <2> QED BY <1>2, <1>3, <2>1
<1>4. ASSUME Len(f) > 0, f[1].type = "id" PROVE FALSE
  <2>1. 1 \in 1..Len(f)  BY <1>1, <1>4
  <2>2. PICK j \in 1..Len(ids) : 1 = 2 * j  BY <1>2, <1>4, <2>1
  <2> QED BY <1>1, <2>2
<1> QED BY <1>3, <1>4 DEF Paired

(* What a key is written as.                                               *)
LEMMA KeyFrameIs ==
  ASSUME NEW k \in Keys, NEW isDown \in BOOLEAN
  PROVE  /\ KeyFrame(k, isDown) \in Seq(Events) /\ Len(KeyFrame(k, isDown)) = 2
         /\ KeyFrame(k, isDown)[1] = KeyEvent(k, isDown)
         /\ KeyFrame(k, isDown)[2] = Sync
<1>1. KeyEvent(k, isDown) \in Events /\ Sync \in Events  BY DEF KeyEvent, Events
<1> QED BY <1>1 DEF KeyFrame

-----------------------------------------------------------------------------
(* The inductive invariant.                                                *)

Pending == queue \o out
Current == bound /\ ~cut

Unbound == ~bound => queue = <<>>

(* An id follows its slot, unless the guest came, or was gone, in between. *)
InPairs == Paired(queue) /\ Paired(out) /\ (opened \/ ~cut => Paired(Pending))

(* What is still to be written belongs to the last touch event, or to a    *)
(* key whose key-up is posted or just running.                             *)
OutIsLast ==
  \A i \in 1..Len(out) :
    /\ out[i].type = "slot" => out[i].value < Len(last.ids)
    /\ out[i].type = "id" => Len(last.ids) > 0 /\ (fingers = {} => out[i].value = Free)
    /\ out[i].type = "press" =>
         IF out[i].key = BtnTouch THEN fingers # {} ELSE posted[out[i].key] > 0

WithinMost ==
  /\ Len(last.ids) <= most
  /\ slot = 0 \/ slot < most
  /\ \A i \in 1..Len(queue) : /\ queue[i].type = "slot" => queue[i].value < most
                              /\ queue[i].type = "id" => most > 0
  /\ \A s \in Slots : tracking[s] # Free => s < most

(* The properties, of what the guest will find.                            *)
Released ==
  Current /\ fingers = {} => /\ HoldsId(Pending, slot, tracking, 0, Free)
                             /\ ComesUp(Pending, pressed, BtnTouch)

Placed ==
  Current /\ seen /\ last.action \in {"down", "pointer_down", "move"} =>
    \A i \in 1..Len(last.ids) : HoldsId(Pending, slot, tracking, i - 1, last.ids[i])

KeysUp == Current => \A k \in NavKeys : posted[k] = 0 => ComesUp(Pending, pressed, k)

TouchInv ==
  TypeOK /\ Unbound /\ InPairs /\ OutIsLast /\ WithinMost /\ Released /\ Placed /\ KeysUp

(* Types, as the steps use them.                                           *)
LEMMA Typed ==
  ASSUME TypeOK
  PROVE  /\ MaxFingers \in Nat \ {0} /\ Slots \subseteq Nat /\ 0 \in Slots /\ Fingers \subseteq Nat
         /\ last.ids \in Seq(Fingers) /\ Len(last.ids) \in Nat
         /\ most \in Nat /\ slot \in Nat /\ fingers \in SUBSET Fingers
         /\ Free \notin Nat
<1>1. last.ids \in Seq(Fingers)
  <2>1. last \in TouchEvents  BY DEF TypeOK
  <2>2. CASE last \in [action : Actions, ids : Seq(Fingers)]  BY <2>2
  <2>3. CASE last = NoTouch
    <3>1. last.ids = <<>>  BY <2>3 DEF NoTouch
    <3>2. <<>> \in Seq(Fingers)  OBVIOUS
    <3> QED BY <3>1, <3>2
  <2> QED BY <2>1, <2>2, <2>3 DEF TouchEvents
<1>2. Len(last.ids) \in Nat  BY <1>1, LenProperties
<1>3. MaxFingers \in Nat \ {0} /\ Slots \subseteq Nat /\ 0 \in Slots /\ Fingers \subseteq Nat
  BY TouchBridgeAssumption DEF Slots, Fingers
<1>4. most \in Nat /\ slot \in Nat  BY <1>3 DEF TypeOK
<1> QED BY <1>1, <1>2, <1>3, <1>4 DEF TypeOK, Free

LEMMA Initially == Init => TouchInv
<1> SUFFICES ASSUME Init PROVE TouchInv  OBVIOUS
<1>1. MaxFingers \in Nat \ {0} /\ MaxPosted \in Nat /\ Capacity \in Nat  BY TouchBridgeAssumption
<1>2. TypeOK
  <2>1. 0 \in Slots /\ 0 \in 0..MaxPosted /\ 0 \in 0..MaxFingers
    BY <1>1 DEF Slots
  <2>2. <<>> \in Seq(Events) /\ Len(<<>>) = 0  OBVIOUS
  <2>3. 0 <= Capacity  BY <1>1
  <2>4. NoSlots \in [Slots -> Fingers \cup {Free}] /\ NoTouch \in TouchEvents
    BY DEF NoSlots, TouchEvents
  <2> QED BY <2>1, <2>2, <2>3, <2>4 DEF Init, TypeOK
<1>3. queue = <<>> /\ out = <<>> /\ Len(<<>>) = 0 /\ bound = FALSE  BY DEF Init
<1>4. Pending = <<>>  BY <1>3 DEF Pending
<1>5. Unbound /\ InPairs /\ OutIsLast  BY <1>3, <1>4 DEF Unbound, InPairs, OutIsLast, Paired
<1>6. WithinMost
  <2>1. Len(last.ids) = 0 /\ most = 0 /\ slot = 0  BY DEF Init, NoTouch
  <2>2. \A s \in Slots : tracking[s] = Free  BY DEF Init, NoSlots
  <2> QED BY <1>3, <2>1, <2>2 DEF WithinMost
<1>7. Released /\ Placed /\ KeysUp  BY <1>3 DEF Released, Placed, KeysUp, Current
<1> QED BY <1>2, <1>5, <1>6, <1>7 DEF TouchInv

-----------------------------------------------------------------------------
(* The steps of the host.                                                  *)

(* What is pending when nothing waits to be written.                       *)
LEMMA Waiting ==
  ASSUME TypeOK, out = <<>> PROVE Pending = queue
BY DEF TypeOK, Pending

LEMMA TouchSent ==
  ASSUME TouchInv, NEW action \in Actions, NEW S \in SUBSET Fingers, S # {},
         SendTouch(action, S), fingers' \in SUBSET Fingers,
         fingers' = {} => action \in Lift, action \in {"down", "pointer_down"} => fingers' # {}
  PROVE  TouchInv'
<1>1. TypeOK /\ Unbound /\ InPairs /\ OutIsLast /\ WithinMost /\ Released /\ Placed /\ KeysUp
  BY DEF TouchInv
<1>2. PICK ids : ids = Pointers(S)  OBVIOUS
<1>3. ids \in Seq(Fingers) /\ Len(ids) \in 1..MaxFingers
  <2>1. IsFiniteSet(S) /\ Cardinality(S) \in 0..MaxFingers  BY FingersAre
  <2>2. Cardinality(S) # 0  BY <2>1, FS_EmptySet
  <2>3. Len(ids) = Cardinality(S) /\ ids \in Seq(Fingers)  BY <1>2, PointersAre
  <2> QED BY <2>1, <2>2, <2>3, TouchBridgeAssumption
<1>4. PICK f : f = Frame(action, ids)  OBVIOUS
<1>5. FrameIs(f, action, ids) /\ f \in Seq(Events)
  <2>1. Len(ids) <= MaxFingers  BY <1>3, TouchBridgeAssumption
  <2>2. FrameIs(f, action, ids)  BY <1>3, <1>4, <2>1, FrameOf
  <2> QED BY <2>2 DEF FrameIs
<1>6. /\ out = <<>> /\ UNCHANGED <<initialized, opened, posted, queue, bound, slot, tracking, pressed>>
      /\ last' = [action |-> action, ids |-> ids]
      /\ seen' = (seen \/ bound) /\ most' = Larger(most, Len(ids))
      /\ (out' = f /\ cut' = cut) \/ (out' = <<>> /\ cut' = TRUE)
  <2>1. Len(ids) = Cardinality(S)  BY <1>2, PointersAre
  <2> QED BY <1>2, <1>4, <2>1 DEF SendTouch, UiIsFree, Send, guestVars
<1>7. /\ MaxFingers \in Nat /\ most \in Nat /\ Len(ids) \in Nat /\ Len(ids) > 0
      /\ queue \in Seq(Events) /\ bound \in BOOLEAN /\ cut \in BOOLEAN
      /\ tracking \in [Slots -> Fingers \cup {Free}] /\ slot \in Slots
  BY <1>1, <1>3, Typed DEF TypeOK
<1>8. most' \in 0..MaxFingers /\ most <= most' /\ Len(ids) <= most' /\ most' \in Nat
  <2>1. most \in 0..MaxFingers  BY <1>1 DEF TypeOK
  <2> QED BY <1>3, <1>6, <1>7, <2>1 DEF Larger
<1>9. last'.ids = ids /\ last'.action = action  BY <1>6
<1>10. out' \in Seq(Events)
  <2>1. <<>> \in Seq(Events)  OBVIOUS
  <2> QED BY <1>5, <1>6, <2>1
<1>11. TypeOK'
  <2>1. last' \in TouchEvents /\ seen' \in BOOLEAN /\ cut' \in BOOLEAN
    BY <1>1, <1>3, <1>6 DEF TouchEvents, TypeOK
  <2> QED BY <1>1, <1>6, <1>8, <1>10, <2>1 DEF TypeOK
<1>12. Unbound'  BY <1>1, <1>6 DEF Unbound
<1>13. Pending' = queue \o out' /\ (out' = <<>> => Pending' = queue)
  BY <1>6, <1>7 DEF Pending
<1>14. InPairs'
  <2>1. Paired(queue)  BY <1>1 DEF InPairs
  <2>2. Paired(f) /\ (Len(f) > 0 => f[1].type # "id")  BY <1>5, FramePaired
  <2>3. Paired(queue \o f)  BY <1>5, <1>7, <2>1, <2>2, PairedJoin
  <2>4. Paired(<<>>)  BY DEF Paired
  <2> QED BY <1>6, <1>13, <2>1, <2>2, <2>3, <2>4 DEF InPairs
<1>15. OutIsLast'
  <2>1. CASE out' = <<>>  BY <2>1 DEF OutIsLast
  <2>2. CASE out' = f
    <3>1. ASSUME NEW i \in 1..Len(f)
          PROVE  /\ f[i].type = "slot" => f[i].value < Len(ids)
                 /\ f[i].type = "id" => (fingers' = {} => f[i].value = Free)
                 /\ f[i].type = "press" => f[i].key = BtnTouch /\ fingers' # {}
      <4>1. CASE i > 2 * Len(ids)  BY <1>5, <4>1 DEF FrameIs
      <4>2. CASE \E j \in 1..Len(ids) : i = 2 * j - 1 /\ SaysSlot(f[i], j - 1)
        <5>1. PICK j \in 1..Len(ids) : f[i].type = "slot" /\ f[i].value = j - 1
          BY <4>2 DEF SaysSlot
        <5> QED BY <1>7, <5>1
      <4>3. CASE \E j \in 1..Len(ids) :
                   i = 2 * j /\ SaysId(f[i], IF action \in Lift THEN Free ELSE ids[j])
        BY <4>3 DEF SaysId
      <4> QED BY <1>5, <4>1, <4>2, <4>3, FramePlace
    <3> QED BY <1>7, <1>9, <2>2, <3>1 DEF OutIsLast
  <2> QED BY <1>6, <2>1, <2>2
<1>16. WithinMost'
  <2>1. slot = 0 \/ slot < most'  BY <1>1, <1>7, <1>8, Typed DEF WithinMost
  <2>2. ASSUME NEW i \in 1..Len(queue)
        PROVE  /\ queue[i].type = "slot" => queue[i].value < most'
               /\ queue[i].type = "id" => most' > 0
    <3>1. /\ queue[i].type = "slot" => queue[i].value < most
          /\ queue[i].type = "id" => most > 0
      BY <1>1 DEF WithinMost
    <3>2. queue[i].type = "slot" => queue[i].value \in Nat
      <4>1. queue[i] \in Events  BY <1>7, ElementOfSeq
      <4> QED BY <1>1, <4>1, EventIs, Typed
    <3> QED BY <1>7, <1>8, <3>1, <3>2
  <2>3. ASSUME NEW s \in Slots, tracking[s] # Free PROVE s < most'
    <3>1. s < most /\ s \in Nat  BY <1>1, <2>3, Typed DEF WithinMost
    <3> QED BY <1>7, <1>8, <3>1
  <2> QED BY <1>6, <1>8, <1>9, <2>1, <2>2, <2>3 DEF WithinMost
<1>17. ASSUME Current' PROVE Pending' = queue \o f /\ Current
  BY <1>6, <1>7, <1>13, <1>17 DEF Current
<1>18. Released'
  <2>1. ASSUME Current', fingers' = {}
        PROVE  /\ HoldsId(queue \o f, slot, tracking, 0, Free)
               /\ ComesUp(queue \o f, pressed, BtnTouch)
    <3>1. action \in Lift  BY <2>1
    <3>2. 1 \in 1..Len(ids) /\ 1 - 1 = 0  BY <1>7
    <3>3. PICK v : v = IF action \in Lift THEN Free ELSE ids[1]  OBVIOUS
    <3>4. HoldsId(queue \o f, slot, tracking, 1 - 1, v)
      BY <1>5, <1>7, <3>2, <3>3, FrameHolds
    <3>5. HoldsId(queue \o f, slot, tracking, 0, Free)  BY <3>1, <3>2, <3>3, <3>4
    <3>6. \A i \in 1..Len(f) : ~PressAt(f, BtnTouch, i)
      <4>1. ASSUME NEW i \in 1..Len(f), f[i].type = "press" PROVE FALSE
        <5>1. out'[i].type = "press" /\ i \in 1..Len(out') /\ out'[i].key = BtnTouch
          <6>1. out' = f  BY <1>6, <2>1 DEF Current
          <6>2. i > 2 * Len(ids)  BY <1>5, <4>1, FramePlace DEF SaysSlot, SaysId
          <6>3. f[i].key = BtnTouch  BY <1>5, <4>1, <6>2 DEF FrameIs
          <6> QED BY <4>1, <6>1, <6>3
        <5> QED BY <1>15, <2>1, <5>1 DEF OutIsLast
      <4> QED BY <4>1 DEF PressAt
    <3>7. \E i \in 1..Len(f) : ReleaseAt(f, BtnTouch, i)
      BY <1>5, <3>1 DEF FrameIs, ReleaseAt
    <3>8. ComesUp(queue \o f, pressed, BtnTouch)
      BY <1>5, <1>7, <3>6, <3>7, ReleaseBrings
    <3> QED BY <3>5, <3>8
  <2> QED BY <1>6, <1>17, <2>1 DEF Released
<1>19. Placed'
  <2>1. ASSUME Current', action \in {"down", "pointer_down", "move"}, NEW i \in 1..Len(ids)
        PROVE  HoldsId(queue \o f, slot, tracking, i - 1, ids[i])
    <3>1. action \notin Lift  BY <2>1 DEF Lift
    <3>2. PICK v : v = IF action \in Lift THEN Free ELSE ids[i]  OBVIOUS
    <3>3. HoldsId(queue \o f, slot, tracking, i - 1, v)  BY <1>5, <1>7, <3>2, FrameHolds
    <3> QED BY <3>1, <3>2, <3>3
  <2> QED BY <1>6, <1>9, <1>17, <2>1 DEF Placed
<1>20. KeysUp'
  <2>1. ASSUME Current', NEW k \in NavKeys, posted[k] = 0
        PROVE  ComesUp(queue \o f, pressed, k)
    <3>1. ComesUp(queue, pressed, k)
      BY <1>1, <1>6, <1>17, <2>1, Waiting DEF KeysUp
    <3>2. k # BtnTouch  BY TouchBridgeAssumption DEF BtnTouch
    <3>3. \A i \in 1..Len(f) : ~PressAt(f, k, i)
      <4>1. ASSUME NEW i \in 1..Len(f), f[i].type = "press" PROVE f[i].key = BtnTouch
        <5>1. i > 2 * Len(ids)  BY <1>5, <4>1, FramePlace DEF SaysSlot, SaysId
        <5> QED BY <1>5, <4>1, <5>1 DEF FrameIs
      <4> QED BY <3>2, <4>1 DEF PressAt
    <3> QED BY <1>5, <1>7, <3>1, <3>3, QuietKeepsKeys
  <2> QED BY <1>6, <1>17, <2>1 DEF KeysUp
<1> QED BY <1>11, <1>12, <1>14, <1>15, <1>16, <1>18, <1>19, <1>20 DEF TouchInv

LEMMA KeySent ==
  ASSUME TouchInv, NEW k \in NavKeys, NEW isDown \in BOOLEAN, UiIsFree, Send(KeyFrame(k, isDown)),
         posted' \in [NavKeys -> 0..MaxPosted], isDown => posted'[k] > 0,
         \A j \in NavKeys : j # k => posted'[j] = posted[j],
         UNCHANGED <<initialized, opened, fingers, queue, guestVars, historyVars>>
  PROVE  TouchInv'
<1>1. TypeOK /\ Unbound /\ InPairs /\ WithinMost /\ Released /\ Placed /\ KeysUp
  BY DEF TouchInv
<1>2. PICK f : f = KeyFrame(k, isDown)  OBVIOUS
<1>3. /\ f \in Seq(Events) /\ Len(f) = 2
      /\ f[1].type = (IF isDown THEN "press" ELSE "release") /\ f[1].key = k /\ f[2].type = "sync"
  <2>1. k \in Keys  BY DEF Keys
  <2>2. f \in Seq(Events) /\ Len(f) = 2 /\ f[1] = KeyEvent(k, isDown) /\ f[2] = Sync
    BY <1>2, <2>1, KeyFrameIs
  <2> QED BY <2>2 DEF KeyEvent, Sync
<1>4. ASSUME NEW i \in 1..Len(f) PROVE i = 1 \/ i = 2
  BY <1>3
<1>5. /\ out = <<>>
      /\ (out' = f /\ cut' = cut) \/ (out' = <<>> /\ cut' = TRUE)
      /\ UNCHANGED <<initialized, opened, fingers, queue, bound, slot, tracking, pressed,
                     last, seen, most>>
  BY <1>1, <1>2 DEF UiIsFree, Send, guestVars, historyVars
<1>6. queue \in Seq(Events) /\ cut \in BOOLEAN  BY <1>1 DEF TypeOK
<1>7. TypeOK'
  <2>1. <<>> \in Seq(Events)  OBVIOUS
  <2>2. out' \in Seq(Events) /\ cut' \in BOOLEAN  BY <1>3, <1>5, <1>6, <2>1
  <2> QED BY <1>1, <1>5, <2>2 DEF TypeOK
<1>8. Unbound'  BY <1>1, <1>5 DEF Unbound
<1>9. Pending' = queue \o out' /\ (out' = <<>> => Pending' = queue)  BY <1>5, <1>6 DEF Pending
<1>10. InPairs'
  <2>1. Paired(queue)  BY <1>1 DEF InPairs
  <2>2. Paired(f) /\ (Len(f) > 0 => f[1].type # "id")
    <3>1. f[1].type # "id" /\ f[2].type # "id"  BY <1>3
    <3> QED BY <1>3, <3>1 DEF Paired
  <2>3. Paired(queue \o f)  BY <1>3, <1>6, <2>1, <2>2, PairedJoin
  <2>4. Paired(<<>>)  BY DEF Paired
  <2> QED BY <1>5, <1>9, <2>1, <2>2, <2>3, <2>4 DEF InPairs
<1>11. k # BtnTouch  BY TouchBridgeAssumption DEF BtnTouch
<1>12. OutIsLast'
  <2>1. CASE out' = <<>>  BY <2>1 DEF OutIsLast
  <2>2. CASE out' = f
    <3>1. ASSUME NEW i \in 1..Len(f)
          PROVE  /\ f[i].type \notin {"slot", "id"}
                 /\ f[i].type = "press" => f[i].key = k /\ posted'[k] > 0
      BY <1>3, <1>4
    <3> QED BY <1>11, <2>2, <3>1 DEF OutIsLast
  <2> QED BY <1>5, <2>1, <2>2
<1>13. WithinMost'  BY <1>1, <1>5 DEF WithinMost
<1>14. ASSUME Current' PROVE Pending' = queue \o f /\ Current /\ Pending = queue
  BY <1>1, <1>5, <1>6, <1>9, <1>14, Waiting DEF Current
<1>15. \A i \in 1..Len(f) : f[i].type # "id"  BY <1>3, <1>4
<1>16. ASSUME NEW j, j # k \/ ~isDown PROVE \A i \in 1..Len(f) : ~PressAt(f, j, i)
  BY <1>3, <1>4, <1>16 DEF PressAt
<1>17. Released'
  <2>1. ASSUME Current', fingers = {}
        PROVE  /\ HoldsId(queue \o f, slot, tracking, 0, Free)
               /\ ComesUp(queue \o f, pressed, BtnTouch)
    <3>1. HoldsId(queue, slot, tracking, 0, Free) /\ ComesUp(queue, pressed, BtnTouch)
      BY <1>1, <1>14, <2>1 DEF Released
    <3>2. HoldsId(queue \o f, slot, tracking, 0, Free)
      BY <1>3, <1>6, <1>15, <3>1, QuietKeepsIds
    <3>3. ComesUp(queue \o f, pressed, BtnTouch)
      BY <1>3, <1>6, <1>11, <1>16, <3>1, QuietKeepsKeys
    <3> QED BY <3>2, <3>3
  <2> QED BY <1>5, <1>14, <2>1 DEF Released
<1>18. Placed'
  <2>1. ASSUME Current', seen, last.action \in {"down", "pointer_down", "move"},
               NEW i \in 1..Len(last.ids)
        PROVE  HoldsId(queue \o f, slot, tracking, i - 1, last.ids[i])
    <3>1. HoldsId(queue, slot, tracking, i - 1, last.ids[i])
      BY <1>1, <1>14, <2>1 DEF Placed
    <3> QED BY <1>3, <1>6, <1>15, <3>1, QuietKeepsIds
  <2> QED BY <1>5, <1>14, <2>1 DEF Placed
<1>19. KeysUp'
  <2>1. ASSUME Current', NEW j \in NavKeys, posted'[j] = 0
        PROVE  ComesUp(queue \o f, pressed, j)
    <3>1. CASE j = k
      <4>1. ~isDown  BY <2>1, <3>1
      <4>2. ReleaseAt(f, j, 1) /\ 1 \in 1..Len(f)  BY <1>3, <3>1, <4>1 DEF ReleaseAt
      <4>3. \A i \in 1..Len(f) : ~PressAt(f, j, i)  BY <1>16, <4>1
      <4> QED BY <1>3, <1>6, <4>2, <4>3, ReleaseBrings
    <3>2. CASE j # k
      <4>1. ComesUp(queue, pressed, j)  BY <1>1, <1>14, <2>1, <3>2 DEF KeysUp
      <4>2. \A i \in 1..Len(f) : ~PressAt(f, j, i)  BY <1>16, <3>2
      <4> QED BY <1>3, <1>6, <4>1, <4>2, QuietKeepsKeys
    <3> QED BY <3>1, <3>2
  <2> QED BY <1>5, <1>14, <2>1 DEF KeysUp
<1> QED BY <1>7, <1>8, <1>10, <1>12, <1>13, <1>17, <1>18, <1>19 DEF TouchInv

LEMMA KeyStays ==
  ASSUME TouchInv, NEW k \in NavKeys, PressKey(k) \/ ReleaseKey(k) PROVE TouchInv'
<1>1. posted \in [NavKeys -> 0..MaxPosted] /\ posted[k] \in 0..MaxPosted /\ MaxPosted \in Nat
  BY TouchBridgeAssumption DEF TouchInv, TypeOK
<1>2. CASE PressKey(k)
  <2>1. posted[k] + 1 \in 0..MaxPosted /\ posted[k] + 1 > 0  BY <1>1, <1>2 DEF PressKey
  <2>2. posted' = [posted EXCEPT ![k] = posted[k] + 1]  BY <1>2 DEF PressKey
  <2>3. /\ posted' \in [NavKeys -> 0..MaxPosted] /\ posted'[k] > 0
        /\ \A j \in NavKeys : j # k => posted'[j] = posted[j]
    BY <1>1, <2>1, <2>2
  <2>4. UiIsFree /\ Send(KeyFrame(k, TRUE))
        /\ UNCHANGED <<initialized, opened, fingers, queue, guestVars, historyVars>>
    BY <1>2 DEF PressKey
  <2> QED BY <2>3, <2>4, KeySent
<1>3. CASE ReleaseKey(k)
  <2>1. posted[k] - 1 \in 0..MaxPosted  BY <1>1, <1>3 DEF ReleaseKey
  <2>2. posted' = [posted EXCEPT ![k] = posted[k] - 1]  BY <1>3 DEF ReleaseKey
  <2>3. /\ posted' \in [NavKeys -> 0..MaxPosted]
        /\ \A j \in NavKeys : j # k => posted'[j] = posted[j]
    BY <1>1, <2>1, <2>2
  <2>4. UiIsFree /\ Send(KeyFrame(k, FALSE))
        /\ UNCHANGED <<initialized, opened, fingers, queue, guestVars, historyVars>>
    BY <1>3 DEF ReleaseKey
  <2> QED BY <2>3, <2>4, KeySent
<1> QED BY <1>2, <1>3

LEMMA FingersStay ==
  ASSUME TouchInv, FingerDown \/ FingerUp \/ FingersMove \/ GestureCancel PROVE TouchInv'
<1>1. fingers \in SUBSET Fingers  BY Typed DEF TouchInv
<1>2. CASE FingerDown
  <2>1. PICK f \in Fingers \ fingers :
          /\ fingers' = fingers \cup {f}
          /\ SendTouch(IF fingers = {} THEN "down" ELSE "pointer_down", fingers')
    BY <1>2 DEF FingerDown
  <2>2. fingers' \in SUBSET Fingers /\ fingers' # {}  BY <1>1, <2>1
  <2>3. PICK S \in SUBSET Fingers : S = fingers'  BY <2>2
  <2>4. PICK a \in {"down", "pointer_down"} : SendTouch(a, S)  BY <2>1, <2>3
  <2>5. a \in Actions  BY DEF Actions
  <2> QED BY <2>2, <2>3, <2>4, <2>5, TouchSent
<1>3. CASE FingerUp
  <2>1. PICK f \in fingers :
          /\ fingers' = fingers \ {f}
          /\ SendTouch(IF fingers = {f} THEN "up" ELSE "pointer_up", fingers)
    BY <1>3 DEF FingerUp
  <2>2. fingers' \in SUBSET Fingers /\ fingers # {} /\ (fingers' = {} => fingers = {f})
    BY <1>1, <2>1
  <2>3. PICK a \in {"up", "pointer_up"} : SendTouch(a, fingers) /\ (fingers = {f} => a = "up")
    BY <2>1
  <2>4. a \in Actions /\ a \notin {"down", "pointer_down"} /\ (fingers' = {} => a \in Lift)
    BY <2>2, <2>3 DEF Actions, Lift
  <2> QED BY <1>1, <2>2, <2>3, <2>4, TouchSent
<1>4. CASE FingersMove
  <2>1. "move" \in Actions /\ "move" \notin {"down", "pointer_down"}  BY DEF Actions
  <2>2. fingers # {} /\ SendTouch("move", fingers) /\ fingers' = fingers
    BY <1>4 DEF FingersMove
  <2> QED BY <1>1, <2>1, <2>2, TouchSent
<1>5. CASE GestureCancel
  <2>1. "cancel" \in Actions /\ "cancel" \notin {"down", "pointer_down"} /\ "cancel" \in Lift
    BY DEF Actions, Lift
  <2>2. fingers # {} /\ SendTouch("cancel", fingers) /\ fingers' = {}  BY <1>5 DEF GestureCancel
  <2> QED BY <1>1, <2>1, <2>2, TouchSent
<1> QED BY <1>2, <1>3, <1>4, <1>5

LEMMA SwitchStays ==
  ASSUME TouchInv, Initialize \/ Shutdown PROVE TouchInv'
<1>1. /\ out = <<>> /\ opened' \in BOOLEAN /\ initialized' \in BOOLEAN
      /\ UNCHANGED <<fingers, posted, out, queue, bound, slot, tracking, pressed, cut,
                     last, seen, most>>
  BY DEF TouchInv, TypeOK, Initialize, Shutdown, UiIsFree, guestVars, historyVars
<1>2. TypeOK'  BY <1>1 DEF TouchInv, TypeOK
<1>3. Pending' = Pending  BY <1>1 DEF Pending
<1>4. InPairs'
  <2>1. Pending = queue  BY <1>1, Waiting DEF TouchInv
  <2> QED BY <1>1, <1>3, <2>1 DEF TouchInv, InPairs
<1>5. Unbound' /\ OutIsLast' /\ WithinMost'
  BY <1>1 DEF TouchInv, Unbound, OutIsLast, WithinMost
<1>6. Current' = Current  BY <1>1 DEF Current
<1>7. Released' /\ Placed' /\ KeysUp'
  BY <1>1, <1>3, <1>6 DEF TouchInv, Released, Placed, KeysUp
<1> QED BY <1>2, <1>4, <1>5, <1>7 DEF TouchInv

(* The beginning of a sequence in pairs is in pairs.                       *)
LEMMA PairedFront ==
  ASSUME NEW q \in Seq(Events), NEW f \in Seq(Events), Paired(q \o f) PROVE Paired(q)
<1>1. /\ Len(q) \in Nat /\ Len(f) \in Nat /\ Len(q \o f) = Len(q) + Len(f)
      /\ \A i \in 1..Len(q) : (q \o f)[i] = q[i]
  BY ConcatIs
<1>2. ASSUME NEW i \in 2..Len(q), q[i].type = "id" PROVE q[i - 1].type = "slot"
  <2>1. i \in 1..Len(q) /\ i - 1 \in 1..Len(q) /\ i \in 2..Len(q \o f)  BY <1>1
  <2>2. (q \o f)[i] = q[i] /\ (q \o f)[i - 1] = q[i - 1]  BY <1>1, <2>1
  <2> QED BY <1>2, <2>1, <2>2 DEF Paired
<1> QED BY <1>2 DEF Paired

LEMMA WriteStays ==
  ASSUME TouchInv, WriteEvent PROVE TouchInv'
<1>1. TypeOK /\ Unbound /\ InPairs /\ OutIsLast /\ WithinMost /\ Released /\ Placed /\ KeysUp
  BY DEF TouchInv
<1>2. /\ out # <<>> /\ out' = Tail(out) /\ out \in Seq(Events) /\ queue \in Seq(Events)
      /\ UNCHANGED <<initialized, opened, fingers, posted, bound, slot, tracking, pressed,
                     last, seen, most>>
  BY <1>1 DEF WriteEvent, hostVars, guestVars, historyVars, TypeOK
<1>3. /\ Tail(out) \in Seq(Events) /\ Len(out) \in Nat \ {0} /\ Len(Tail(out)) = Len(out) - 1
      /\ Head(out) = out[1] /\ \A i \in 1..(Len(out) - 1) : Tail(out)[i] = out[i + 1]
  BY <1>2, TailIs
<1>4. OutIsLast'
  <2>1. ASSUME NEW i \in 1..Len(Tail(out))
        PROVE  /\ out'[i].type = "slot" => out'[i].value < Len(last.ids)
               /\ out'[i].type = "id" =>
                    Len(last.ids) > 0 /\ (fingers = {} => out'[i].value = Free)
               /\ out'[i].type = "press" =>
                    IF out'[i].key = BtnTouch THEN fingers # {} ELSE posted[out'[i].key] > 0
    <3>1. i \in 1..(Len(out) - 1) /\ i + 1 \in 1..Len(out)  BY <1>3
    <3>2. out'[i] = out[i + 1]  BY <1>2, <1>3, <3>1
    <3> QED BY <1>1, <3>1, <3>2 DEF OutIsLast
  <2> QED BY <1>2, <2>1 DEF OutIsLast
<1>5. Paired(Tail(out)) /\ Paired(queue)
  BY <1>1, <1>2, PairedTail DEF InPairs
<1>6. CASE opened /\ bound
  <2>1. /\ Len(queue) < Capacity /\ queue' = Append(queue, Head(out)) /\ cut' = cut
    BY <1>6 DEF WriteEvent
  <2>2. /\ queue' \in Seq(Events) /\ Len(queue') = Len(queue) + 1 /\ queue' \o out' = queue \o out
    BY <1>2, <2>1, Moved
  <2>3. Pending' = Pending  BY <2>2 DEF Pending
  <2>4. TypeOK'
    <3>1. Len(queue) + 1 <= Capacity
      <4>1. Len(queue) \in Nat /\ Capacity \in Nat  BY <1>2, LenProperties, TouchBridgeAssumption
      <4> QED BY <2>1, <4>1
    <3> QED BY <1>1, <1>2, <1>3, <2>1, <2>2, <3>1 DEF TypeOK
  <2>5. Unbound'  BY <1>2, <1>6 DEF Unbound
  <2>6. InPairs'
    <3>1. Paired(Pending)  BY <1>1, <1>6 DEF InPairs
    <3>2. Paired(queue')
      <4>1. PICK a \in Seq(Events), b \in Seq(Events) : a = queue' /\ b = out'
        BY <1>2, <1>3, <2>2
      <4>2. Paired(a \o b)  BY <2>3, <3>1, <4>1 DEF Pending
      <4> QED BY <4>1, <4>2, PairedFront
    <3> QED BY <1>2, <1>5, <2>3, <3>1, <3>2 DEF InPairs
  <2>7. WithinMost'
    <3>1. ASSUME NEW i \in 1..Len(queue')
          PROVE  /\ queue'[i].type = "slot" => queue'[i].value < most
                 /\ queue'[i].type = "id" => most > 0
      <4>1. Len(queue) \in Nat  BY <1>2, LenProperties
      <4>2. CASE i <= Len(queue)
        <5>1. i \in 1..Len(queue)  BY <4>1, <4>2
        <5>2. queue'[i] = queue[i]  BY <1>2, <1>3, <2>1, <5>1
        <5> QED BY <1>1, <5>1, <5>2 DEF WithinMost
      <4>3. CASE i = Len(queue) + 1
        <5>1. queue'[i] = out[1]  BY <1>2, <1>3, <2>1, <4>1, <4>3
        <5>2. 1 \in 1..Len(out)  BY <1>3
        <5>3. /\ out[1].type = "slot" => out[1].value < Len(last.ids)
              /\ out[1].type = "id" => Len(last.ids) > 0
          BY <1>1, <5>2 DEF OutIsLast
        <5>4. out[1].type = "slot" => out[1].value \in Nat
          <6>1. out[1] \in Events  BY <1>2, <5>2, ElementOfSeq
          <6> QED BY <1>1, <6>1, EventIs, Typed
        <5>5. Len(last.ids) <= most /\ Len(last.ids) \in Nat /\ most \in Nat
          BY <1>1, Typed DEF WithinMost
        <5> QED BY <5>1, <5>3, <5>4, <5>5
      <4> QED BY <2>2, <4>1, <4>2, <4>3
    <3> QED BY <1>1, <1>2, <3>1 DEF WithinMost
  <2>8. Current' = Current  BY <1>2, <2>1 DEF Current
  <2>9. Released' /\ Placed' /\ KeysUp'
    BY <1>1, <1>2, <2>3, <2>8 DEF Released, Placed, KeysUp
  <2> QED BY <1>4, <2>4, <2>5, <2>6, <2>7, <2>9 DEF TouchInv
<1>7. CASE ~(opened /\ bound)
  <2>1. cut' = TRUE /\ queue' = queue  BY <1>7 DEF WriteEvent
  <2>2. TypeOK'  BY <1>1, <1>2, <1>3, <2>1 DEF TypeOK
  <2>3. Unbound'  BY <1>1, <1>2, <2>1 DEF Unbound
  <2>4. InPairs'
    <3>1. opened => Pending' = Tail(out)
      <4>1. opened => queue = <<>>  BY <1>1, <1>7 DEF Unbound
      <4> QED BY <1>2, <1>3, <2>1, <4>1 DEF Pending
    <3> QED BY <1>2, <1>5, <2>1, <3>1 DEF InPairs
  <2>5. WithinMost'  BY <1>1, <1>2, <2>1 DEF WithinMost
  <2>6. Released' /\ Placed' /\ KeysUp'  BY <2>1 DEF Released, Placed, KeysUp, Current
  <2> QED BY <1>4, <2>2, <2>3, <2>4, <2>5, <2>6 DEF TouchInv
<1> QED BY <1>6, <1>7

-----------------------------------------------------------------------------
(* The steps of the guest.                                                 *)

(* A set of places has a last one.                                         *)
LEMMA LastOne ==
  ASSUME NEW n \in Nat, NEW T \in SUBSET (1..n), T # {}
  PROVE  \E i \in T : \A j \in T : j <= i
<1> DEFINE D == {d \in 0..n : n - d \in T}
<1>1. D \subseteq Nat  OBVIOUS
<1>2. D # {}
  <2>1. PICK t \in T : t \in 1..n  OBVIOUS
  <2>2. n - t \in 0..n /\ n - (n - t) = t  BY <2>1
  <2> QED BY <2>1, <2>2
<1>3. PICK d \in D : \A e \in D : d <= e
  <2> HIDE DEF D
  <2> QED BY <1>1, <1>2, Least
<1>4. ASSUME NEW j \in T PROVE j <= n - d
  <2>1. j \in 1..n  OBVIOUS
  <2>2. n - j \in D
    <3>1. n - j \in 0..n /\ n - (n - j) = j  BY <2>1
    <3> QED BY <3>1
  <2>3. d <= n - j /\ d \in Nat  BY <1>3, <2>2
  <2> QED BY <2>1, <2>3
<1>5. n - d \in T  OBVIOUS
<1> QED BY <1>4, <1>5

(* What is pending on a fresh device that frees every slot it names.       *)
LEMMA FreshIsFree ==
  ASSUME NEW es \in Seq(Events), NEW sl, NEW s \in Slots,
         \A i \in 1..Len(es) : es[i].type = "id" => es[i].value = Free
  PROVE  HoldsId(es, sl, NoSlots, s, Free)
<1> DEFINE T == {i \in 1..Len(es) : IdAt(es, sl, s, i)}
<1>1. Len(es) \in Nat  BY LenProperties
<1>2. NoSlots[s] = Free  BY DEF NoSlots
<1>3. CASE T = {}  BY <1>2, <1>3 DEF HoldsId
<1>4. CASE T # {}
  <2>1. PICK i \in T : \A j \in T : j <= i
    <3>1. T \in SUBSET (1..Len(es))  OBVIOUS
    <3> HIDE DEF T
    <3> QED BY <1>1, <1>4, <3>1, LastOne
  <2>2. i \in 1..Len(es) /\ IdAt(es, sl, s, i)  OBVIOUS
  <2>3. es[i].value = Free  BY <2>2 DEF IdAt
  <2>4. ASSUME NEW j \in 1..Len(es), j > i PROVE ~IdAt(es, sl, s, j)
    <3>1. ~(j <= i)  BY <1>1, <2>2, <2>4
    <3> QED BY <2>1, <3>1
  <2> QED BY <2>2, <2>3, <2>4 DEF HoldsId
<1> QED BY <1>3, <1>4

LEMMA BindStays ==
  ASSUME TouchInv, GuestBinds PROVE TouchInv'
<1>1. TypeOK /\ Unbound /\ InPairs /\ OutIsLast
  BY DEF TouchInv
<1>2. /\ bound' = TRUE /\ slot' = 0 /\ tracking' = NoSlots /\ pressed' = {} /\ cut' = FALSE
      /\ seen' = FALSE /\ most' = Len(last.ids) /\ queue = <<>>
      /\ UNCHANGED <<initialized, opened, fingers, posted, out, queue, last>>
  BY <1>1 DEF GuestBinds, hostVars, Unbound
<1>3. out \in Seq(Events) /\ Len(last.ids) \in 0..MaxFingers
  <2>1. most \in 0..MaxFingers /\ Len(last.ids) <= most /\ Len(last.ids) \in Nat
        /\ MaxFingers \in Nat
    BY Typed DEF TouchInv, TypeOK, WithinMost
  <2> QED BY <1>1, <2>1 DEF TypeOK
<1>4. TypeOK'
  <2>1. 0 \in Slots /\ NoSlots \in [Slots -> Fingers \cup {Free}]  BY <1>1, Typed DEF NoSlots
  <2> QED BY <1>1, <1>2, <1>3, <2>1 DEF TypeOK
<1>5. Unbound'  BY <1>2 DEF Unbound
<1>6. Pending' = out  BY <1>2, <1>3 DEF Pending
<1>7. InPairs'  BY <1>1, <1>2, <1>6 DEF InPairs
<1>8. OutIsLast'  BY <1>1, <1>2 DEF OutIsLast
<1>9. WithinMost'
  <2>1. \A s \in Slots : NoSlots[s] = Free  BY DEF NoSlots
  <2>2. Len(queue) = 0  BY <1>2
  <2>3. Len(last.ids) <= Len(last.ids)  BY <1>3
  <2> QED BY <1>2, <2>1, <2>2, <2>3 DEF WithinMost
<1>10. Released'
  <2>1. ASSUME fingers = {}
        PROVE  HoldsId(out, 0, NoSlots, 0, Free) /\ ComesUp(out, {}, BtnTouch)
    <3>1. 0 \in Slots  BY <1>1, Typed
    <3>2. \A i \in 1..Len(out) : out[i].type = "id" => out[i].value = Free
      BY <1>1, <2>1 DEF OutIsLast
    <3>3. HoldsId(out, 0, NoSlots, 0, Free)  BY <1>3, <3>1, <3>2, FreshIsFree
    <3>4. \A i \in 1..Len(out) : ~PressAt(out, BtnTouch, i)
      BY <1>1, <2>1 DEF OutIsLast, PressAt
    <3>5. ComesUp(out, {}, BtnTouch)  BY <3>4 DEF ComesUp
    <3> QED BY <3>3, <3>5
  <2> QED BY <1>2, <1>6, <2>1 DEF Released
<1>11. Placed'  BY <1>2 DEF Placed
<1>12. KeysUp'
  <2>1. ASSUME NEW k \in NavKeys, posted[k] = 0 PROVE ComesUp(out, {}, k)
    <3>1. k # BtnTouch  BY TouchBridgeAssumption DEF BtnTouch
    <3>2. \A i \in 1..Len(out) : ~PressAt(out, k, i)
      BY <1>1, <2>1, <3>1 DEF OutIsLast, PressAt
    <3> QED BY <3>2 DEF ComesUp
  <2> QED BY <1>2, <1>6, <2>1 DEF KeysUp
<1> QED BY <1>4, <1>5, <1>7, <1>8, <1>9, <1>10, <1>11, <1>12 DEF TouchInv

(* Reading takes the first event of all that is pending.                   *)
LEMMA ReadIsTail ==
  ASSUME NEW q \in Seq(Events), NEW o \in Seq(Events), q # <<>>
  PROVE  /\ q \o o \in Seq(Events) /\ q \o o # <<>> /\ (q \o o)[1] = q[1]
         /\ Tail(q) \o o = Tail(q \o o)
<1>1. /\ q \o o \in Seq(Events) /\ Len(q \o o) = Len(q) + Len(o)
      /\ Len(q) \in Nat /\ Len(o) \in Nat
      /\ \A i \in 1..Len(q) : (q \o o)[i] = q[i]
      /\ \A i \in 1..Len(o) : (q \o o)[Len(q) + i] = o[i]
  BY ConcatIs
<1>2. /\ Tail(q) \in Seq(Events) /\ Len(q) \in Nat \ {0} /\ Len(Tail(q)) = Len(q) - 1
      /\ \A i \in 1..(Len(q) - 1) : Tail(q)[i] = q[i + 1]
  BY TailIs
<1>3. PICK a \in Seq(Events) : a = q \o o  BY <1>1
<1>4. a # <<>> /\ Len(a) \in Nat
  <2>1. Len(a) # 0  BY <1>1, <1>2, <1>3
  <2> QED BY <1>1, <1>3, <2>1
<1>5. /\ Tail(a) \in Seq(Events) /\ Len(Tail(a)) = Len(a) - 1
      /\ \A i \in 1..(Len(a) - 1) : Tail(a)[i] = a[i + 1]
  BY <1>4, TailIs
<1>6. PICK t \in Seq(Events) : t = Tail(q)  BY <1>2
<1>7. /\ t \o o \in Seq(Events) /\ Len(t \o o) = Len(t) + Len(o)
      /\ \A i \in 1..Len(t) : (t \o o)[i] = t[i]
      /\ \A i \in 1..Len(o) : (t \o o)[Len(t) + i] = o[i]
  BY ConcatIs
<1>8. Len(t \o o) = Len(Tail(a))  BY <1>1, <1>2, <1>3, <1>5, <1>6, <1>7
<1>9. ASSUME NEW i \in 1..Len(t \o o) PROVE (t \o o)[i] = Tail(a)[i]
  <2>1. i \in 1..(Len(a) - 1) /\ Tail(a)[i] = a[i + 1]  BY <1>5, <1>8
  <2>2. CASE i <= Len(t)
    <3>1. i \in 1..Len(t) /\ i \in 1..(Len(q) - 1) /\ i + 1 \in 1..Len(q)
      BY <1>2, <1>6, <2>2
    <3>2. (t \o o)[i] = q[i + 1] /\ a[i + 1] = q[i + 1]  BY <1>1, <1>2, <1>3, <1>6, <1>7, <3>1
    <3> QED BY <2>1, <3>2
  <2>3. CASE i > Len(t)
    <3>1. Len(t) = Len(q) - 1 /\ Len(t \o o) = Len(t) + Len(o)  BY <1>2, <1>6, <1>7
    <3>2. i - Len(t) \in 1..Len(o) /\ i = Len(t) + (i - Len(t)) /\ i + 1 = Len(q) + (i - Len(t))
      BY <1>1, <1>2, <2>3, <3>1
    <3>3. PICK j \in 1..Len(o) : i = Len(t) + j /\ i + 1 = Len(q) + j  BY <3>2
    <3>4. (t \o o)[i] = o[j] /\ a[i + 1] = o[j]  BY <1>1, <1>3, <1>7, <3>3
    <3> QED BY <2>1, <3>4
  <2>4. Len(t) \in Nat /\ i \in Int  BY <1>2, <1>6
  <2>5. i <= Len(t) \/ i > Len(t)  BY <2>4
  <2> QED BY <2>2, <2>3, <2>5
<1>10. t \o o = Tail(a)  BY <1>5, <1>7, <1>8, <1>9, SeqEqual
<1>11. (q \o o)[1] = q[1]
  <2>1. 1 \in 1..Len(q)  BY <1>2
  <2> QED BY <1>1, <2>1
<1> QED BY <1>1, <1>3, <1>4, <1>6, <1>10, <1>11

LEMMA ReadStays ==
  ASSUME TouchInv, GuestReads PROVE TouchInv'
<1>1. TypeOK /\ Unbound /\ InPairs /\ OutIsLast /\ WithinMost /\ Released /\ Placed /\ KeysUp
  BY DEF TouchInv
<1>2. PICK e : e = Head(queue)  OBVIOUS
<1>3. /\ queue # <<>> /\ bound /\ queue' = Tail(queue)
      /\ slot' = NextSlot(e, slot) /\ tracking' = NextIds(e, slot, tracking)
      /\ pressed' = NextDown(e, pressed)
      /\ UNCHANGED <<initialized, opened, fingers, posted, out, bound, cut, last, seen, most>>
  BY <1>2 DEF GuestReads, NextSlot, NextIds, NextDown, hostVars, historyVars
<1>4. /\ queue \in Seq(Events) /\ out \in Seq(Events) /\ slot \in Slots /\ pressed \subseteq Keys
      /\ tracking \in [Slots -> Fingers \cup {Free}]
  BY <1>1 DEF TypeOK
<1>5. /\ Tail(queue) \in Seq(Events) /\ Len(queue) \in Nat \ {0}
      /\ Len(Tail(queue)) = Len(queue) - 1 /\ e = queue[1] /\ e \in Events
      /\ \A i \in 1..(Len(queue) - 1) : Tail(queue)[i] = queue[i + 1]
  BY <1>2, <1>3, <1>4, TailIs
<1>6. /\ e.type = "slot" => e.value \in Slots
      /\ e.type = "id" => e.value \in Fingers \cup {Free}
  BY <1>5, EventIs
<1>7. /\ e.type = "slot" => e.value < most
      /\ e.type = "id" => most > 0
  <2>1. 1 \in 1..Len(queue)  BY <1>5
  <2> QED BY <1>1, <1>5, <2>1 DEF WithinMost
<1>8. slot' \in Slots /\ tracking' \in [Slots -> Fingers \cup {Free}] /\ pressed' \subseteq Keys
  <2>1. slot' \in Slots  BY <1>3, <1>4, <1>6 DEF NextSlot
  <2>2. tracking' \in [Slots -> Fingers \cup {Free}]  BY <1>3, <1>4, <1>6 DEF NextIds
  <2>3. e.type = "press" => e.key \in Keys  BY <1>5, EventIs
  <2>4. pressed' \subseteq Keys  BY <1>3, <1>4, <2>3 DEF NextDown
  <2> QED BY <2>1, <2>2, <2>4
<1>9. TypeOK'
  <2>1. Len(queue) <= Capacity /\ Capacity \in Nat  BY <1>1, TouchBridgeAssumption DEF TypeOK
  <2>2. Len(Tail(queue)) <= Capacity  BY <1>5, <2>1
  <2> QED BY <1>1, <1>3, <1>5, <1>8, <2>2 DEF TypeOK
<1>10. Unbound'  BY <1>3 DEF Unbound
<1>11. /\ Pending \in Seq(Events) /\ Pending # <<>> /\ Pending[1] = e
       /\ Pending' = Tail(Pending)
  BY <1>3, <1>4, <1>5, ReadIsTail DEF Pending
<1>12. InPairs'
  <2>1. Paired(Tail(queue))  BY <1>1, <1>3, <1>4, PairedTail DEF InPairs
  <2>2. Paired(Pending) => Paired(Tail(Pending))  BY <1>11, PairedTail
  <2> QED BY <1>1, <1>3, <1>11, <2>1, <2>2 DEF InPairs
<1>13. OutIsLast'  BY <1>1, <1>3 DEF OutIsLast
<1>14. WithinMost'
  <2>1. slot' = 0 \/ slot' < most  BY <1>1, <1>3, <1>7 DEF NextSlot, WithinMost
  <2>2. ASSUME NEW i \in 1..Len(Tail(queue))
        PROVE  /\ queue'[i].type = "slot" => queue'[i].value < most
               /\ queue'[i].type = "id" => most > 0
    <3>1. i \in 1..(Len(queue) - 1) /\ i + 1 \in 1..Len(queue)  BY <1>5
    <3>2. queue'[i] = queue[i + 1]  BY <1>3, <1>5, <3>1
    <3> QED BY <1>1, <3>1, <3>2 DEF WithinMost
  <2>3. ASSUME NEW s \in Slots, tracking'[s] # Free PROVE s < most
    <3>1. CASE tracking'[s] = tracking[s]  BY <1>1, <2>3, <3>1 DEF WithinMost
    <3>2. CASE tracking'[s] # tracking[s]
      <4>1. e.type = "id" /\ s = slot  BY <1>3, <1>4, <3>2 DEF NextIds
      <4>2. most > 0 /\ (slot = 0 \/ slot < most)  BY <1>1, <1>7, <4>1 DEF WithinMost
      <4> QED BY <1>1, <4>1, <4>2, Typed
    <3> QED BY <3>1, <3>2
  <2> QED BY <1>1, <1>3, <2>1, <2>2, <2>3 DEF WithinMost
<1>15. Current' = Current /\ (Current => Paired(Pending))
  BY <1>1, <1>3 DEF Current, InPairs
<1>16. ASSUME NEW s \in Slots, NEW v, Current, HoldsId(Pending, slot, tracking, s, v)
       PROVE  HoldsId(Pending', slot', tracking', s, v)
  <2>1. HoldsId(Tail(Pending), NextSlot(Pending[1], slot), NextIds(Pending[1], slot, tracking), s, v)
    BY <1>4, <1>11, <1>15, <1>16, ReadKeepsIds
  <2> QED BY <1>3, <1>11, <2>1
<1>17. ASSUME NEW k, ComesUp(Pending, pressed, k) PROVE ComesUp(Pending', pressed', k)
  <2>1. ComesUp(Tail(Pending), NextDown(Pending[1], pressed), k)
    BY <1>11, <1>17, ReadKeepsKeys
  <2> QED BY <1>3, <1>11, <2>1
<1>18. Released'
  <2>1. 0 \in Slots  BY <1>1, Typed
  <2> QED BY <1>1, <1>3, <1>15, <1>16, <1>17, <2>1 DEF Released
<1>19. Placed'
  <2>1. ASSUME Current, seen, last.action \in {"down", "pointer_down", "move"},
               NEW i \in 1..Len(last.ids)
        PROVE  HoldsId(Pending', slot', tracking', i - 1, last.ids[i])
    <3>1. HoldsId(Pending, slot, tracking, i - 1, last.ids[i])  BY <1>1, <2>1 DEF Placed
    <3>2. i - 1 \in Slots
      <4>1. Len(last.ids) <= most /\ most \in 0..MaxFingers /\ Len(last.ids) \in Nat
            /\ MaxFingers \in Nat
        BY <1>1, Typed DEF WithinMost, TypeOK
      <4> QED BY <4>1 DEF Slots
    <3> QED BY <1>16, <2>1, <3>1, <3>2
  <2> QED BY <1>3, <1>15, <2>1 DEF Placed
<1>20. KeysUp'  BY <1>1, <1>3, <1>15, <1>17 DEF KeysUp
<1> QED BY <1>9, <1>10, <1>12, <1>13, <1>14, <1>18, <1>19, <1>20 DEF TouchInv

LEMMA GoStays ==
  ASSUME TouchInv, GuestGoes PROVE TouchInv'
<1>1. TypeOK /\ InPairs /\ OutIsLast /\ WithinMost
  BY DEF TouchInv
<1>2. /\ bound' = FALSE /\ queue' = <<>> /\ slot' = 0 /\ tracking' = NoSlots /\ pressed' = {}
      /\ UNCHANGED <<initialized, opened, fingers, posted, out, cut, last, seen, most>>
  BY DEF GuestGoes, hostVars, historyVars
<1>3. out \in Seq(Events)  BY <1>1 DEF TypeOK
<1>4. TypeOK'
  <2>1. 0 \in Slots /\ NoSlots \in [Slots -> Fingers \cup {Free}]  BY <1>1, Typed DEF NoSlots
  <2>2. <<>> \in Seq(Events) /\ Len(<<>>) = 0  OBVIOUS
  <2>3. 0 <= Capacity  BY TouchBridgeAssumption
  <2> QED BY <1>1, <1>2, <2>1, <2>2, <2>3 DEF TypeOK
<1>5. Pending' = out  BY <1>2, <1>3 DEF Pending
<1>6. InPairs'  BY <1>1, <1>2, <1>5 DEF InPairs, Paired
<1>7. Unbound' /\ OutIsLast'  BY <1>1, <1>2 DEF Unbound, OutIsLast
<1>8. WithinMost'
  <2>1. \A s \in Slots : NoSlots[s] = Free  BY DEF NoSlots
  <2> QED BY <1>1, <1>2, <2>1 DEF WithinMost
<1>9. Released' /\ Placed' /\ KeysUp'  BY <1>2 DEF Released, Placed, KeysUp, Current
<1> QED BY <1>4, <1>6, <1>7, <1>8, <1>9 DEF TouchInv

-----------------------------------------------------------------------------
(* The theorems.                                                           *)

LEMMA Stays == TouchInv /\ [Next]_vars => TouchInv'
<1> SUFFICES ASSUME TouchInv, [Next]_vars PROVE TouchInv'  OBVIOUS
<1>1. CASE FingerDown \/ FingerUp \/ FingersMove \/ GestureCancel  BY <1>1, FingersStay
<1>2. CASE \E k \in NavKeys : PressKey(k) \/ ReleaseKey(k)  BY <1>2, KeyStays
<1>3. CASE Initialize \/ Shutdown  BY <1>3, SwitchStays
<1>4. CASE WriteEvent  BY <1>4, WriteStays
<1>5. CASE GuestBinds  BY <1>5, BindStays
<1>6. CASE GuestReads  BY <1>6, ReadStays
<1>7. CASE GuestGoes  BY <1>7, GoStays
<1>8. CASE UNCHANGED vars
  <2>1. UNCHANGED <<initialized, opened, fingers, posted, out, queue, bound, slot, tracking,
                    pressed, cut, last, seen, most>>
    BY <1>8 DEF vars, hostVars, guestVars, historyVars
  <2>2. Pending' = Pending /\ Current' = Current  BY <2>1 DEF Pending, Current
  <2>3. TypeOK' /\ Unbound' /\ InPairs' /\ OutIsLast' /\ WithinMost'
    BY <2>1, <2>2 DEF TouchInv, TypeOK, Unbound, InPairs, OutIsLast, WithinMost
  <2>4. Released' /\ Placed' /\ KeysUp'
    BY <2>1, <2>2 DEF TouchInv, Released, Placed, KeysUp
  <2> QED BY <2>3, <2>4 DEF TouchInv
<1> QED BY <1>1, <1>2, <1>3, <1>4, <1>5, <1>6, <1>7, <1>8 DEF Next

(* A guest that has read everything finds what was meant.                  *)
LEMMA ServedFinds ==
  ASSUME TouchInv, Served
  PROVE  /\ Current
         /\ \A s, v : HoldsId(Pending, slot, tracking, s, v) => tracking[s] = v
         /\ \A k : ComesUp(Pending, pressed, k) => k \notin pressed
<1>1. Current /\ queue = <<>> /\ out = <<>>  BY DEF Served, Current
<1>2. Pending = <<>> /\ Len(<<>>) = 0  BY <1>1 DEF Pending
<1> QED BY <1>1, <1>2 DEF HoldsId, ComesUp

LEMMA LiftsRelease == TouchInv => LastLiftReleases
<1> SUFFICES ASSUME TouchInv, Served, fingers = {}
             PROVE  tracking[0] = Free /\ BtnTouch \notin pressed
  BY DEF LastLiftReleases
<1>1. /\ HoldsId(Pending, slot, tracking, 0, Free) /\ ComesUp(Pending, pressed, BtnTouch)
  BY ServedFinds DEF TouchInv, Released
<1> QED BY <1>1, ServedFinds

(* An event that puts fingers down or moves them lists the fingers there   *)
(* are; one that lifts some also lists those.                              *)
Listed == last.action \in {"down", "pointer_down", "move"} => last.ids = Pointers(fingers)

LEMMA ListedFirst == Init => Listed
BY DEF Init, NoTouch, Listed

LEMMA ListedStays == Listed /\ [Next]_vars => Listed'
<1> SUFFICES ASSUME Listed, [Next]_vars PROVE Listed'  OBVIOUS
<1>1. ASSUME UNCHANGED <<fingers, last>> PROVE Listed'  BY <1>1 DEF Listed
<1>2. CASE FingerDown
  <2>1. last'.ids = Pointers(fingers')  BY <1>2 DEF FingerDown, SendTouch
  <2> QED BY <2>1 DEF Listed
<1>3. CASE FingerUp
  <2>1. last'.action \in {"up", "pointer_up"}  BY <1>3 DEF FingerUp, SendTouch
  <2> QED BY <2>1 DEF Listed
<1>4. CASE FingersMove
  <2>1. last'.ids = Pointers(fingers) /\ fingers' = fingers
    BY <1>4 DEF FingersMove, SendTouch
  <2> QED BY <2>1 DEF Listed
<1>5. CASE GestureCancel
  <2>1. last'.action = "cancel"  BY <1>5 DEF GestureCancel, SendTouch
  <2> QED BY <2>1 DEF Listed
<1>6. CASE \E k \in NavKeys : PressKey(k) \/ ReleaseKey(k)
  BY <1>1, <1>6 DEF PressKey, ReleaseKey, historyVars
<1>7. CASE Initialize \/ Shutdown  BY <1>1, <1>7 DEF Initialize, Shutdown, historyVars
<1>8. CASE WriteEvent  BY <1>1, <1>8 DEF WriteEvent, hostVars, historyVars
<1>9. CASE GuestBinds \/ GuestReads \/ GuestGoes
  BY <1>1, <1>9 DEF GuestBinds, GuestReads, GuestGoes, hostVars, historyVars
<1>10. CASE UNCHANGED vars  BY <1>1, <1>10 DEF vars, hostVars, historyVars
<1> QED BY <1>2, <1>3, <1>4, <1>5, <1>6, <1>7, <1>8, <1>9, <1>10 DEF Next

(* The fingers below another are fewer than those below a higher one.      *)
LEMMA FewerBelow ==
  ASSUME NEW S \in SUBSET Fingers, NEW f \in S, NEW g \in S, f < g
  PROVE  Cardinality(Below(S, f)) # Cardinality(Below(S, g))
<1>1. S \subseteq Nat /\ IsFiniteSet(S)  BY FingersAre
<1>2. Below(S, g) \subseteq S /\ Below(S, f) \subseteq Below(S, g)
  <2>1. ASSUME NEW e \in S, e < f PROVE e < g
    <3>1. e \in Nat /\ f \in Nat /\ g \in Nat  BY <1>1
    <3> QED BY <2>1, <3>1
  <2> QED BY <2>1 DEF Below
<1>3. IsFiniteSet(Below(S, f)) /\ IsFiniteSet(Below(S, g))  BY <1>1, <1>2, FS_Subset
<1>4. f \in Below(S, g) /\ f \notin Below(S, f)  BY <1>1 DEF Below
<1> QED BY <1>2, <1>3, <1>4, FS_Subset

(* The pointers of an event are the fingers, each of them once.            *)
LEMMA PointersCount ==
  ASSUME NEW S \in SUBSET Fingers, NEW i \in 1..Cardinality(S)
  PROVE  Pointers(S)[i] \in S /\ Cardinality(Below(S, Pointers(S)[i])) = i - 1
<1>1. \E f \in S : Cardinality({g \in S : g < f}) = i - 1  BY Counted DEF Below
<1>2. Pointers(S)[i] = CHOOSE f \in S : Cardinality({g \in S : g < f}) = i - 1
  BY DEF Pointers
<1> QED BY <1>1, <1>2 DEF Below

LEMMA PointersCover ==
  ASSUME NEW S \in SUBSET Fingers, NEW f \in S
  PROVE  \E i \in 1..Cardinality(S) : Pointers(S)[i] = f
<1>1. S \subseteq Nat /\ IsFiniteSet(S) /\ Cardinality(S) \in Nat  BY FingersAre
<1>2. Below(S, f) \subseteq S /\ f \notin Below(S, f)  BY <1>1 DEF Below
<1>3. PICK c : c = Cardinality(Below(S, f))  OBVIOUS
<1>4. c \in Nat /\ c + 1 \in 1..Cardinality(S)
  <2>1. IsFiniteSet(Below(S, f))  BY <1>1, <1>2, FS_Subset
  <2>2. Below(S, f) # S  BY <1>2
  <2>3. c < Cardinality(S) /\ c \in Nat
    BY <1>1, <1>2, <1>3, <2>1, <2>2, FS_Subset, FS_CardinalityType
  <2> QED BY <1>1, <2>3
<1>5. PICK i \in 1..Cardinality(S) : i = c + 1  BY <1>4
<1>6. PICK g : g = Pointers(S)[i]  OBVIOUS
<1>7. g \in S /\ Cardinality(Below(S, g)) = c  BY <1>4, <1>5, <1>6, PointersCount
<1>8. ~(f < g) /\ ~(g < f)  BY <1>3, <1>7, FewerBelow
<1>9. f \in Nat /\ g \in Nat  BY <1>1, <1>7
<1> QED BY <1>5, <1>6, <1>8, <1>9

LEMMA ContactsHave == TouchInv /\ Listed => ContactsAreFingers
<1> SUFFICES ASSUME TouchInv, Listed, Served, seen,
                    last.action \in {"down", "pointer_down", "move"}, Len(last.ids) = most
             PROVE  /\ {tracking[s] : s \in Contacts} = fingers
                    /\ \A s, t \in Contacts : tracking[s] = tracking[t] => s = t
  BY DEF ContactsAreFingers
<1>1. TypeOK /\ WithinMost /\ fingers \in SUBSET Fingers /\ Slots \subseteq Nat
      /\ most \in 0..MaxFingers /\ MaxFingers \in Nat /\ Fingers \subseteq Nat /\ Free \notin Nat
  BY Typed, TouchBridgeAssumption DEF TouchInv, TypeOK
<1>2. PICK ids : ids = last.ids  OBVIOUS
<1>3. ids = Pointers(fingers) /\ Cardinality(fingers) = most
  BY <1>1, <1>2, PointersAre DEF Listed
<1>4. ASSUME NEW i \in 1..most PROVE tracking[i - 1] = ids[i]
  <2>1. HoldsId(Pending, slot, tracking, i - 1, ids[i])
    BY <1>2, ServedFinds DEF TouchInv, Placed
  <2> QED BY <2>1, ServedFinds
<1>5. ASSUME NEW i \in 1..most
      PROVE  /\ ids[i] \in fingers /\ Cardinality(Below(fingers, ids[i])) = i - 1
             /\ i - 1 \in Contacts
  <2>1. ids[i] \in fingers /\ Cardinality(Below(fingers, ids[i])) = i - 1
    BY <1>1, <1>3, PointersCount
  <2>2. i - 1 \in Slots  BY <1>1 DEF Slots
  <2>3. ids[i] # Free  BY <1>1, <2>1
  <2> QED BY <1>4, <2>1, <2>2, <2>3 DEF Contacts
<1>6. ASSUME NEW s \in Contacts PROVE \E i \in 1..most : s = i - 1
  <2>1. s \in Nat /\ s < most  BY <1>1 DEF Contacts, WithinMost
  <2>2. s + 1 \in 1..most /\ s = (s + 1) - 1  BY <1>1, <2>1
  <2> QED BY <2>2
<1>7. ASSUME NEW f \in fingers PROVE \E s \in Contacts : tracking[s] = f
  <2>1. PICK i \in 1..most : ids[i] = f  BY <1>1, <1>3, PointersCover
  <2> QED BY <1>4, <1>5, <2>1
<1>8. ASSUME NEW s \in Contacts
      PROVE  tracking[s] \in fingers /\ Cardinality(Below(fingers, tracking[s])) = s
  BY <1>4, <1>5, <1>6
<1>9. {tracking[s] : s \in Contacts} = fingers  BY <1>7, <1>8
<1>10. \A s, t \in Contacts : tracking[s] = tracking[t] => s = t  BY <1>8
<1> QED BY <1>9, <1>10

LEMMA KeysCome == TouchInv => KeysComeUp
BY ServedFinds DEF TouchInv, KeysUp, KeysComeUp

(* When the last finger is gone, the first slot of a guest that lost       *)
(* nothing since it came is free and BTN_TOUCH is up, wherever in an event *)
(* the guest came.                                                         *)
THEOREM LiftCorrect == Spec => []LastLiftReleases
<1> USE Initially, Stays, LiftsRelease
<1> QED BY PTL DEF Spec

(* Every variable keeps its type, and the guest's socket its bound.        *)
THEOREM TypeCorrect == Spec => []TypeOK
<1>1. TouchInv => TypeOK  BY DEF TouchInv
<1> USE Initially, Stays, <1>1
<1> QED BY PTL DEF Spec

(* A guest that lost nothing since it came has one contact for each finger *)
(* and no other, at an event that puts down, or moves, as many fingers as  *)
(* any it can know of.                                                     *)
THEOREM ContactsCorrect == Spec => []ContactsAreFingers
<1> USE Initially, Stays, ListedFirst, ListedStays, ContactsHave
<1> QED BY PTL DEF Spec

(* A navigation key without a posted key-up is up.                         *)
THEOREM KeysCorrect == Spec => []KeysComeUp
<1> USE Initially, Stays, KeysCome
<1> QED BY PTL DEF Spec
=============================================================================
