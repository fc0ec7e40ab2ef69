---------------------------- MODULE SerialProofs ----------------------------
(***************************************************************************)
(* For any size of block, any number of bytes, failures, flushes and calls: *)
(* each way across the bridge is a link that may lose bytes, but repeats,  *)
(* mixes and invents none.  The bytes that are on their way, those that    *)
(* arrived first, form one sequence; a step moves bytes inside it, takes   *)
(* some out or adds the next one.                                          *)
(*                                                                         *)
(* For frames of any length: the tele-information receiver hands over the  *)
(* good frames of a meter in order, and calls the handlers of changes for  *)
(* the frames that change something, and for no other.                     *)
(***************************************************************************)
EXTENDS MCSerial, SequenceTheorems, WellFoundedInduction, TLAPS

(* s \o t, by name: the provers take \o apart. *)
Cat(s, t) == s \o t

(* A sequence of ranks that go up, m at most. *)
Chain(s, m) ==
  /\ s \in Seq(Nat)
  /\ \A i \in 1 .. Len(s) : s[i] >= 1 /\ s[i] <= m
  /\ \A i, j \in 1 .. Len(s) : i < j => s[i] < s[j]

(* What the thread holds of each way. *)
HeldUp == IF loop \in {"count", "block", "pause", "write", "overrun"} THEN buffer ELSE << >>
HeldDown == IF loop = "send" THEN buffer ELSE << >>

TypeInv ==
  /\ rx \in Seq(Nat) /\ tx \in Seq(Nat) /\ up \in Seq(Nat) /\ down \in Seq(Nat)
  /\ buffer \in Seq(Nat) /\ got \in Seq(Nat) /\ wired \in Seq(Nat)
  /\ heard \in 0 .. MaxIn /\ asked \in 0 .. MaxOut /\ n \in Nat

UpInv == Chain(Cat(got, Cat(up, Cat(HeldUp, rx))), heard)
DownInv == Chain(Cat(wired, Cat(tx, Cat(HeldDown, down))), asked)
IInv == TypeInv /\ UpInv /\ DownInv

-----------------------------------------------------------------------------
(* Sequences in parts. *)
LEMMA Associative ==
  ASSUME NEW a \in Seq(Nat), NEW b \in Seq(Nat), NEW c \in Seq(Nat)
  PROVE  a \o (b \o c) = (a \o b) \o c /\ a \o b \in Seq(Nat)
<1>1. a \o b \in Seq(Nat) /\ b \o c \in Seq(Nat)
  OBVIOUS
<1>2. Len(a \o (b \o c)) = Len((a \o b) \o c)
  OBVIOUS
<1>3. \A i \in 1 .. Len(a \o (b \o c)) : (a \o (b \o c))[i] = ((a \o b) \o c)[i]
  OBVIOUS
<1> QED
  BY <1>1, <1>2, <1>3

LEMMA CatIsSeq ==
  \A a, b, c \in Seq(Nat) :
     /\ Cat(a, b) \in Seq(Nat) /\ Cat(a, Cat(b, c)) = Cat(Cat(a, b), c)
     /\ << >> \in Seq(Nat) /\ Cat(<< >>, a) = a /\ Cat(a, << >>) = a
<1> SUFFICES ASSUME NEW a \in Seq(Nat), NEW b \in Seq(Nat), NEW c \in Seq(Nat)
             PROVE  /\ Cat(a, b) \in Seq(Nat) /\ Cat(a, Cat(b, c)) = Cat(Cat(a, b), c)
                    /\ << >> \in Seq(Nat) /\ Cat(<< >>, a) = a /\ Cat(a, << >>) = a
  OBVIOUS
<1>1. a \o (b \o c) = (a \o b) \o c /\ a \o b \in Seq(Nat)
  BY Associative
<1>2. << >> \o a = a /\ a \o << >> = a /\ << >> \in Seq(Nat)
  OBVIOUS
<1> QED
  BY <1>1, <1>2 DEF Cat

(* Bytes taken from the front: one, or a block. *)
LEMMA TakeHead ==
  ASSUME NEW a \in Seq(Nat), NEW b \in Seq(Nat), b # << >>
  PROVE  /\ Head(b) \in Nat /\ Tail(b) \in Seq(Nat) /\ Append(a, Head(b)) \in Seq(Nat)
         /\ Cat(Append(a, Head(b)), Tail(b)) = Cat(a, b)
<1> DEFINE s == Append(a, Head(b)) \o Tail(b)
           t == a \o b
<1>1. Head(b) \in Nat /\ Tail(b) \in Seq(Nat) /\ Append(a, Head(b)) \in Seq(Nat)
  OBVIOUS
<1>2. Len(s) = Len(t) /\ s \in Seq(Nat) /\ t \in Seq(Nat)
  BY <1>1
<1>3. \A i \in 1 .. Len(s) : s[i] = t[i]
  BY <1>1
<1>4. Cat(Append(a, Head(b)), Tail(b)) = s /\ Cat(a, b) = t
  BY DEF Cat
<1> HIDE DEF s, t
<1>5. s = t
  BY <1>2, <1>3, SeqEqual
<1> QED
  BY <1>1, <1>4, <1>5

LEMMA TakeFirst ==
  ASSUME NEW a \in Seq(Nat), NEW k \in Nat
  PROVE  First(a, k) \in Seq(Nat) /\ Rest(a, k) \in Seq(Nat) /\ Cat(First(a, k), Rest(a, k)) = a
<1> DEFINE m == Least(k, Len(a))
<1>1. m \in 0 .. Len(a)
  BY DEF Least
<1>2. First(a, k) = SubSeq(a, 1, m) /\ Rest(a, k) = SubSeq(a, m + 1, Len(a))
  BY DEF First, Rest
<1> HIDE DEF m
<1>3. SubSeq(a, 1, m) \in Seq(Nat) /\ Len(SubSeq(a, 1, m)) = m /\ \A i \in 1 .. m : SubSeq(a, 1, m)[i] = a[i]
  BY <1>1
<1>4. /\ SubSeq(a, m + 1, Len(a)) \in Seq(Nat) /\ Len(SubSeq(a, m + 1, Len(a))) = Len(a) - m
      /\ \A i \in 1 .. Len(a) - m : SubSeq(a, m + 1, Len(a))[i] = a[m + i]
  BY <1>1
<1> DEFINE f == SubSeq(a, 1, m)
           r == SubSeq(a, m + 1, Len(a))
<1>5. f \in Seq(Nat) /\ r \in Seq(Nat) /\ Len(f) = m /\ Len(r) = Len(a) - m
  BY <1>3, <1>4
<1>6. \A i \in 1 .. m : f[i] = a[i]
  BY <1>3
<1>7. \A i \in 1 .. Len(a) - m : r[i] = a[m + i]
  BY <1>4
<1>10. First(a, k) = f /\ Rest(a, k) = r
  BY <1>2
<1> HIDE DEF f, r
<1>8. Len(f \o r) = Len(a) /\ f \o r \in Seq(Nat)
  BY <1>1, <1>5
<1>9. ASSUME NEW i \in 1 .. Len(a)
      PROVE  (f \o r)[i] = a[i]
  <2>1. CASE i <= m
    BY <1>1, <1>5, <1>6, <2>1
  <2>2. CASE i > m
    <3>1. (f \o r)[i] = r[i - m] /\ i - m \in 1 .. Len(a) - m
      BY <1>1, <1>5, <2>2
    <3>2. r[i - m] = a[m + (i - m)] /\ m + (i - m) = i
      BY <1>1, <1>7, <3>1
    <3> QED
      BY <3>1, <3>2
  <2>3. i <= m \/ i > m
    BY <1>1
  <2> QED
    BY <2>1, <2>2, <2>3, Zenon
<1>11. \A i \in 1 .. Len(f \o r) : (f \o r)[i] = a[i]
  BY <1>8, <1>9
<1> DEFINE c == f \o r
<1> HIDE DEF c
<1>12. c = a
  BY <1>8, <1>11, SeqEqual DEF c
<1> QED
  BY <1>5, <1>10, <1>12 DEF c, Cat

(* What is left of a chain when bytes are lost, and a chain that grows. *)
LEMMA Lost ==
  ASSUME NEW a \in Seq(Nat), NEW b \in Seq(Nat), NEW c \in Seq(Nat), NEW k \in Nat,
         Chain(Cat(a, Cat(b, c)), k)
  PROVE  Chain(Cat(a, c), k)
<1> DEFINE s == a \o (b \o c)
           t == a \o c
           old(i) == IF i <= Len(a) THEN i ELSE i + Len(b)
<1>1. t \in Seq(Nat) /\ Len(t) = Len(a) + Len(c) /\ Len(s) = Len(a) + Len(b) + Len(c)
  OBVIOUS
<1>2. ASSUME NEW i \in 1 .. Len(t) PROVE old(i) \in 1 .. Len(s) /\ t[i] = s[old(i)]
  <2>1. CASE i <= Len(a)
    BY <1>1, <2>1
  <2>2. CASE i > Len(a)
    <3>1. i - Len(a) \in 1 .. Len(c) /\ t[i] = c[i - Len(a)]
      BY <1>1, <2>2
    <3>2. b \o c \in Seq(Nat) /\ Len(b \o c) = Len(b) + Len(c)
          /\ (b \o c)[i - Len(a) + Len(b)] = c[i - Len(a)]
      BY <3>1
    <3> DEFINE q == b \o c
    <3>3. old(i) = i + Len(b) /\ old(i) \in 1 .. Len(s) /\ old(i) - Len(a) = i - Len(a) + Len(b)
      BY <1>1, <2>2, <3>1
    <3>4. q \in Seq(Nat) /\ Len(a) + Len(q) = Len(s) /\ q[i - Len(a) + Len(b)] = t[i]
      BY <1>1, <3>1, <3>2
    <3> HIDE DEF q, t, old
    <3>5. \A j \in 1 .. Len(a) + Len(q) : j > Len(a) => (a \o q)[j] = q[j - Len(a)]
      BY <3>4
    <3>6. old(i) > Len(a) /\ old(i) \in 1 .. Len(a) + Len(q)
      BY <1>1, <2>2, <3>3, <3>4
    <3>7. s[old(i)] = q[old(i) - Len(a)]
      BY <3>5, <3>6 DEF q
    <3> QED
      BY <3>3, <3>4, <3>7
  <2>3. i <= Len(a) \/ i > Len(a)
    BY <1>1
  <2> QED
    BY <2>1, <2>2, <2>3
<1>3. \A i, j \in 1 .. Len(t) : i < j => old(i) < old(j)
  BY <1>1
<1>4. Chain(s, k)
  BY DEF Cat
<1> HIDE DEF s, t, old
<1>5. Chain(t, k)
  BY <1>1, <1>2, <1>3, <1>4 DEF Chain
<1> QED
  BY <1>5 DEF t, Cat

LEMMA Grown ==
  ASSUME NEW a \in Seq(Nat), NEW b \in Seq(Nat), NEW k \in Nat, Chain(Cat(a, b), k)
  PROVE  Append(b, k + 1) \in Seq(Nat) /\ Chain(Cat(a, Append(b, k + 1)), k + 1)
<1> DEFINE s == a \o b
           t == a \o Append(b, k + 1)
<1>1. Append(b, k + 1) \in Seq(Nat) /\ t \in Seq(Nat) /\ Len(t) = Len(s) + 1 /\ Len(s) \in Nat
  OBVIOUS
<1>2. \A i \in 1 .. Len(t) : t[i] = IF i = Len(t) THEN k + 1 ELSE s[i]
  <2>1. Len(Append(b, k + 1)) = Len(b) + 1 /\ Len(s) = Len(a) + Len(b)
    OBVIOUS
  <2>2. ASSUME NEW i \in 1 .. Len(t), i = Len(t) PROVE t[i] = k + 1
    BY <1>1, <2>1, <2>2
  <2>3. ASSUME NEW i \in 1 .. Len(t), i # Len(t) PROVE t[i] = s[i]
    <3>1. CASE i <= Len(a)
      BY <1>1, <2>1, <2>3, <3>1
    <3>2. CASE i > Len(a)
      <4>1. i - Len(a) \in 1 .. Len(b)
        BY <1>1, <2>1, <2>3, <3>2
      <4> QED
        BY <1>1, <2>1, <3>2, <4>1
    <3>3. Len(a) \in Nat /\ i \in Nat
      BY <1>1
    <3> HIDE DEF s, t
    <3> QED
      BY <3>1, <3>2, <3>3
  <2> QED BY <2>2, <2>3
<1>3. Chain(s, k)
  BY DEF Cat
<1> HIDE DEF s, t
<1>4. s \in Seq(Nat) /\ \A i \in 1 .. Len(s) : s[i] >= 1 /\ s[i] <= k
  BY <1>3 DEF Chain
<1>5. \A i \in 1 .. Len(s) : s[i] \in Nat
  BY <1>4
<1>6. t \in Seq(Nat) /\ \A i \in 1 .. Len(s) : s[i] \in Nat /\ s[i] >= 1 /\ s[i] <= k
  BY <1>1, <1>4, <1>5
<1>7. ASSUME NEW i \in 1 .. Len(t)
      PROVE  t[i] >= 1 /\ t[i] <= k + 1
  <2>1. CASE i = Len(t)
    BY <1>2, <2>1
  <2>2. CASE i # Len(t)
    <3>1. i \in 1 .. Len(s) /\ t[i] = s[i]
      BY <1>1, <1>2, <2>2
    <3> QED
      BY <1>6, <3>1
  <2> QED
    BY <2>1, <2>2
<1>8. ASSUME NEW i \in 1 .. Len(t), NEW j \in 1 .. Len(t), i < j
      PROVE  t[i] < t[j]
  <2>1. i \in 1 .. Len(s) /\ t[i] = s[i] /\ s[i] \in Nat /\ s[i] <= k
    BY <1>1, <1>2, <1>6, <1>8
  <2>2. CASE j = Len(t)
    BY <1>2, <2>1, <2>2
  <2>3. CASE j # Len(t)
    <3>1. j \in 1 .. Len(s) /\ t[j] = s[j]
      BY <1>1, <1>2, <2>3
    <3> QED
      BY <1>3, <1>8, <2>1, <3>1 DEF Chain
  <2> QED
    BY <2>2, <2>3
<1>9. Chain(t, k + 1)
  BY <1>6, <1>7, <1>8 DEF Chain
<1> QED
  BY <1>1, <1>9 DEF t, Cat

(* What can be done to the bytes that are on their way, in four places.    *)
LEMMA OnTheWay ==
  ASSUME NEW a \in Seq(Nat), NEW b \in Seq(Nat), NEW c \in Seq(Nat), NEW d \in Seq(Nat),
         NEW k \in Nat, Chain(Cat(a, Cat(b, Cat(c, d))), k)
  PROVE  /\ Chain(Cat(a, Cat(b, Cat(c, << >>))), k)
         /\ Chain(Cat(a, Cat(b, Cat(<< >>, d))), k)
         /\ Chain(Cat(a, Cat(<< >>, Cat(c, d))), k)
         /\ Chain(Cat(a, Cat(Cat(b, c), Cat(<< >>, d))), k)
         /\ b # << >> => Chain(Cat(Append(a, Head(b)), Cat(Tail(b), Cat(c, d))), k)
         /\ \A m \in Nat : /\ Chain(Cat(a, Cat(b, Cat(Cat(c, First(d, m)), Rest(d, m)))), k)
                           /\ Chain(Cat(a, Cat(b, Cat(c, Rest(d, m)))), k)
         /\ Chain(Cat(a, Cat(b, Cat(c, Append(d, k + 1)))), k + 1)
<1>1. /\ << >> \in Seq(Nat) /\ Cat(c, d) \in Seq(Nat) /\ Cat(a, b) \in Seq(Nat)
      /\ Cat(Cat(a, b), c) \in Seq(Nat)
  BY CatIsSeq
<1>2. ASSUME NEW e \in Seq(Nat)
      PROVE  Cat(a, Cat(b, Cat(c, e))) = Cat(Cat(Cat(a, b), c), e) /\ Cat(a, Cat(b, e)) = Cat(Cat(a, b), e)
  BY <1>1, CatIsSeq
<1>3. Chain(Cat(Cat(Cat(a, b), c), d), k) /\ Chain(Cat(Cat(a, b), Cat(c, d)), k)
  BY <1>1, <1>2
<1>4. Chain(Cat(a, Cat(b, Cat(c, << >>))), k)
  <2>1. Chain(Cat(Cat(Cat(a, b), c), Cat(d, << >>)), k)
    BY <1>3, CatIsSeq
  <2>2. Chain(Cat(Cat(Cat(a, b), c), << >>), k)
    BY <1>1, <2>1, Lost
  <2> QED
    BY <1>1, <1>2, <2>2
<1>5. Chain(Cat(a, Cat(b, Cat(<< >>, d))), k)
  <2>1. Chain(Cat(Cat(a, b), d), k)
    BY <1>1, <1>3, Lost
  <2> QED
    BY <1>2, <2>1, CatIsSeq
<1>6. Chain(Cat(a, Cat(<< >>, Cat(c, d))), k)
  <2>1. Chain(Cat(a, Cat(c, d)), k)
    BY <1>1, Lost
  <2> QED
    BY <1>1, <2>1, CatIsSeq
<1>7. Chain(Cat(a, Cat(Cat(b, c), Cat(<< >>, d))), k)
  BY <1>1, CatIsSeq
<1>8. ASSUME b # << >>
      PROVE  Chain(Cat(Append(a, Head(b)), Cat(Tail(b), Cat(c, d))), k)
  <2> DEFINE h == Append(a, Head(b))
             t == Tail(b)
  <2>1. h \in Seq(Nat) /\ t \in Seq(Nat) /\ Cat(h, t) = Cat(a, b)
    BY <1>8, TakeHead
  <2> HIDE DEF h, t
  <2>2. Cat(h, Cat(t, Cat(c, d))) = Cat(Cat(a, b), Cat(c, d))
    BY <1>1, <2>1, CatIsSeq
  <2>3. Chain(Cat(h, Cat(t, Cat(c, d))), k)
    BY <1>3, <2>2
  <2> QED
    BY <2>3 DEF h, t
<1>9. ASSUME NEW m \in Nat
      PROVE  /\ Chain(Cat(a, Cat(b, Cat(Cat(c, First(d, m)), Rest(d, m)))), k)
             /\ Chain(Cat(a, Cat(b, Cat(c, Rest(d, m)))), k)
  <2>1. First(d, m) \in Seq(Nat) /\ Rest(d, m) \in Seq(Nat) /\ Cat(First(d, m), Rest(d, m)) = d
    BY TakeFirst
  <2>2. Cat(Cat(c, First(d, m)), Rest(d, m)) = Cat(c, d)
    BY <2>1, CatIsSeq
  <2>3. Chain(Cat(Cat(Cat(a, b), c), Rest(d, m)), k)
    BY <1>1, <1>3, <2>1, Lost
  <2> QED
    BY <1>2, <2>1, <2>2, <2>3
<1>10. Chain(Cat(a, Cat(b, Cat(c, Append(d, k + 1)))), k + 1)
  <2>1. Append(d, k + 1) \in Seq(Nat) /\ Chain(Cat(Cat(Cat(a, b), c), Append(d, k + 1)), k + 1)
    BY <1>1, <1>3, Grown
  <2> QED
    BY <1>2, <2>1
<1> QED
  BY <1>4, <1>5, <1>6, <1>7, <1>8, <1>9, <1>10

-----------------------------------------------------------------------------
(* The invariant. *)
LEMMA InitIInv == Init => IInv
<1> SUFFICES ASSUME Init PROVE IInv
  OBVIOUS
<1>1. TypeInv
  BY ChipioAssumption DEF Init, TypeInv
<1>2. HeldUp = << >> /\ HeldDown = << >>
  BY DEF Init, HeldUp, HeldDown
<1>3. Cat(<< >>, << >>) = << >> /\ << >> \in Seq(Nat)
  BY DEF Cat
<1>4. Chain(<< >>, 0)
  BY DEF Chain
<1> QED
  BY <1>1, <1>2, <1>3, <1>4 DEF Init, IInv, UpInv, DownInv

LEMMA HeldIsSeq ==
  TypeInv => HeldUp \in Seq(Nat) /\ HeldDown \in Seq(Nat) /\ heard \in Nat /\ asked \in Nat
  BY ChipioAssumption DEF TypeInv, HeldUp, HeldDown

(* The steps that move, take or add bytes, one way and the other. *)
LEMMA UpWays ==
  ASSUME TypeInv, UpInv
  PROVE  /\ Chain(Cat(got, Cat(up, Cat(HeldUp, << >>))), heard)
         /\ Chain(Cat(got, Cat(up, Cat(<< >>, rx))), heard)
         /\ Chain(Cat(got, Cat(<< >>, Cat(HeldUp, rx))), heard)
         /\ Chain(Cat(got, Cat(Cat(up, HeldUp), Cat(<< >>, rx))), heard)
         /\ up # << >> => Chain(Cat(Append(got, Head(up)), Cat(Tail(up), Cat(HeldUp, rx))), heard)
         /\ \A m \in Nat : /\ Chain(Cat(got, Cat(up, Cat(Cat(HeldUp, First(rx, m)), Rest(rx, m)))), heard)
                           /\ Chain(Cat(got, Cat(up, Cat(HeldUp, Rest(rx, m)))), heard)
         /\ Chain(Cat(got, Cat(up, Cat(HeldUp, Append(rx, heard + 1)))), heard + 1)
<1> DEFINE h == HeldUp
<1>1. h \in Seq(Nat) /\ heard \in Nat /\ got \in Seq(Nat) /\ up \in Seq(Nat) /\ rx \in Seq(Nat)
  BY HeldIsSeq DEF TypeInv
<1>2. Chain(Cat(got, Cat(up, Cat(h, rx))), heard)
  BY DEF UpInv
<1> HIDE DEF h
<1> QED
  BY <1>1, <1>2, OnTheWay DEF h

LEMMA DownWays ==
  ASSUME TypeInv, DownInv
  PROVE  /\ Chain(Cat(wired, Cat(tx, Cat(HeldDown, << >>))), asked)
         /\ Chain(Cat(wired, Cat(tx, Cat(<< >>, down))), asked)
         /\ Chain(Cat(wired, Cat(<< >>, Cat(HeldDown, down))), asked)
         /\ Chain(Cat(wired, Cat(Cat(tx, HeldDown), Cat(<< >>, down))), asked)
         /\ tx # << >> => Chain(Cat(Append(wired, Head(tx)), Cat(Tail(tx), Cat(HeldDown, down))), asked)
         /\ \A m \in Nat : /\ Chain(Cat(wired, Cat(tx, Cat(Cat(HeldDown, First(down, m)), Rest(down, m)))), asked)
                           /\ Chain(Cat(wired, Cat(tx, Cat(HeldDown, Rest(down, m)))), asked)
         /\ Chain(Cat(wired, Cat(tx, Cat(HeldDown, Append(down, asked + 1)))), asked + 1)
<1> DEFINE h == HeldDown
<1>1. h \in Seq(Nat) /\ asked \in Nat /\ wired \in Seq(Nat) /\ tx \in Seq(Nat) /\ down \in Seq(Nat)
  BY HeldIsSeq DEF TypeInv
<1>2. Chain(Cat(wired, Cat(tx, Cat(h, down))), asked)
  BY DEF DownInv
<1> HIDE DEF h
<1> QED
  BY <1>1, <1>2, OnTheWay DEF h

(* The blocks that are read and written. *)
LEMMA BlocksAreSeqs ==
  ASSUME TypeInv, NEW m \in Nat
  PROVE  /\ First(rx, Least(Block, m)) \in Seq(Nat) /\ Rest(rx, Least(Block, m)) \in Seq(Nat)
         /\ First(down, Least(Block, m)) \in Seq(Nat) /\ Rest(down, Least(Block, m)) \in Seq(Nat)
         /\ buffer \o First(rx, Least(Block, m)) \in Seq(Nat) /\ Least(Block, m) \in Nat
<1>1. Least(Block, m) \in Nat
  BY ChipioAssumption DEF Least
<1>2. /\ First(rx, Least(Block, m)) \in Seq(Nat) /\ Rest(rx, Least(Block, m)) \in Seq(Nat)
      /\ First(down, Least(Block, m)) \in Seq(Nat) /\ Rest(down, Least(Block, m)) \in Seq(Nat)
  BY <1>1, TakeFirst DEF TypeInv
<1> DEFINE f == First(rx, Least(Block, m))
<1>3. f \in Seq(Nat) /\ buffer \in Seq(Nat)
  BY <1>2 DEF TypeInv
<1> HIDE DEF f
<1>4. buffer \o f \in Seq(Nat)
  BY <1>3
<1> QED
  BY <1>1, <1>2, <1>4 DEF f

(* A step that touches nothing of one way. *)
LEMMA UpStays ==
  UpInv /\ UNCHANGED <<got, up, rx, heard>> /\ HeldUp' = HeldUp => UpInv'
  BY DEF UpInv

LEMMA DownStays ==
  DownInv /\ UNCHANGED <<wired, tx, down, asked>> /\ HeldDown' = HeldDown => DownInv'
  BY DEF DownInv

LEMMA TypeStep == TypeInv /\ [Next]_vars => TypeInv'
<1> SUFFICES ASSUME TypeInv, [Next]_vars
             PROVE  TypeInv'
  OBVIOUS
<1> USE DEF TypeInv
<1>0. << >> \in Seq(Nat)
  OBVIOUS
<1>1. CASE CheckIrq
  BY <1>1 DEF CheckIrq, LoopStep, histVars, chipVars
<1>2. CASE CheckBusy
  <2>1. /\ buffer' \in {buffer, << >>}
        /\ UNCHANGED <<rx, tx, up, down, heard, got, asked, wired, n>>
    BY <1>2 DEF CheckBusy, histVars, chipVars
  <2> QED
    BY <1>0, <2>1
<1>3. CASE CountRx
  BY <1>3 DEF CountRx, LoopStep, histVars, chipVars
<1>4. CASE ReadBlock
  <2>1. /\ buffer' \in {buffer, buffer \o First(rx, Least(Block, n))}
        /\ rx' \in {rx, Rest(rx, Least(Block, n))} /\ n' = 0
        /\ UNCHANGED <<tx, up, down, heard, got, asked, wired>>
    BY <1>4 DEF ReadBlock, histVars
  <2>2. buffer' \in Seq(Nat) /\ rx' \in Seq(Nat)
    BY <2>1, BlocksAreSeqs
  <2> QED
    BY <2>1, <2>2
<1>5. CASE Pause
  BY <1>5 DEF Pause, LoopStep, histVars, chipVars
<1>6. CASE WriteUp
  BY <1>6 DEF WriteUp, LoopStep, histVars, chipVars
<1>7. CASE CheckDown
  BY <1>7 DEF CheckDown, LoopStep, histVars, chipVars
<1>8. CASE ReadDown
  <2>1. /\ buffer' = First(down, Least(Block, n)) /\ down' = Rest(down, Least(Block, n)) /\ n' = 0
        /\ UNCHANGED <<rx, tx, up, heard, got, asked, wired>>
    BY <1>8 DEF ReadDown, histVars, chipVars
  <2>2. buffer' \in Seq(Nat) /\ down' \in Seq(Nat)
    BY <2>1, BlocksAreSeqs
  <2> QED
    BY <2>1, <2>2
<1>9. CASE WriteBlock
  <2>1. /\ tx' \in {tx, tx \o buffer}
        /\ UNCHANGED <<rx, up, down, buffer, heard, got, asked, wired, n>>
    BY <1>9 DEF WriteBlock, histVars
  <2>2. tx \o buffer \in Seq(Nat)
    OBVIOUS
  <2> QED
    BY <2>1, <2>2
<1>10. CASE Cancelled
  BY <1>10 DEF Cancelled, histVars, chipVars
<1>11. CASE LineIn
  BY <1>11, ChipioAssumption DEF LineIn, loopVars
<1>12. CASE LineOut
  BY <1>12 DEF LineOut, loopVars
<1>13. CASE Configured
  BY <1>13 DEF Configured, loopVars, histVars
<1>14. CASE AppWrite
  BY <1>14, ChipioAssumption DEF AppWrite, loopVars, chipVars
<1>15. CASE AppRead
  BY <1>15 DEF AppRead, loopVars, chipVars
<1>16. CASE iChipIoSerialSetAttr
  BY <1>16 DEF iChipIoSerialSetAttr, loopVars
<1>17. CASE AttrWaits
  BY <1>17 DEF AttrWaits, loopVars, chipVars, histVars
<1>18. CASE iChipIoSerialFlush
  <2>1. /\ rx' \in {rx, << >>} /\ tx' \in {tx, << >>}
        /\ UNCHANGED <<up, down, buffer, heard, got, asked, wired, n>>
    BY <1>18 DEF iChipIoSerialFlush, loopVars, chipVars
  <2> QED
    BY <1>0, <2>1
<1>19. CASE vChipIoSerialDelete
  BY <1>19 DEF vChipIoSerialDelete, loopVars, chipVars, histVars
<1>20. CASE Join
  <2>1. /\ rx' \in {rx, << >>} /\ tx' \in {tx, << >>} /\ up' = << >> /\ down' = << >>
        /\ UNCHANGED <<buffer, heard, got, asked, wired, n>>
    BY <1>20 DEF Join, loopVars, chipVars, histVars
  <2> QED
    BY <1>0, <2>1
<1>21. CASE UNCHANGED vars
  BY <1>21 DEF vars, loopVars, chipVars, histVars
<1> QED
  BY <1>1, <1>2, <1>3, <1>4, <1>5, <1>6, <1>7, <1>8, <1>9, <1>10, <1>11, <1>12, <1>13, <1>14,
     <1>15, <1>16, <1>17, <1>18, <1>19, <1>20, <1>21 DEF Next, pvSerialThread, Environment

LEMMA UpStep == IInv /\ [Next]_vars => UpInv'
<1> SUFFICES ASSUME TypeInv, UpInv, [Next]_vars
             PROVE  UpInv'
  BY DEF IInv
<1>1. CASE CheckIrq
  <2>1. UNCHANGED <<got, up, rx, heard>> /\ HeldUp' = HeldUp
    BY <1>1 DEF CheckIrq, LoopStep, histVars, chipVars, HeldUp
  <2> QED
    BY <2>1, UpStays
<1>2. CASE CheckBusy
  <2>1. UNCHANGED <<got, up, rx, heard>> /\ HeldUp' = HeldUp
    BY <1>2 DEF CheckBusy, LoopStep, histVars, chipVars, HeldUp
  <2> QED
    BY <2>1, UpStays
<1>3. CASE CountRx
  <2>1. UNCHANGED <<got, up, rx, heard>> /\ HeldUp' = HeldUp
    BY <1>3 DEF CountRx, LoopStep, histVars, chipVars, HeldUp
  <2> QED
    BY <2>1, UpStays
<1>4. CASE ReadBlock
  <2> DEFINE m == Least(Block, n)
  <2>1. m \in Nat /\ n \in Nat
    BY BlocksAreSeqs DEF TypeInv
  <2>2. UNCHANGED <<got, up, heard>> /\ HeldUp = buffer /\ HeldUp' = buffer'
    BY <1>4 DEF ReadBlock, LoopStep, histVars, HeldUp
  <2>3. \/ buffer' = Cat(buffer, First(rx, m)) /\ rx' = Rest(rx, m)
        \/ buffer' = buffer /\ rx' \in {rx, Rest(rx, m)}
    BY <1>4 DEF ReadBlock, Cat
  <2> HIDE DEF m
  <2>4. \A k \in Nat : /\ Chain(Cat(got, Cat(up, Cat(Cat(HeldUp, First(rx, k)), Rest(rx, k)))), heard)
                       /\ Chain(Cat(got, Cat(up, Cat(HeldUp, Rest(rx, k)))), heard)
    BY UpWays
  <2> QED
    BY <2>1, <2>2, <2>3, <2>4 DEF UpInv
<1>5. CASE Pause
  <2>1. UNCHANGED <<got, up, rx, heard>> /\ HeldUp' = HeldUp
    BY <1>5 DEF Pause, LoopStep, histVars, chipVars, HeldUp
  <2> QED
    BY <2>1, UpStays
<1>6. CASE WriteUp
  <2>1. UNCHANGED <<got, rx, heard>> /\ HeldUp = buffer /\ HeldUp' = << >> /\ up' = Cat(up, buffer)
    BY <1>6 DEF WriteUp, LoopStep, histVars, chipVars, HeldUp, Cat
  <2>2. Chain(Cat(got, Cat(Cat(up, HeldUp), Cat(<< >>, rx))), heard)
    BY UpWays
  <2> QED
    BY <2>1, <2>2 DEF UpInv
<1>7. CASE CheckDown
  <2>1. UNCHANGED <<got, up, rx, heard>> /\ HeldUp' = HeldUp
    BY <1>7 DEF CheckDown, LoopStep, histVars, chipVars, HeldUp
  <2> QED
    BY <2>1, UpStays
<1>8. CASE ReadDown
  <2>1. UNCHANGED <<got, up, rx, heard>> /\ HeldUp' = HeldUp
    BY <1>8 DEF ReadDown, LoopStep, histVars, chipVars, HeldUp
  <2> QED
    BY <2>1, UpStays
<1>9. CASE WriteBlock
  <2>1. UNCHANGED <<got, up, rx, heard>> /\ HeldUp' = HeldUp
    BY <1>9 DEF WriteBlock, LoopStep, histVars, HeldUp
  <2> QED
    BY <2>1, UpStays
<1>10. CASE Cancelled
  <2>1. UNCHANGED <<got, up, rx, heard>> /\ HeldUp' = << >>
    BY <1>10 DEF Cancelled, histVars, chipVars, HeldUp
  <2>2. Chain(Cat(got, Cat(up, Cat(<< >>, rx))), heard)
    BY UpWays
  <2> QED
    BY <2>1, <2>2 DEF UpInv
<1>11. CASE LineIn
  <2>1. UNCHANGED <<got, up>> /\ HeldUp' = HeldUp /\ heard' = heard + 1 /\ rx' = Append(rx, heard + 1)
    BY <1>11 DEF LineIn, loopVars, HeldUp
  <2>2. Chain(Cat(got, Cat(up, Cat(HeldUp, Append(rx, heard + 1)))), heard + 1)
    BY UpWays
  <2> QED
    BY <2>1, <2>2 DEF UpInv
<1>12. CASE LineOut
  <2>1. UNCHANGED <<got, up, rx, heard>> /\ HeldUp' = HeldUp
    BY <1>12 DEF LineOut, loopVars, HeldUp
  <2> QED
    BY <2>1, UpStays
<1>13. CASE Configured
  <2>1. UNCHANGED <<got, up, rx, heard>> /\ HeldUp' = HeldUp
    BY <1>13 DEF Configured, loopVars, histVars, HeldUp
  <2> QED
    BY <2>1, UpStays
<1>14. CASE AppWrite
  <2>1. UNCHANGED <<got, up, rx, heard>> /\ HeldUp' = HeldUp
    BY <1>14 DEF AppWrite, loopVars, chipVars, HeldUp
  <2> QED
    BY <2>1, UpStays
<1>15. CASE AppRead
  <2>1. /\ UNCHANGED <<rx, heard>> /\ HeldUp' = HeldUp
        /\ up # << >> /\ got' = Append(got, Head(up)) /\ up' = Tail(up)
    BY <1>15 DEF AppRead, loopVars, chipVars, HeldUp
  <2>2. up # << >> => Chain(Cat(Append(got, Head(up)), Cat(Tail(up), Cat(HeldUp, rx))), heard)
    BY UpWays
  <2> QED
    BY <2>1, <2>2 DEF UpInv
<1>16. CASE iChipIoSerialSetAttr
  <2>1. UNCHANGED <<got, up, rx, heard>> /\ HeldUp' = HeldUp
    BY <1>16 DEF iChipIoSerialSetAttr, loopVars, HeldUp
  <2> QED
    BY <2>1, UpStays
<1>17. CASE AttrWaits
  <2>1. UNCHANGED <<got, up, rx, heard>> /\ HeldUp' = HeldUp
    BY <1>17 DEF AttrWaits, loopVars, chipVars, histVars, HeldUp
  <2> QED
    BY <2>1, UpStays
<1>18. CASE iChipIoSerialFlush
  <2>1. UNCHANGED <<got, up, heard>> /\ HeldUp' = HeldUp /\ rx' \in {rx, << >>}
    BY <1>18 DEF iChipIoSerialFlush, loopVars, chipVars, HeldUp
  <2>2. Chain(Cat(got, Cat(up, Cat(HeldUp, << >>))), heard)
    BY UpWays
  <2> QED
    BY <2>1, <2>2 DEF UpInv
<1>19. CASE vChipIoSerialDelete
  <2>1. UNCHANGED <<got, up, rx, heard>> /\ HeldUp' = HeldUp
    BY <1>19 DEF vChipIoSerialDelete, loopVars, chipVars, histVars, HeldUp
  <2> QED
    BY <2>1, UpStays
<1>20. CASE Join
  <2>1. UNCHANGED <<got, heard>> /\ HeldUp = << >> /\ HeldUp' = << >> /\ rx' \in {rx, << >>} /\ up' = << >>
    BY <1>20 DEF Join, loopVars, chipVars, histVars, HeldUp
  <2>2. Chain(Cat(got, Cat(<< >>, Cat(<< >>, rx))), heard)
    BY <2>1, UpWays
  <2>3. TypeInv' /\ heard \in Nat /\ got \in Seq(Nat) /\ rx \in Seq(Nat) /\ << >> \in Seq(Nat)
    BY TypeStep, HeldIsSeq DEF TypeInv
  <2>4. Chain(Cat(got, Cat(<< >>, Cat(<< >>, << >>))), heard)
    BY <2>2, <2>3, OnTheWay
  <2> QED
    BY <2>1, <2>2, <2>4 DEF UpInv
<1>21. CASE UNCHANGED vars
  <2>1. UNCHANGED <<got, up, rx, heard>> /\ HeldUp' = HeldUp
    BY <1>21 DEF vars, loopVars, chipVars, histVars, HeldUp
  <2> QED
    BY <2>1, UpStays
<1> QED
  BY <1>1, <1>2, <1>3, <1>4, <1>5, <1>6, <1>7, <1>8, <1>9, <1>10, <1>11, <1>12, <1>13, <1>14,
     <1>15, <1>16, <1>17, <1>18, <1>19, <1>20, <1>21 DEF Next, pvSerialThread, Environment

LEMMA DownStep == IInv /\ [Next]_vars => DownInv'
<1> SUFFICES ASSUME TypeInv, DownInv, [Next]_vars
             PROVE  DownInv'
  BY DEF IInv
<1>1. CASE CheckIrq
  <2>1. UNCHANGED <<wired, tx, down, asked>> /\ HeldDown' = HeldDown
    BY <1>1 DEF CheckIrq, LoopStep, chipVars, histVars, HeldDown
  <2> QED
    BY <2>1, DownStays
<1>2. CASE CheckBusy
  <2>1. UNCHANGED <<wired, tx, down, asked>> /\ HeldDown' = HeldDown
    BY <1>2 DEF CheckBusy, LoopStep, chipVars, histVars, HeldDown
  <2> QED
    BY <2>1, DownStays
<1>3. CASE CountRx
  <2>1. UNCHANGED <<wired, tx, down, asked>> /\ HeldDown' = HeldDown
    BY <1>3 DEF CountRx, LoopStep, chipVars, histVars, HeldDown
  <2> QED
    BY <2>1, DownStays
<1>4. CASE ReadBlock
  <2>1. UNCHANGED <<wired, tx, down, asked>> /\ HeldDown' = HeldDown
    BY <1>4 DEF ReadBlock, LoopStep, histVars, HeldDown
  <2> QED
    BY <2>1, DownStays
<1>5. CASE Pause
  <2>1. UNCHANGED <<wired, tx, down, asked>> /\ HeldDown' = HeldDown
    BY <1>5 DEF Pause, LoopStep, chipVars, histVars, HeldDown
  <2> QED
    BY <2>1, DownStays
<1>6. CASE WriteUp
  <2>1. UNCHANGED <<wired, tx, down, asked>> /\ HeldDown' = HeldDown
    BY <1>6 DEF WriteUp, LoopStep, chipVars, histVars, HeldDown
  <2> QED
    BY <2>1, DownStays
<1>7. CASE CheckDown
  <2>1. UNCHANGED <<wired, tx, down, asked>> /\ HeldDown' = HeldDown
    BY <1>7 DEF CheckDown, LoopStep, chipVars, histVars, HeldDown
  <2> QED
    BY <2>1, DownStays
<1>8. CASE ReadDown
  <2> DEFINE m == Least(Block, n)
  <2>1. m \in Nat /\ n \in Nat
    BY BlocksAreSeqs DEF TypeInv
  <2>2. UNCHANGED <<wired, tx, asked>> /\ HeldDown = << >> /\ HeldDown' = buffer'
    BY <1>8 DEF ReadDown, LoopStep, histVars, chipVars, HeldDown
  <2>3. buffer' = First(down, m) /\ down' = Rest(down, m)
    BY <1>8 DEF ReadDown
  <2> HIDE DEF m
  <2>4. Chain(Cat(wired, Cat(tx, Cat(Cat(<< >>, First(down, m)), Rest(down, m)))), asked)
    BY <2>1, <2>2, DownWays
  <2>5. First(down, m) \in Seq(Nat)
    BY <2>1, TakeFirst DEF TypeInv
  <2>6. Cat(<< >>, First(down, m)) = First(down, m)
    BY <2>5, CatIsSeq
  <2> QED
    BY <2>2, <2>3, <2>4, <2>6 DEF DownInv
<1>9. CASE WriteBlock
  <2>1. /\ UNCHANGED <<wired, down, asked>> /\ HeldDown = buffer /\ HeldDown' = << >>
        /\ tx' \in {tx, Cat(tx, buffer)}
    BY <1>9 DEF WriteBlock, LoopStep, histVars, HeldDown, Cat
  <2>2. /\ Chain(Cat(wired, Cat(tx, Cat(<< >>, down))), asked)
        /\ Chain(Cat(wired, Cat(Cat(tx, HeldDown), Cat(<< >>, down))), asked)
    BY DownWays
  <2> QED
    BY <2>1, <2>2 DEF DownInv
<1>10. CASE Cancelled
  <2>1. UNCHANGED <<wired, tx, down, asked>> /\ HeldDown' = HeldDown
    BY <1>10 DEF Cancelled, chipVars, histVars, HeldDown
  <2> QED
    BY <2>1, DownStays
<1>11. CASE LineIn
  <2>1. UNCHANGED <<wired, tx, down, asked>> /\ HeldDown' = HeldDown
    BY <1>11 DEF LineIn, loopVars, HeldDown
  <2> QED
    BY <2>1, DownStays
<1>12. CASE LineOut
  <2>1. /\ UNCHANGED <<down, asked>> /\ HeldDown' = HeldDown
        /\ tx # << >> /\ wired' = Append(wired, Head(tx)) /\ tx' = Tail(tx)
    BY <1>12 DEF LineOut, loopVars, HeldDown
  <2>2. tx # << >> => Chain(Cat(Append(wired, Head(tx)), Cat(Tail(tx), Cat(HeldDown, down))), asked)
    BY DownWays
  <2> QED
    BY <2>1, <2>2 DEF DownInv
<1>13. CASE Configured
  <2>1. UNCHANGED <<wired, tx, down, asked>> /\ HeldDown' = HeldDown
    BY <1>13 DEF Configured, loopVars, histVars, HeldDown
  <2> QED
    BY <2>1, DownStays
<1>14. CASE AppWrite
  <2>1. /\ UNCHANGED <<wired, tx>> /\ HeldDown' = HeldDown
        /\ asked' = asked + 1 /\ down' = Append(down, asked + 1)
    BY <1>14 DEF AppWrite, loopVars, chipVars, HeldDown
  <2>2. Chain(Cat(wired, Cat(tx, Cat(HeldDown, Append(down, asked + 1)))), asked + 1)
    BY DownWays
  <2> QED
    BY <2>1, <2>2 DEF DownInv
<1>15. CASE AppRead
  <2>1. UNCHANGED <<wired, tx, down, asked>> /\ HeldDown' = HeldDown
    BY <1>15 DEF AppRead, loopVars, chipVars, HeldDown
  <2> QED
    BY <2>1, DownStays
<1>16. CASE iChipIoSerialSetAttr
  <2>1. UNCHANGED <<wired, tx, down, asked>> /\ HeldDown' = HeldDown
    BY <1>16 DEF iChipIoSerialSetAttr, loopVars, HeldDown
  <2> QED
    BY <2>1, DownStays
<1>17. CASE AttrWaits
  <2>1. UNCHANGED <<wired, tx, down, asked>> /\ HeldDown' = HeldDown
    BY <1>17 DEF AttrWaits, loopVars, chipVars, histVars, HeldDown
  <2> QED
    BY <2>1, DownStays
<1>18. CASE iChipIoSerialFlush
  <2>1. UNCHANGED <<wired, down, asked>> /\ HeldDown' = HeldDown /\ tx' \in {tx, << >>}
    BY <1>18 DEF iChipIoSerialFlush, loopVars, chipVars, HeldDown
  <2>2. Chain(Cat(wired, Cat(<< >>, Cat(HeldDown, down))), asked)
    BY DownWays
  <2> QED
    BY <2>1, <2>2 DEF DownInv
<1>19. CASE vChipIoSerialDelete
  <2>1. UNCHANGED <<wired, tx, down, asked>> /\ HeldDown' = HeldDown
    BY <1>19 DEF vChipIoSerialDelete, loopVars, chipVars, histVars, HeldDown
  <2> QED
    BY <2>1, DownStays
<1>20. CASE Join
  <2>1. /\ UNCHANGED <<wired, asked>> /\ HeldDown = << >> /\ HeldDown' = << >>
        /\ tx' \in {tx, << >>} /\ down' = << >>
    BY <1>20 DEF Join, loopVars, chipVars, histVars, HeldDown
  <2>2. Chain(Cat(wired, Cat(tx, Cat(<< >>, << >>))), asked)
    BY <2>1, DownWays
  <2>3. asked \in Nat /\ wired \in Seq(Nat) /\ tx \in Seq(Nat) /\ << >> \in Seq(Nat)
    BY HeldIsSeq DEF TypeInv
  <2>4. Chain(Cat(wired, Cat(<< >>, Cat(<< >>, << >>))), asked)
    BY <2>2, <2>3, OnTheWay
  <2> QED
    BY <2>1, <2>2, <2>4 DEF DownInv
<1>21. CASE UNCHANGED vars
  <2>1. UNCHANGED <<wired, tx, down, asked>> /\ HeldDown' = HeldDown
    BY <1>21 DEF vars, loopVars, chipVars, histVars, HeldDown
  <2> QED
    BY <2>1, DownStays
<1> QED
  BY <1>1, <1>2, <1>3, <1>4, <1>5, <1>6, <1>7, <1>8, <1>9, <1>10, <1>11, <1>12, <1>13, <1>14,
     <1>15, <1>16, <1>17, <1>18, <1>19, <1>20, <1>21 DEF Next, pvSerialThread, Environment

(* What is on its way is always a sequence of ranks: in order and once.    *)
THEOREM Invariance == Spec => []IInv
<1>1. IInv /\ [Next]_vars => IInv'
  BY TypeStep, UpStep, DownStep DEF IInv
<1> QED
  BY InitIInv, <1>1, PTL DEF Spec

-----------------------------------------------------------------------------
(* The refinement. *)
Ranks(h) == [k \in 1 .. h |-> k]

LEMMA RanksGrow ==
  ASSUME NEW h \in Nat
  PROVE  /\ Len(Ranks(h)) = h /\ \A k \in 1 .. h : Ranks(h)[k] = k
         /\ Ranks(h + 1) = Append(Ranks(h), h + 1)
<1>1. Ranks(h) \in Seq(Nat) /\ Len(Ranks(h)) = h /\ \A k \in 1 .. h : Ranks(h)[k] = k
  BY DEF Ranks
<1>2. /\ Ranks(h + 1) \in Seq(Nat) /\ Len(Ranks(h + 1)) = h + 1
      /\ \A k \in 1 .. h + 1 : Ranks(h + 1)[k] = k
  BY DEF Ranks
<1> DEFINE r == Ranks(h)
           g == Ranks(h + 1)
           t == Append(r, h + 1)
<1> HIDE DEF r, g
<1>3. t \in Seq(Nat) /\ Len(t) = h + 1
  BY <1>1 DEF r
<1>4. \A k \in 1 .. h + 1 : t[k] = k
  BY <1>1 DEF r
<1> HIDE DEF t
<1>5. g = t
  BY <1>2, <1>3, <1>4, SeqEqual DEF g
<1> QED
  BY <1>1, <1>5 DEF g, t, r

(* What comes first in a chain is beyond what was handed over. *)
LEMMA HeadIsBeyond ==
  ASSUME NEW a \in Seq(Nat), NEW b \in Seq(Nat), NEW c \in Seq(Nat), NEW k \in Nat,
         Chain(Cat(a, Cat(b, c)), k), b # << >>
  PROVE  /\ Head(b) \in LastOf(a) + 1 .. k /\ Head(b) \in 1 .. k
         /\ LastOf(Append(a, Head(b))) = Head(b)
<1> DEFINE s == a \o (b \o c)
<1>1. s \in Seq(Nat) /\ Len(a) \in Nat /\ Len(a) + 1 \in 1 .. Len(s) /\ s[Len(a) + 1] = Head(b)
  OBVIOUS
<1>2. \A i \in 1 .. Len(a) : i \in 1 .. Len(s) /\ s[i] = a[i]
  OBVIOUS
<1>3. Chain(s, k)
  BY DEF Cat
<1> HIDE DEF s
<1>4. Head(b) >= 1 /\ Head(b) <= k /\ Head(b) \in Nat
  BY <1>1, <1>3 DEF Chain
<1>5. LastOf(a) \in Nat /\ LastOf(a) < Head(b)
  <2>1. CASE a = << >>
    BY <1>4, <2>1 DEF LastOf
  <2>2. CASE a # << >>
    <3>1. Len(a) \in 1 .. Len(a) /\ a[Len(a)] \in Nat
      BY <2>2
    <3>2. s[Len(a)] = a[Len(a)] /\ Len(a) \in 1 .. Len(s) /\ Len(a) < Len(a) + 1
      BY <1>2, <3>1
    <3>3. s[Len(a)] < s[Len(a) + 1]
      BY <1>1, <1>3, <3>2 DEF Chain
    <3> QED
      BY <1>1, <2>2, <3>1, <3>2, <3>3 DEF LastOf
  <2> QED
    BY <2>1, <2>2
<1>6. LastOf(Append(a, Head(b))) = Head(b)
  <2> DEFINE h == Head(b)
             t == Append(a, h)
  <2>1. h \in Nat
    BY <1>4
  <2> HIDE DEF h
  <2>4. Len(t) = Len(a) + 1 /\ t[Len(a) + 1] = h /\ Len(a) \in Nat
    BY <2>1
  <2> HIDE DEF t
  <2>2. t # << >>
    <3>1. Len(<< >>) = 0 /\ Len(t) # 0
      BY <2>4
    <3> QED
      BY <3>1
  <2>3. LastOf(t) = h
    BY <2>2, <2>4 DEF LastOf
  <2> QED
    BY <2>3 DEF t, h
<1> QED
  BY <1>4, <1>5, <1>6

LEMMA UpRefines ==
  ASSUME IInv, [Next]_vars
  PROVE  [Up!Next]_<<Ranks(heard), got, LastOf(got) + 1>>
<1>1. CASE LineIn
  <2>1. heard' = heard + 1 /\ got' = got /\ heard \in Nat /\ heard + 1 \in 1 .. MaxIn
    BY <1>1, ChipioAssumption DEF LineIn, IInv, TypeInv
  <2>2. Ranks(heard') = Append(Ranks(heard), heard + 1)
    BY <2>1, RanksGrow
  <2>3. \E f \in 1 .. MaxIn : Ranks(heard') = Append(Ranks(heard), f) /\ LastOf(got') + 1 = LastOf(got) + 1
    BY <2>1, <2>2
  <2>4. \E f \in 1 .. MaxIn : Up!Send(f)
    BY <2>1, <2>3 DEF Up!Send, Ranks
  <2> QED
    BY <2>4 DEF Up!Next, Ranks
<1>2. CASE AppRead
  <2> DEFINE h == Cat(HeldUp, rx)
             f == Head(up)
  <2>1. /\ up # << >> /\ got' = Append(got, f) /\ heard' = heard
        /\ heard \in Nat /\ got \in Seq(Nat) /\ up \in Seq(Nat) /\ h \in Seq(Nat)
    BY <1>2, HeldIsSeq, CatIsSeq DEF AppRead, IInv, TypeInv
  <2>2. Chain(Cat(got, Cat(up, h)), heard)
    BY DEF IInv, UpInv
  <2> HIDE DEF h
  <2>3. f \in LastOf(got) + 1 .. heard /\ f \in 1 .. heard /\ LastOf(got') = f
    BY <2>1, <2>2, HeadIsBeyond
  <2> HIDE DEF f
  <2>4. Ranks(heard)[f] = f /\ Len(Ranks(heard)) = heard
    BY <2>1, <2>3, RanksGrow
  <2>5. Up!Deliver(f)
    BY <2>1, <2>3, <2>4 DEF Up!Deliver, Ranks
  <2>6. \E k \in LastOf(got) + 1 .. Len(Ranks(heard)) : Up!Deliver(k)
    BY <2>3, <2>4, <2>5
  <2> QED
    BY <2>6 DEF Up!Next, Ranks
<1>3. CASE UNCHANGED <<heard, got>>
  BY <1>3
<1>4. LineIn \/ AppRead \/ UNCHANGED <<heard, got>>
  BY DEF Next, pvSerialThread, Environment, vars, histVars, CheckIrq, CheckBusy, CountRx, ReadBlock, Pause,
         WriteUp, CheckDown, ReadDown, WriteBlock, Cancelled, LineOut, Configured, AppWrite,
         iChipIoSerialSetAttr, AttrWaits, iChipIoSerialFlush, vChipIoSerialDelete, Join
<1> QED
  BY <1>1, <1>2, <1>3, <1>4

LEMMA DownRefines ==
  ASSUME IInv, [Next]_vars
  PROVE  [Down!Next]_<<Ranks(asked), wired, LastOf(wired) + 1>>
<1>1. CASE AppWrite
  <2>1. asked' = asked + 1 /\ wired' = wired /\ asked \in Nat /\ asked + 1 \in 1 .. MaxOut
    BY <1>1, ChipioAssumption DEF AppWrite, IInv, TypeInv
  <2>2. Ranks(asked') = Append(Ranks(asked), asked + 1)
    BY <2>1, RanksGrow
  <2>3. \E f \in 1 .. MaxOut : Ranks(asked') = Append(Ranks(asked), f) /\ LastOf(wired') + 1 = LastOf(wired) + 1
    BY <2>1, <2>2
  <2>4. \E f \in 1 .. MaxOut : Down!Send(f)
    BY <2>1, <2>3 DEF Down!Send, Ranks
  <2> QED
    BY <2>4 DEF Down!Next, Ranks
<1>2. CASE LineOut
  <2> DEFINE h == Cat(HeldDown, down)
             f == Head(tx)
  <2>1. /\ tx # << >> /\ wired' = Append(wired, f) /\ asked' = asked
        /\ asked \in Nat /\ wired \in Seq(Nat) /\ tx \in Seq(Nat) /\ h \in Seq(Nat)
    BY <1>2, HeldIsSeq, CatIsSeq DEF LineOut, IInv, TypeInv
  <2>2. Chain(Cat(wired, Cat(tx, h)), asked)
    BY DEF IInv, DownInv
  <2> HIDE DEF h
  <2>3. f \in LastOf(wired) + 1 .. asked /\ f \in 1 .. asked /\ LastOf(wired') = f
    BY <2>1, <2>2, HeadIsBeyond
  <2> HIDE DEF f
  <2>4. Ranks(asked)[f] = f /\ Len(Ranks(asked)) = asked
    BY <2>1, <2>3, RanksGrow
  <2>5. Down!Deliver(f)
    BY <2>1, <2>3, <2>4 DEF Down!Deliver, Ranks
  <2>6. \E k \in LastOf(wired) + 1 .. Len(Ranks(asked)) : Down!Deliver(k)
    BY <2>3, <2>4, <2>5
  <2> QED
    BY <2>6 DEF Down!Next, Ranks
<1>3. CASE UNCHANGED <<asked, wired>>
  BY <1>3
<1>4. AppWrite \/ LineOut \/ UNCHANGED <<asked, wired>>
  BY DEF Next, pvSerialThread, Environment, vars, histVars, CheckIrq, CheckBusy, CountRx, ReadBlock, Pause,
         WriteUp, CheckDown, ReadDown, WriteBlock, Cancelled, LineIn, Configured, AppRead,
         iChipIoSerialSetAttr, AttrWaits, iChipIoSerialFlush, vChipIoSerialDelete, Join
<1> QED
  BY <1>1, <1>2, <1>3, <1>4

(* The bridge implements LossyLink each way: accesses to the chip that     *)
(* fail, flushes and the end of the thread lose bytes, and nothing of      *)
(* pvSerialThread repeats, reorders or invents one.                        *)
THEOREM BridgeIsLossy == Spec => BridgeLinks
<1>1. Init => Up!Init /\ Down!Init
  <2>1. [k \in 1 .. 0 |-> k] = << >> /\ LastOf(<< >>) + 1 = 1
    BY DEF LastOf
  <2> QED
    BY <2>1 DEF Init, Up!Init, Down!Init
<1>2. IInv /\ [Next]_vars => [Up!Next]_<<[k \in 1 .. heard |-> k], got, LastOf(got) + 1>>
  BY UpRefines DEF Ranks
<1>3. IInv /\ [Next]_vars => [Down!Next]_<<[k \in 1 .. asked |-> k], wired, LastOf(wired) + 1>>
  BY DownRefines DEF Ranks
<1> QED
  BY <1>1, <1>2, <1>3, Invariance, PTL DEF Spec, BridgeLinks, Up!Spec, Down!Spec

-----------------------------------------------------------------------------
(* The tele-information.  The line is what is left of a frame, a, then a   *)
(* frame that nobody has begun to read, b.                                 *)
Symbols == T!Group \cup T!Control
Texts == Seq(T!Group)
Ends == {T!ETX, T!EOT}

Good(f) == \A k \in DOMAIN f : f[k].ok

(* What a text that ends with l, and was stored, makes the receiver hand   *)
(* over.                                                                   *)
Yields(f, l, e) ==
  /\ e = IF l = T!ETX /\ Good(f) THEN <<f>> ELSE << >>
  /\ l = T!ETX /\ Good(f) => f \in Frames

(* The end of a frame, while its beginning is stored or was not found.     *)
EndOf(a, l, e) ==
  \/ a = << >> /\ buf = << >> /\ e = << >> /\ (pchar = T!ETX <=> l = T!ETX)
  \/ \E g \in Texts :
       /\ a = Append(g, l)
       /\ \/ buf = << >> /\ e = << >>
          \/ pchar # T!ETX /\ \E h \in Texts : buf = <<T!STX>> \o h /\ Yields(h \o g, l, e)

(* A frame that ends with l, after one that ended with k. *)
WholeFrame(b, k, l, e) ==
  \/ b = << >> /\ l = k /\ e = << >>
  \/ \E f \in Texts : b = <<T!STX>> \o Append(f, l) /\ IF k = T!ETX THEN Yields(f, l, e) ELSE e = << >>

(* d and e are what the receiver will hand over of a and of b. *)
LineIs(a, b, k, d, e) ==
  /\ a \in Seq(Symbols) /\ b \in Seq(Symbols) /\ k \in Ends
  /\ d \in Seq(Texts) /\ e \in Seq(Texts)
  /\ line = a \o b /\ EndOf(a, k, d) /\ WholeFrame(b, k, last, e)
  /\ sent = (passed \o d) \o e

LinkInv ==
  /\ sent \in Seq(Texts) /\ passed \in Seq(Texts) /\ last \in Ends
  /\ \A k \in 1 .. Len(passed) : passed[k] \in Frames
  /\ \E a, b, k, d, e : LineIs(a, b, k, d, e)

(* The symbols differ. *)
LEMMA Controls ==
  /\ T!STX \notin T!Group /\ T!ETX \notin T!Group /\ T!EOT \notin T!Group
  /\ T!STX # T!ETX /\ T!STX # T!EOT /\ T!ETX # T!EOT
  /\ T!NUL # T!ETX /\ Ends \subseteq T!Control /\ T!STX \in T!Control /\ T!Control = {T!STX} \cup Ends
<1>1. T!STX.label = "STX" /\ T!ETX.label = "ETX" /\ T!EOT.label = "EOT" /\ T!NUL.label = "NUL"
  BY DEF T!STX, T!ETX, T!EOT, T!NUL
<1>2. \A x \in T!Group : x.label \in T!Label
  BY DEF T!Group
<1>3. "STX" \notin T!Label /\ "ETX" \notin T!Label /\ "EOT" \notin T!Label
  BY DEF T!Label
<1> QED
  BY <1>1, <1>2, <1>3 DEF Ends, T!Control

LEMMA SmallestOf ==
  ASSUME NEW N \in SUBSET Nat, N # {}
  PROVE  \E m \in N : \A k \in N : m <= k
<1>1. PICK m \in N : \A k \in N : <<k, m>> \notin OpToRel(<, Nat)
  BY NatLessThanWellFounded, WFMin
<1>2. ASSUME NEW k \in N PROVE m <= k
  <2>1. m \in Nat /\ k \in Nat
    OBVIOUS
  <2>2. ~ (k < m)
    BY <1>1, <2>1 DEF OpToRel
  <2> QED
    BY <2>1, <2>2
<1> QED
  BY <1>2

(* A sequence cut in two. *)
LEMMA CutIn ==
  ASSUME NEW S, NEW s \in Seq(S), NEW t \in Seq(S)
  PROVE  /\ SubSeq(s \o t, 1, Len(s)) = s
         /\ SubSeq(s \o t, Len(s) + 1, Len(s \o t)) = t
<1> DEFINE u == SubSeq(s \o t, 1, Len(s))
           v == SubSeq(s \o t, Len(s) + 1, Len(s \o t))
<1>1. u \in Seq(S) /\ Len(u) = Len(s) /\ \A i \in 1 .. Len(s) : u[i] = s[i]
  OBVIOUS
<1>2. v \in Seq(S) /\ Len(v) = Len(t) /\ \A i \in 1 .. Len(t) : v[i] = t[i]
  OBVIOUS
<1> HIDE DEF u, v
<1>3. u = s /\ v = t
  BY <1>1, <1>2, SeqEqual
<1> QED
  BY <1>3 DEF u, v

LEMMA TextCut ==
  \A g \in Texts : \A m \in 0 .. Len(g) : \E u, v \in Texts : g = u \o v /\ Len(u) = m
<1> SUFFICES ASSUME NEW g \in Seq(T!Group), NEW m \in 0 .. Len(g)
             PROVE  \E u, v \in Seq(T!Group) : g = u \o v /\ Len(u) = m
  BY DEF Texts
<1> DEFINE u == SubSeq(g, 1, m)
           v == SubSeq(g, m + 1, Len(g))
<1>1. u \in Seq(T!Group) /\ Len(u) = m /\ \A i \in 1 .. m : u[i] = g[i]
  OBVIOUS
<1>2. v \in Seq(T!Group) /\ Len(v) = Len(g) - m /\ \A i \in 1 .. Len(g) - m : v[i] = g[m + i]
  OBVIOUS
<1> HIDE DEF u, v
<1>3. u \o v \in Seq(T!Group) /\ Len(u \o v) = Len(g)
  BY <1>1, <1>2
<1>4. \A i \in 1 .. Len(g) : (u \o v)[i] = g[i]
  BY <1>1, <1>2
<1>5. u \o v = g
  BY <1>3, <1>4, SeqEqual
<1> QED
  BY <1>1, <1>2, <1>5

LEMMA Joined ==
  ASSUME NEW S, NEW s \in Seq(S), NEW t \in Seq(S)
  PROVE  s \o t \in Seq(S) /\ Len(s \o t) = Len(s) + Len(t)
OBVIOUS

LEMMA AppendAfter ==
  ASSUME NEW S, NEW s \in Seq(S), NEW t \in Seq(S), NEW x \in S
  PROVE  Append(s \o t, x) = s \o Append(t, x) /\ Append(s, x) = s \o <<x>>
<1>1. t \o <<x>> = Append(t, x) /\ (s \o t) \o <<x>> = Append(s \o t, x) /\ s \o <<x>> = Append(s, x)
  OBVIOUS
<1>2. <<x>> \in Seq(S)
  OBVIOUS
<1>3. (s \o t) \o <<x>> = s \o (t \o <<x>>)
  BY <1>2, ConcatAssociative
<1> QED
  BY <1>1, <1>3

(* What T!Groups keeps of the first k symbols of s. *)
Keeps(u, s, l) ==
  u = [k \in 0 .. l |->
        IF k = 0 THEN << >>
        ELSE IF s[k] \in T!Control THEN u[k - 1] ELSE Append(u[k - 1], s[k])]

(* The groups of a frame are the text between STX and ETX. *)
LEMMA GroupsOfFrame ==
  ASSUME NEW f \in Texts
  PROVE  T!Groups(<<T!STX>> \o Append(f, T!ETX)) = f
<1> DEFINE s == <<T!STX>> \o Append(f, T!ETX)
           l == Len(s)
           first(k) == IF k = 0 THEN 0 ELSE IF k = l THEN l - 2 ELSE k - 1
           g == [k \in 0 .. l |-> SubSeq(f, 1, first(k))]
<1>1. /\ l = Len(f) + 2 /\ Len(f) \in Nat /\ s[1] = T!STX /\ s[l] = T!ETX
      /\ \A k \in 1 .. Len(f) : s[k + 1] = f[k] /\ f[k] \in T!Group
  BY DEF Texts
<1>2. s[1] \in T!Control /\ s[l] \in T!Control /\ \A k \in 1 .. l : k # 1 /\ k # l => s[k] = f[k - 1] /\ s[k] \notin T!Control
  <2>1. s[1] \in T!Control /\ s[l] \in T!Control
    BY <1>1, Controls DEF Ends
  <2>2. ASSUME NEW k \in 1 .. l, k # 1, k # l PROVE s[k] = f[k - 1] /\ s[k] \notin T!Control
    <3>1. k - 1 \in 1 .. Len(f) /\ (k - 1) + 1 = k
      BY <1>1, <2>2
    <3> HIDE DEF s, l
    <3>2. s[k] = f[k - 1] /\ f[k - 1] \in T!Group
      BY <1>1, <3>1
    <3> QED
      BY <3>2, Controls DEF Ends
  <2> QED
    BY <2>1, <2>2
<1> HIDE DEF s, l
<1>3. /\ SubSeq(f, 1, 0) = << >> /\ SubSeq(f, 1, Len(f)) = f
      /\ \A k \in 1 .. Len(f) : Append(SubSeq(f, 1, k - 1), f[k]) = SubSeq(f, 1, k)
  <2>1. SubSeq(f, 1, 0) = << >> /\ SubSeq(f, 1, Len(f)) = f
    BY DEF Texts
  <2>2. ASSUME NEW k \in 1 .. Len(f) PROVE Append(SubSeq(f, 1, k - 1), f[k]) = SubSeq(f, 1, k)
    <3> DEFINE u == Append(SubSeq(f, 1, k - 1), f[k])
               v == SubSeq(f, 1, k)
    <3>1. u \in Seq(T!Group) /\ Len(u) = k /\ \A i \in 1 .. k : u[i] = f[i]
      BY DEF Texts
    <3>2. v \in Seq(T!Group) /\ Len(v) = k /\ \A i \in 1 .. k : v[i] = f[i]
      BY DEF Texts
    <3> HIDE DEF u, v
    <3>3. u = v
      BY <3>1, <3>2, SeqEqual
    <3> QED
      BY <3>3 DEF u, v
  <2> QED
    BY <2>1, <2>2
<1>4. Keeps(g, s, l)
  <2> DEFINE next(k) == IF k = 0 THEN << >>
                        ELSE IF s[k] \in T!Control THEN g[k - 1] ELSE Append(g[k - 1], s[k])
  <2>1. ASSUME NEW k \in 0 .. l PROVE SubSeq(f, 1, first(k)) = next(k)
    <3>1. CASE k = 0
      BY <1>3, <3>1
    <3>2. CASE k = 1
      <4>1. g[0] = << >> /\ k > 0 /\ k # l
        BY <1>1, <1>3, <3>2
      <4> HIDE DEF g
      <4>2. next(k) = << >>
        BY <1>2, <3>2, <4>1
      <4>3. first(k) = 0
        BY <3>2, <4>1
      <4> HIDE DEF next, first
      <4> QED
        BY <1>3, <4>2, <4>3
    <3>3. CASE k = l
      <4>1. g[l - 1] = SubSeq(f, 1, Len(f)) /\ l # 0 /\ l > 0
        BY <1>1, <1>3
      <4> HIDE DEF g
      <4>2. next(k) = f
        BY <1>1, <1>2, <1>3, <3>3, <4>1
      <4>3. first(k) = Len(f)
        BY <1>1, <3>3, <4>1
      <4> HIDE DEF next, first
      <4> QED
        BY <1>3, <4>2, <4>3
    <3>4. CASE k # 0 /\ k # 1 /\ k # l
      <4>1. k - 1 \in 0 .. l /\ k - 1 # 0 /\ k - 1 # l /\ k - 1 \in 1 .. Len(f) /\ k > 0 /\ k \in 1 .. l
        BY <1>1, <3>4
      <4>2. g[k - 1] = SubSeq(f, 1, (k - 1) - 1) /\ first(k) = k - 1
        BY <3>4, <4>1
      <4> HIDE DEF g, first
      <4>3. next(k) = Append(SubSeq(f, 1, (k - 1) - 1), f[k - 1])
        BY <1>2, <3>4, <4>1, <4>2
      <4> QED
        BY <1>3, <4>1, <4>2, <4>3
    <3> QED
      BY <3>1, <3>2, <3>3, <3>4
  <2> HIDE DEF first
  <2>2. g = [k \in 0 .. l |-> next(k)]
    BY <2>1, Zenon DEF g
  <2> QED
    BY <2>2, Zenon DEF Keeps
<1> DEFINE upto == CHOOSE u : Keeps(u, s, l)
<1>5. Keeps(upto, s, l)
  BY <1>4
<1>6. T!Groups(s) = upto[l]
  BY DEF T!Groups, Keeps, l
<1> HIDE DEF upto
<1>7. \A k \in 0 .. l : upto[k] = g[k]
  <2> DEFINE N == {k \in 0 .. l : upto[k] # g[k]}
  <2> SUFFICES ASSUME N # {} PROVE FALSE
    OBVIOUS
  <2>1. N \in SUBSET Nat
    BY <1>1
  <2>2. PICK m \in N : \A k \in N : m <= k
    BY <2>1, SmallestOf
  <2>3. m \in 0 .. l /\ upto[m] # g[m]
    OBVIOUS
  <2> HIDE DEF g
  <2>4. m # 0
    BY <1>4, <1>5, <2>3 DEF Keeps
  <2>5. m - 1 \in 0 .. l /\ m - 1 \notin N
    <3>1. m \in Nat /\ m \in 0 .. l
      BY <1>1, <2>3
    <3> HIDE DEF N
    <3>2. m - 1 \in 0 .. l
      BY <1>1, <2>4, <3>1
    <3>3. m - 1 \notin N
      BY <2>2, <3>1
    <3> QED
      BY <3>2, <3>3
  <2>6. upto[m - 1] = g[m - 1]
    BY <2>5
  <2> QED
    BY <1>4, <1>5, <2>3, <2>4, <2>6 DEF Keeps
<1>8. g[l] = f
  <2>1. l \in 0 .. l /\ l # 0 /\ l - 2 = Len(f)
    BY <1>1
  <2> QED
    BY <1>3, <2>1
<1> HIDE DEF g
<1>9. upto[l] = g[l]
  BY <1>1, <1>7
<1> QED
  BY <1>6, <1>8, <1>9 DEF s

LEMMA TextsAreSymbols ==
  /\ \A g \in Texts : g \in Seq(Symbols)
  /\ \A x \in Ends : x \in Symbols
  /\ T!STX \in Symbols
  /\ \A g \in Texts, x \in Ends : Append(g, x) \in Seq(Symbols)
<1>1. \A g \in Texts : g \in Seq(Symbols)
  BY DEF Texts, Symbols
<1>2. (\A x \in Ends : x \in Symbols) /\ T!STX \in Symbols
  BY Controls DEF Symbols
<1> QED
  BY <1>1, <1>2

LEMMA NotEmpty ==
  \A g \in Texts, x \in Ends :
     Append(g, x) # << >> /\ <<T!STX>> \o Append(g, x) # << >> /\ <<T!STX>> \o g # << >>
<1> SUFFICES ASSUME NEW g \in Texts, NEW x \in Ends
             PROVE  Append(g, x) # << >> /\ <<T!STX>> \o Append(g, x) # << >> /\ <<T!STX>> \o g # << >>
  OBVIOUS
<1>1. g \in Seq(Symbols) /\ x \in Symbols /\ T!STX \in Symbols
  BY TextsAreSymbols
<1>2. Len(Append(g, x)) = Len(g) + 1 /\ Len(<<T!STX>> \o Append(g, x)) = Len(g) + 2 /\ Len(<<T!STX>> \o g) = Len(g) + 1
      /\ Len(g) \in Nat
  BY <1>1
<1> QED
  BY <1>2

(* With an application that polls in time a call reads a part of the text  *)
(* that is left, or it with its end, or the beginning of the next frame.   *)
Part(c, r, a, b, k) ==
  \/ \E u, v \in Texts : u # << >> /\ a = u \o Append(v, k) /\ c = u /\ r = Append(v, k) \o b
  \/ a # << >> /\ c = a /\ r = b
  \/ a = << >> /\ \E u, v \in Texts : b = <<T!STX>> \o Append(u \o v, last) /\ c = <<T!STX>> \o u /\ r = Append(v, last)

LEMMA ReadsPart ==
  ASSUME NEW a, NEW b, NEW k, NEW d, NEW e, LineIs(a, b, k, d, e), last \in Ends,
         NEW m \in Nat, m >= 1, m <= Len(line), T!InTime(SubSeq(line, 1, m))
  PROVE  Part(SubSeq(line, 1, m), SubSeq(line, m + 1, Len(line)), a, b, k)
<1> DEFINE c == SubSeq(line, 1, m)
           r == SubSeq(line, m + 1, Len(line))
<1>1. /\ a \in Seq(Symbols) /\ b \in Seq(Symbols) /\ k \in Ends /\ line = a \o b /\ line \in Seq(Symbols)
      /\ EndOf(a, k, d) /\ WholeFrame(b, k, last, e)
  BY DEF LineIs
<1>2. \A s, t \in Seq(Symbols) : line = s \o t /\ Len(s) = m => c = s /\ r = t
  BY CutIn
<1>3. \A i, j \in 1 .. m : line[i] \in T!Control /\ line[j] \in T!Control => i = j
  <2>1. c \in Seq(Symbols) /\ Len(c) = m /\ \A i \in 1 .. m : c[i] = line[i]
    BY <1>1
  <2>2. \A i, j \in DOMAIN c : c[i] \in T!Control /\ c[j] \in T!Control => i = j
    BY DEF T!InTime
  <2> HIDE DEF c
  <2> QED
    BY <2>1, <2>2
<1> SUFFICES Part(c, r, a, b, k)
  OBVIOUS
<1> HIDE DEF c, r
<1>4. CASE a = << >>
  <2>1. line = b /\ b # << >>
    BY <1>1, <1>4
  <2>2. PICK f \in Texts : b = <<T!STX>> \o Append(f, last)
    BY <1>1, <2>1 DEF WholeFrame
  <2>3. Len(f) \in Nat /\ Len(b) = Len(f) + 2 /\ b[1] = T!STX /\ b[Len(f) + 2] = last
    BY <2>2 DEF Texts
  <2>4. m # Len(f) + 2
    <3> SUFFICES ASSUME m = Len(f) + 2 PROVE FALSE
      OBVIOUS
    <3>1. 1 \in 1 .. m /\ m \in 1 .. m /\ m # 1
      BY <2>3
    <3>2. line[1] \in T!Control /\ line[m] \in T!Control
      BY <2>1, <2>3, Controls
    <3> QED
      BY <1>3, <3>1, <3>2
  <2>5. m - 1 \in 0 .. Len(f)
    BY <2>1, <2>3, <2>4
  <2>6. PICK u, v \in Texts : f = u \o v /\ Len(u) = m - 1
    BY <2>5, TextCut, Zenon
  <2>7. Append(u \o v, last) = u \o Append(v, last) /\ u \in Seq(Symbols) /\ Append(v, last) \in Seq(Symbols)
    <3>1. u \in Seq(Symbols) /\ v \in Seq(Symbols) /\ last \in Symbols /\ Append(v, last) \in Seq(Symbols)
      BY TextsAreSymbols
    <3> QED
      BY <3>1, AppendAfter
  <2> DEFINE w == Append(v, last)
             x == <<T!STX>>
  <2>8. x \in Seq(Symbols) /\ w \in Seq(Symbols) /\ b = x \o (u \o w)
    BY <2>2, <2>6, <2>7, TextsAreSymbols
  <2>9. Len(x) = 1
    OBVIOUS
  <2> HIDE DEF w, x
  <2>10. x \o u \in Seq(Symbols) /\ Len(x \o u) = m
    <3>1. x \in Seq(Symbols) /\ u \in Seq(Symbols) /\ Len(x) = 1 /\ Len(u) = m - 1
      BY <2>6, <2>7, <2>8, <2>9
    <3>2. x \o u \in Seq(Symbols) /\ Len(x \o u) = Len(x) + Len(u)
      BY <3>1, Joined, Zenon
    <3> QED
      BY <3>1, <3>2
  <2>11. x \o (u \o w) = (x \o u) \o w
    BY <2>7, <2>8, ConcatAssociative
  <2>12. c = x \o u /\ r = w
    BY <1>2, <2>1, <2>8, <2>10, <2>11
  <2> QED
    BY <1>4, <2>2, <2>6, <2>12 DEF w, x, Part
<1>5. CASE a # << >>
  <2>1. PICK g \in Texts : a = Append(g, k)
    BY <1>1, <1>5 DEF EndOf
  <2>2. Len(g) \in Nat /\ Len(a) = Len(g) + 1 /\ a[Len(g) + 1] = k
    BY <2>1 DEF Texts
  <2>3. CASE m <= Len(g)
    <3>1. m \in 0 .. Len(g)
      BY <2>2, <2>3
    <3>2. PICK u, v \in Texts : g = u \o v /\ Len(u) = m
      BY <3>1, TextCut, Zenon
    <3>3. u \in Seq(Symbols) /\ v \in Seq(Symbols) /\ k \in Symbols /\ Append(v, k) \in Seq(Symbols)
      BY <1>1, TextsAreSymbols
    <3>4. a = u \o Append(v, k)
      <4>1. Append(u \o v, k) = u \o Append(v, k)
        BY <3>3, AppendAfter
      <4> QED
        BY <2>1, <3>2, <4>1
    <3> DEFINE w == Append(v, k)
    <3>5. w \in Seq(Symbols) /\ a = u \o w
      BY <3>3, <3>4
    <3> HIDE DEF w
    <3>6. line = u \o (w \o b) /\ w \o b \in Seq(Symbols)
      <4>1. (u \o w) \o b = u \o (w \o b)
        BY <1>1, <3>3, <3>5, ConcatAssociative
      <4> QED
        BY <1>1, <3>5, <4>1
    <3>7. c = u /\ r = w \o b
      BY <1>2, <3>2, <3>3, <3>6
    <3>8. u # << >>
      BY <3>2
    <3> QED
      BY <3>4, <3>7, <3>8 DEF w, Part
  <2>4. CASE m = Len(g) + 1
    <3>1. c = a /\ r = b
      BY <1>1, <1>2, <2>2, <2>4
    <3> QED
      BY <1>5, <3>1 DEF Part
  <2>5. CASE m > Len(g) + 1
    <3>1. b # << >>
      <4> SUFFICES ASSUME b = << >> PROVE FALSE
        OBVIOUS
      <4>1. line = a
        BY <1>1
      <4> QED
        BY <2>2, <2>5, <4>1
    <3>2. PICK f \in Texts : b = <<T!STX>> \o Append(f, last)
      BY <1>1, <3>1 DEF WholeFrame
    <3>3. b[1] = T!STX /\ Len(b) >= 1
      BY <3>2 DEF Texts
    <3>4. line[Len(g) + 1] = k /\ line[Len(g) + 2] = T!STX
      BY <1>1, <2>2, <3>3
    <3>5. Len(g) + 1 \in 1 .. m /\ Len(g) + 2 \in 1 .. m
      BY <2>2, <2>5
    <3>6. k \in T!Control /\ T!STX \in T!Control
      BY <1>1, Controls
    <3>7. Len(g) + 1 = Len(g) + 2
      BY <1>3, <3>4, <3>5, <3>6
    <3> QED
      BY <2>2, <3>7
  <2> QED
    <3>1. m <= Len(g) \/ m = Len(g) + 1 \/ m > Len(g) + 1
      BY <2>2
    <3> QED
      BY <2>3, <2>4, <2>5, <3>1, Zenon
<1> QED
  BY <1>4, <1>5

(* A frame is put on the line. *)
LEMMA PutKeeps ==
  ASSUME Prompt, LinkInv, NEW f \in Texts, NEW x \in Ends, x = T!ETX /\ Good(f) => f \in Frames,
         T!Put(<<T!STX>> \o f \o <<x>>, IF last = T!ETX /\ x = T!ETX /\ Good(f) THEN <<f>> ELSE << >>)
  PROVE  LinkInv' /\ UNCHANGED passed /\ (sent' = sent \/ (f \in Frames /\ sent' = Append(sent, f)))
<1> DEFINE s == <<T!STX>> \o Append(f, x)
           whole == IF last = T!ETX /\ x = T!ETX /\ Good(f) THEN <<f>> ELSE << >>
<1>1. <<T!STX>> \o f \o <<x>> = s /\ s \in Seq(Symbols) /\ T!Last(s) = x /\ Len(s) = Len(f) + 2 /\ Len(f) \in Nat
  <2>1. f \in Seq(Symbols) /\ x \in Symbols /\ <<T!STX>> \in Seq(Symbols) /\ Append(f, x) \in Seq(Symbols)
    BY TextsAreSymbols
  <2>2. Append(<<T!STX>> \o f, x) = s
    BY <2>1, AppendAfter
  <2>3. <<T!STX>> \o f \in Seq(Symbols)
    BY <2>1
  <2>4. Append(<<T!STX>> \o f, x) = (<<T!STX>> \o f) \o <<x>>
    BY <2>1, <2>3, AppendAfter
  <2>5. s \in Seq(Symbols) /\ Len(s) = Len(f) + 2 /\ s[Len(f) + 2] = x /\ Len(f) \in Nat
    BY <2>1
  <2> QED
    BY <2>2, <2>4, <2>5 DEF T!Last
<1> HIDE DEF s
<1>2. /\ Len(line) <= 1 /\ line' = line \o s /\ last' = x /\ sent' = sent \o whole
      /\ UNCHANGED <<buf, pchar, passed>>
  BY <1>1 DEF T!Put
<1>3. PICK a, b, k, d, e : LineIs(a, b, k, d, e)
  BY DEF LinkInv
<1>4. b = << >> /\ k = last /\ e = << >> /\ line = a
  <2>1. a \in Seq(Symbols) /\ b \in Seq(Symbols) /\ line = a \o b /\ WholeFrame(b, k, last, e)
    BY <1>3 DEF LineIs
  <2>2. ASSUME NEW g \in Texts, b = <<T!STX>> \o Append(g, last) PROVE FALSE
    <3>1. Len(b) >= 2
      BY <2>2 DEF Texts
    <3>2. Len(line) = Len(a) + Len(b)
      BY <2>1
    <3> QED
      BY <1>2, <2>1, <3>1, <3>2
  <2>3. b = << >> /\ k = last /\ e = << >>
    BY <2>1, <2>2 DEF WholeFrame
  <2> QED
    BY <2>1, <2>3
<1>5. PICK w : w = whole
  OBVIOUS
<1>6. LineIs(a, s, k, d, w)'
  <2>1. EndOf(a, k, d)'
    BY <1>2, <1>3 DEF LineIs, EndOf
  <2>2. WholeFrame(s, k, x, w)'
    BY <1>2, <1>4, <1>5 DEF WholeFrame, Yields, s
  <2>3. sent' = (passed' \o d) \o w
    <3>1. passed \in Seq(Texts) /\ d \in Seq(Texts) /\ sent = (passed \o d) \o e
      BY <1>3 DEF LineIs, LinkInv
    <3>2. (passed \o d) \o << >> = passed \o d
      BY <3>1
    <3> QED
      BY <1>2, <1>4, <1>5, <3>1, <3>2
  <2>4. w \in Seq(Texts)
    BY <1>5
  <2>5. a \in Seq(Symbols) /\ k \in Ends /\ d \in Seq(Texts)
    BY <1>3 DEF LineIs
  <2> QED
    BY <1>1, <1>2, <1>4, <2>1, <2>2, <2>3, <2>4, <2>5 DEF LineIs
<1>7. sent' \in Seq(Texts) /\ (sent' = sent \/ (f \in Frames /\ sent' = Append(sent, f)))
  <2>1. sent \in Seq(Texts) /\ sent \o << >> = sent /\ sent \o <<f>> = Append(sent, f)
    BY DEF LinkInv
  <2>2. w = << >> \/ (w = <<f>> /\ f \in Frames)
    <3>1. CASE last = T!ETX /\ x = T!ETX /\ Good(f)
      BY <1>5, <3>1
    <3>2. CASE ~ (last = T!ETX /\ x = T!ETX /\ Good(f))
      BY <1>5, <3>2
    <3> QED
      BY <3>1, <3>2
  <2>3. sent' = sent \o w
    BY <1>2, <1>5
  <2>4. CASE w = << >>
    <3>1. sent' = sent
      BY <2>1, <2>3, <2>4
    <3> QED
      BY <2>1, <3>1, Zenon
  <2>5. CASE w = <<f>> /\ f \in Frames
    <3>1. sent' = Append(sent, f)
      BY <2>1, <2>3, <2>5
    <3>2. Append(sent, f) \in Seq(Texts)
      BY <2>1
    <3> QED
      BY <2>5, <3>1, <3>2
  <2> QED
    BY <2>2, <2>4, <2>5
<1> QED
  BY <1>2, <1>6, <1>7 DEF LinkInv

(* A call that finds nothing stored. *)
LEMMA SearchKeeps ==
  ASSUME LinkInv, NEW m \in Nat, m >= 1, m <= Len(line), T!InTime(SubSeq(line, 1, m)),
         T!Search(SubSeq(line, 1, m)), line' = SubSeq(line, m + 1, Len(line)), UNCHANGED <<last, sent>>
  PROVE  LinkInv' /\ UNCHANGED passed
<1> DEFINE c == SubSeq(line, 1, m)
           r == SubSeq(line, m + 1, Len(line))
<1>1. PICK a, b, k, d, e : LineIs(a, b, k, d, e)
  BY DEF LinkInv
<1>2. /\ a \in Seq(Symbols) /\ b \in Seq(Symbols) /\ k \in Ends /\ d \in Seq(Texts) /\ e \in Seq(Texts)
      /\ line = a \o b /\ EndOf(a, k, d) /\ WholeFrame(b, k, last, e) /\ sent = (passed \o d) \o e
      /\ last \in Ends /\ passed \in Seq(Texts) /\ sent \in Seq(Texts)
  BY <1>1 DEF LineIs, LinkInv
<1>3. Part(c, r, a, b, k)
  BY <1>1, <1>2, ReadsPart
<1>4. /\ buf = << >> /\ line' = r /\ UNCHANGED <<passed, last, sent>>
      /\ \/ T!Starts(c) # {} /\ buf' = SubSeq(c, T!Min(T!Starts(c)), Len(c)) /\ pchar' = T!NUL
         \/ T!Starts(c) = {} /\ pchar' = T!Last(c) /\ buf' = << >>
  BY DEF T!Search
<1> HIDE DEF c, r
<1>5. d = << >>
  <2>1. \A h : <<T!STX>> \o h = << >> => h \notin Texts
    BY DEF Texts
  <2> QED
    BY <1>2, <1>4, <2>1 DEF EndOf
<1>6. SUFFICES \E a1, b1, k1, d1, e1 : LineIs(a1, b1, k1, d1, e1)'
  BY <1>2, <1>4 DEF LinkInv
<1>7. ASSUME NEW u \in Texts, NEW v \in Texts, u # << >>, a = u \o Append(v, k), c = u, r = Append(v, k) \o b
      PROVE  LineIs(Append(v, k), b, k, d, e)'
  <2>1. T!Starts(c) = {}
    <3>1. \A i \in 1 .. Len(u) : u[i] # T!STX
      BY Controls DEF Texts
    <3> QED
      BY <1>7, <3>1 DEF T!Starts
  <2>2. EndOf(Append(v, k), k, d)'
    BY <1>4, <1>5, <2>1 DEF EndOf
  <2>3. Append(v, k) \in Seq(Symbols)
    BY <1>2, TextsAreSymbols
  <2> QED
    BY <1>2, <1>4, <1>7, <2>2, <2>3 DEF LineIs, WholeFrame, Yields
<1>8. ASSUME a # << >>, c = a, r = b PROVE LineIs(<< >>, b, k, d, e)'
  <2>1. PICK g \in Texts : a = Append(g, k)
    BY <1>2, <1>8 DEF EndOf
  <2>2. \A i \in 1 .. Len(a) : a[i] # T!STX
    <3>1. \A i \in 1 .. Len(a) : a[i] \in T!Group \/ a[i] = k
      BY <2>1 DEF Texts
    <3> QED
      BY <1>2, <3>1, Controls DEF Ends
  <2>3. T!Starts(c) = {} /\ T!Last(c) = k
    BY <1>8, <2>1, <2>2 DEF T!Starts, T!Last, Texts
  <2>4. EndOf(<< >>, k, d)'
    BY <1>4, <1>5, <2>3 DEF EndOf
  <2>5. << >> \o b = b /\ << >> \in Seq(Symbols)
    BY <1>2
  <2> QED
    BY <1>2, <1>4, <1>8, <2>4, <2>5 DEF LineIs, WholeFrame, Yields
<1>9. ASSUME a = << >>, NEW u \in Texts, NEW v \in Texts,
             b = <<T!STX>> \o Append(u \o v, last), c = <<T!STX>> \o u, r = Append(v, last)
      PROVE  LineIs(Append(v, last), << >>, last, e, << >>)'
  <2>1. (pchar = T!ETX <=> k = T!ETX) /\ b # << >>
    <3>1. u \o v \in Texts
      BY DEF Texts
    <3>2. b # << >>
      BY <1>2, <1>9, <3>1, NotEmpty
    <3>3. \A g \in Texts : a # Append(g, k)
      BY <1>2, <1>9, NotEmpty
    <3> QED
      BY <1>2, <1>9, <3>2, <3>3 DEF EndOf
  <2>2. /\ c[1] = T!STX /\ Len(c) = Len(u) + 1 /\ Len(u) \in Nat /\ \A i \in 1 .. Len(c) : i > 1 => c[i] # T!STX
        /\ SubSeq(c, 1, Len(c)) = c /\ c # << >>
    <3>1. \A i \in 1 .. Len(u) : u[i] # T!STX
      BY Controls DEF Texts
    <3>2. c \in Seq(Symbols)
      BY <1>9, TextsAreSymbols
    <3>3. SubSeq(c, 1, Len(c)) = c
      BY <3>2
    <3> QED
      BY <1>9, <3>1, <3>3 DEF Texts
  <2>3. T!Starts(c) = IF pchar = T!ETX THEN {1} ELSE {}
    BY <2>2 DEF T!Starts, T!Before
  <2>4. \A f \in Texts : b = <<T!STX>> \o Append(f, last) => f = u \o v
    <3> SUFFICES ASSUME NEW f \in Texts, b = <<T!STX>> \o Append(f, last) PROVE f = u \o v
      OBVIOUS
    <3> DEFINE w == u \o v
    <3>0. w \in Texts
      BY DEF Texts
    <3>1. w \in Texts /\ b = <<T!STX>> \o Append(w, last)
      BY <1>9, <3>0
    <3> HIDE DEF w
    <3>2. Len(b) = Len(f) + 2 /\ \A i \in 1 .. Len(f) : b[i + 1] = f[i]
      BY DEF Texts
    <3>3. Len(b) = Len(w) + 2 /\ \A i \in 1 .. Len(w) : b[i + 1] = w[i]
      BY <3>1 DEF Texts
    <3>4. f \in Seq(T!Group) /\ w \in Seq(T!Group) /\ Len(f) = Len(w)
      BY <3>1, <3>2, <3>3 DEF Texts
    <3>5. \A i \in 1 .. Len(f) : f[i] = w[i]
      BY <3>2, <3>3, <3>4
    <3>6. f = w
      BY <3>4, <3>5, SeqEqual
    <3> QED
      BY <3>6 DEF w
  <2>5. IF k = T!ETX THEN Yields(u \o v, last, e) ELSE e = << >>
    BY <1>2, <2>1, <2>4 DEF WholeFrame
  <2>6. EndOf(Append(v, last), last, e)'
    <3>1. CASE pchar = T!ETX
      <4>1. T!Min({1}) = 1
        BY DEF T!Min
      <4>2. buf' = <<T!STX>> \o u /\ pchar' # T!ETX
        BY <1>4, <1>9, <2>2, <2>3, <3>1, <4>1, Controls
      <4>3. Yields(u \o v, last, e)'
        BY <1>4, <2>1, <2>5, <3>1 DEF Yields
      <4> QED
        BY <1>4, <4>2, <4>3 DEF EndOf
    <3>2. CASE pchar # T!ETX
      BY <1>4, <2>1, <2>3, <2>5, <3>2 DEF EndOf
    <3> QED
      BY <3>1, <3>2
  <2>7. WholeFrame(<< >>, last, last, << >>)'
    BY <1>4 DEF WholeFrame
  <2>8. line' = Append(v, last) \o << >> /\ Append(v, last) \in Seq(Symbols) /\ << >> \in Seq(Symbols) /\ << >> \in Seq(Texts)
    <3>1. Append(v, last) \in Seq(Symbols)
      BY <1>2, TextsAreSymbols
    <3>2. Append(v, last) \o << >> = Append(v, last)
      BY <3>1
    <3>3. << >> \in Seq(Symbols) /\ << >> \in Seq(Texts)
      OBVIOUS
    <3> QED
      BY <1>4, <1>9, <3>1, <3>2, <3>3, Zenon
  <2>9. sent' = (passed' \o e) \o << >>
    <3>1. passed \o << >> = passed /\ (passed \o e) \o << >> = passed \o e
      BY <1>2
    <3> QED
      BY <1>2, <1>4, <1>5, <3>1
  <2> QED
    BY <1>2, <1>4, <2>6, <2>7, <2>8, <2>9 DEF LineIs
<1> QED
  BY <1>3, <1>7, <1>8, <1>9 DEF Part

(* What prviProbeBuffer does with a part of a text, with the end of an     *)
(* interrupted frame and with the end of a frame.                          *)
LEMMA CollectsText ==
  ASSUME NEW u \in Texts, T!Collect(u)
  PROVE  buf # << >> /\ buf' = buf \o u /\ UNCHANGED <<pchar, passed, calls, ptec, motdetat, demain>>
<1>1. \A i \in 1 .. Len(u) : u[i] # T!ETX /\ u[i] # T!EOT
  BY Controls DEF Texts
<1>2. ~ T!Contains(u, T!ETX)
  BY <1>1 DEF T!Contains
<1>3. {k \in 1 .. Len(u) : u[k] = T!EOT} = {}
  BY <1>1
<1>4. T!AfterEot(u) = buf \o u
  BY <1>3 DEF T!AfterEot
<1> QED
  BY <1>2, <1>4 DEF T!Collect, T!meterVars

LEMMA CollectsEot ==
  ASSUME NEW u \in Texts, T!Collect(Append(u, T!EOT))
  PROVE  buf # << >> /\ buf' = << >> /\ UNCHANGED <<pchar, passed, calls, ptec, motdetat, demain>>
<1> DEFINE c == Append(u, T!EOT)
<1>1. /\ Len(u) \in Nat /\ Len(c) = Len(u) + 1 /\ c[Len(u) + 1] = T!EOT
      /\ \A i \in 1 .. Len(u) : c[i] # T!ETX /\ c[i] # T!EOT
      /\ c \in Seq(Symbols)
  BY Controls, TextsAreSymbols DEF Texts, Ends
<1> HIDE DEF c
<1>2. ~ T!Contains(c, T!ETX)
  BY <1>1, Controls DEF T!Contains
<1>3. {k \in 1 .. Len(c) : c[k] = T!EOT} = {Len(c)}
  BY <1>1
<1>4. T!Max({Len(c)}) = Len(c)
  BY <1>1 DEF T!Max
<1>5. SubSeq(c, Len(c) + 1, Len(c)) = << >>
  BY <1>1
<1>6. T!AfterEot(c) = << >>
  BY <1>3, <1>4, <1>5 DEF T!AfterEot
<1> QED
  BY <1>2, <1>6 DEF T!Collect, T!meterVars, c

LEMMA CollectsEtx ==
  ASSUME NEW u \in Texts, T!Collect(Append(u, T!ETX))
  PROVE  buf # << >> /\ pchar' = T!ETX /\ T!prviProbeFrame(buf \o Append(u, T!ETX))
<1> DEFINE c == Append(u, T!ETX)
<1>1. /\ Len(u) \in Nat /\ Len(c) = Len(u) + 1 /\ c[Len(u) + 1] = T!ETX
      /\ \A i \in 1 .. Len(u) : c[i] # T!ETX /\ c[i] # T!EOT
      /\ SubSeq(c, 1, Len(c)) = c
  <2>1. \A i \in 1 .. Len(u) : u[i] # T!ETX /\ u[i] # T!EOT
    BY Controls DEF Texts
  <2>2. c \in Seq(Symbols)
    BY TextsAreSymbols DEF Ends
  <2>3. SubSeq(c, 1, Len(c)) = c
    BY <2>2
  <2> QED
    BY <2>1, <2>3 DEF Texts
<1> HIDE DEF c
<1>2. T!Contains(c, T!ETX)
  BY <1>1 DEF T!Contains
<1>3. {k \in 1 .. Len(c) : c[k] = T!EOT} = {}
  BY <1>1, Controls
<1>4. {k \in 1 .. Len(c) : c[k] = T!ETX} = {Len(c)}
  BY <1>1
<1>5. T!Min({Len(c)}) = Len(c)
  BY <1>1 DEF T!Min
<1>6. T!SelectInSeq(c, LAMBDA x : x = T!ETX) = Len(c)
  BY <1>4, <1>5 DEF T!SelectInSeq
<1>7. T!AfterEot(c) = buf \o c
  BY <1>3 DEF T!AfterEot
<1> QED
  BY <1>1, <1>2, <1>6, <1>7 DEF T!Collect, c

LEMMA ProbesFrame ==
  ASSUME NEW f \in Texts, T!prviProbeFrame(<<T!STX>> \o Append(f, T!ETX))
  PROVE  /\ buf' = << >>
         /\ Good(f) => passed' = Append(passed, f)
         /\ ~ Good(f) => UNCHANGED passed
<1> DEFINE s == <<T!STX>> \o Append(f, T!ETX)
<1>1. T!Groups(s) = f
  BY GroupsOfFrame
<1> HIDE DEF s
<1>2. T!ChecksumsOk(s) <=> Good(f)
  BY <1>1 DEF T!ChecksumsOk, T!ToSet, Good
<1>3. T!prviProbeFrame(s)
  BY DEF s
<1> QED
  BY <1>1, <1>2, <1>3 DEF T!prviProbeFrame, T!prviSplitFrame

LEMMA SameBefore ==
  ASSUME NEW S, NEW s \in Seq(S), NEW t \in Seq(S), NEW x \in S, Append(s, x) = Append(t, x)
  PROVE  s = t
<1> DEFINE w == Append(s, x)
<1>1. Len(w) = Len(s) + 1 /\ \A i \in 1 .. Len(s) : w[i] = s[i]
  OBVIOUS
<1>2. w = Append(t, x)
  OBVIOUS
<1> HIDE DEF w
<1>3. Len(w) = Len(t) + 1 /\ \A i \in 1 .. Len(t) : w[i] = t[i]
  BY <1>2
<1>4. Len(s) = Len(t) /\ \A i \in 1 .. Len(s) : s[i] = t[i]
  BY <1>1, <1>3
<1> QED
  BY <1>4, SeqEqual

LEMMA JoinedTexts == \A g, h \in Texts : g \o h \in Texts
BY DEF Texts

LEMMA AllOfAppended ==
  ASSUME NEW S, NEW s \in Seq(S), NEW x \in S, NEW F, x \in F, \A i \in 1 .. Len(s) : s[i] \in F
  PROVE  \A i \in 1 .. Len(Append(s, x)) : Append(s, x)[i] \in F
OBVIOUS

LEMMA JoinedAfter ==
  \A s, h, g \in Seq(Symbols), x \in Symbols : (s \o h) \o Append(g, x) = s \o Append(h \o g, x)
<1> SUFFICES ASSUME NEW s \in Seq(Symbols), NEW h \in Seq(Symbols), NEW g \in Seq(Symbols), NEW x \in Symbols
             PROVE  (s \o h) \o Append(g, x) = s \o Append(h \o g, x)
  OBVIOUS
<1>1. Append(g, x) \in Seq(Symbols) /\ Append(h \o g, x) = h \o Append(g, x)
  BY AppendAfter
<1>2. PICK w \in Seq(Symbols) : w = Append(g, x)
  BY <1>1, Zenon
<1>3. (s \o h) \o w = s \o (h \o w)
  BY ConcatAssociative
<1> QED
  BY <1>1, <1>2, <1>3, Zenon

(* What was stored determines the text it belongs to. *)
LEMMA SameStored ==
  \A g, h \in Texts : <<T!STX>> \o g = <<T!STX>> \o h => g = h
<1> SUFFICES ASSUME NEW g \in Seq(T!Group), NEW h \in Seq(T!Group), <<T!STX>> \o g = <<T!STX>> \o h
             PROVE  g = h
  BY DEF Texts
<1> DEFINE s == <<T!STX>> \o g
<1>1. Len(s) = Len(g) + 1 /\ \A i \in 1 .. Len(g) : s[i + 1] = g[i]
  OBVIOUS
<1>2. s = <<T!STX>> \o h
  OBVIOUS
<1> HIDE DEF s
<1>3. Len(s) = Len(h) + 1 /\ \A i \in 1 .. Len(h) : s[i + 1] = h[i]
  BY <1>2
<1>4. Len(g) = Len(h) /\ \A i \in 1 .. Len(g) : g[i] = h[i]
  BY <1>1, <1>3
<1> QED
  BY <1>4, SeqEqual

(* A frame is handed over: the next one of those that were sent. *)
HandsOver == \E f \in Frames : passed' = Append(passed, f) /\ Len(passed) < Len(sent) /\ sent[Len(passed) + 1] = f

(* A call that finds the beginning of a frame stored. *)
LEMMA CollectKeeps ==
  ASSUME Frames \subseteq Texts, LinkInv, NEW m \in Nat, m >= 1, m <= Len(line), T!InTime(SubSeq(line, 1, m)),
         T!Collect(SubSeq(line, 1, m)), line' = SubSeq(line, m + 1, Len(line)), UNCHANGED <<last, sent>>
  PROVE  LinkInv' /\ (passed' = passed \/ HandsOver)
<1> DEFINE c == SubSeq(line, 1, m)
           r == SubSeq(line, m + 1, Len(line))
<1>1. PICK a, b, k, d, e : LineIs(a, b, k, d, e)
  BY DEF LinkInv
<1>2. /\ a \in Seq(Symbols) /\ b \in Seq(Symbols) /\ k \in Ends /\ d \in Seq(Texts) /\ e \in Seq(Texts)
      /\ line = a \o b /\ EndOf(a, k, d) /\ WholeFrame(b, k, last, e) /\ sent = (passed \o d) \o e
      /\ last \in Ends /\ passed \in Seq(Texts) /\ sent \in Seq(Texts)
      /\ \A i \in 1 .. Len(passed) : passed[i] \in Frames
  BY <1>1 DEF LineIs, LinkInv
<1>3. Part(c, r, a, b, k)
  BY <1>1, <1>2, ReadsPart
<1>4. T!Collect(c) /\ line' = r /\ UNCHANGED <<last, sent>>
  OBVIOUS
<1> HIDE DEF c, r
<1>5. buf # << >>
  BY <1>4 DEF T!Collect
<1>6. PICK g, h \in Texts : a = Append(g, k) /\ pchar # T!ETX /\ buf = <<T!STX>> \o h /\ Yields(h \o g, k, d)
  BY <1>2, <1>5 DEF EndOf
<1>7. CASE \E u, v \in Texts : a = u \o Append(v, k) /\ c = u /\ r = Append(v, k) \o b
  <2>1. PICK u, v \in Texts : a = u \o Append(v, k) /\ c = u /\ r = Append(v, k) \o b
    BY <1>7
  <2>2. buf' = buf \o u /\ UNCHANGED <<pchar, passed>>
    BY <1>4, <2>1, CollectsText
  <2>3. u \in Seq(Symbols) /\ v \in Seq(Symbols) /\ k \in Symbols /\ Append(v, k) \in Seq(Symbols)
        /\ <<T!STX>> \in Seq(Symbols) /\ h \in Seq(Symbols)
    BY <1>2, TextsAreSymbols
  <2>4. h \o u \in Texts /\ u \o v \in Texts /\ (h \o u) \o v = h \o (u \o v)
    <3>1. h \in Seq(T!Group) /\ u \in Seq(T!Group) /\ v \in Seq(T!Group)
      BY DEF Texts
    <3>2. h \o u \in Seq(T!Group) /\ u \o v \in Seq(T!Group)
      BY <3>1
    <3> QED
      BY <3>1, <3>2, ConcatAssociative DEF Texts
  <2>5. g = u \o v
    <3>1. Append(g, k) = Append(u \o v, k)
      BY <1>6, <2>1, <2>3, AppendAfter
    <3>2. g \in Seq(Symbols) /\ u \o v \in Seq(Symbols)
      BY <2>4, TextsAreSymbols
    <3> QED
      BY <2>3, <3>1, <3>2, SameBefore, Zenon
  <2>6. buf' = <<T!STX>> \o (h \o u)
    BY <1>6, <2>2, <2>3, ConcatAssociative
  <2>7. PICK w \in Texts : w = h \o u
    BY <2>4
  <2>8. EndOf(Append(v, k), k, d)'
    <3>1. Yields(w \o v, k, d)
      BY <1>6, <2>4, <2>5, <2>7
    <3>2. buf' = <<T!STX>> \o w /\ pchar' # T!ETX
      BY <1>6, <2>2, <2>6, <2>7
    <3> QED
      BY <3>1, <3>2 DEF EndOf, Yields
  <2>9. LineIs(Append(v, k), b, k, d, e)'
    BY <1>2, <1>4, <2>1, <2>2, <2>3, <2>8 DEF LineIs, WholeFrame, Yields
  <2> QED
    BY <1>2, <1>4, <2>2, <2>9 DEF LinkInv
<1>8. CASE c = a /\ r = b
  <2>1. << >> \o b = b /\ << >> \in Seq(Symbols) /\ << >> \in Seq(Texts)
    BY <1>2
  <2>2. CASE k = T!EOT
    <3>1. buf' = << >> /\ UNCHANGED <<pchar, passed>>
      BY <1>4, <1>6, <1>8, <2>2, CollectsEot
    <3>2. d = << >>
      BY <1>6, <2>2, Controls DEF Yields
    <3>3. EndOf(<< >>, k, d)'
      BY <1>6, <2>2, <3>1, <3>2, Controls DEF EndOf
    <3>4. LineIs(<< >>, b, k, d, e)'
      BY <1>2, <1>4, <1>8, <2>1, <3>1, <3>3 DEF LineIs, WholeFrame, Yields
    <3> QED
      BY <1>2, <1>4, <3>1, <3>4 DEF LinkInv
  <2>3. CASE k = T!ETX
    <3>1. pchar' = T!ETX /\ T!prviProbeFrame(buf \o Append(g, T!ETX))
      BY <1>4, <1>6, <1>8, <2>3, CollectsEtx
    <3>2. PICK f \in Texts : f = h \o g
      BY JoinedTexts, Zenon
    <3>3. buf \o Append(g, T!ETX) = <<T!STX>> \o Append(f, T!ETX)
      <4>1. g \in Seq(Symbols) /\ h \in Seq(Symbols) /\ T!ETX \in Symbols /\ <<T!STX>> \in Seq(Symbols)
        BY TextsAreSymbols DEF Ends
      <4>2. (<<T!STX>> \o h) \o Append(g, T!ETX) = <<T!STX>> \o Append(h \o g, T!ETX)
        BY <4>1, JoinedAfter, Zenon
      <4> QED
        BY <1>6, <3>2, <4>2
    <3>4. buf' = << >> /\ (Good(f) => passed' = Append(passed, f)) /\ (~ Good(f) => UNCHANGED passed)
      BY <3>1, <3>3, ProbesFrame
    <3>5. d = (IF Good(f) THEN <<f>> ELSE << >>) /\ (Good(f) => f \in Frames)
      BY <1>6, <2>3, <3>2 DEF Yields
    <3>6. EndOf(<< >>, k, << >>)'
      BY <2>3, <3>1, <3>4 DEF EndOf
    <3>7. passed' = passed \o d
      <4>1. passed \o << >> = passed /\ passed \o <<f>> = Append(passed, f)
        BY <1>2
      <4> QED
        BY <3>4, <3>5, <4>1
    <3>8. passed' \in Seq(Texts) /\ passed' \o << >> = passed'
      <4>1. passed \o d \in Seq(Texts)
        BY <1>2
      <4> QED
        BY <3>7, <4>1
    <3>9. sent' = (passed' \o << >>) \o e
      BY <1>2, <1>4, <3>7, <3>8
    <3>10. LineIs(<< >>, b, k, << >>, e)'
      BY <1>2, <1>4, <1>8, <2>1, <3>6, <3>9 DEF LineIs, WholeFrame, Yields
    <3>11. \A i \in 1 .. Len(passed') : passed'[i] \in Frames
      <4>1. CASE Good(f)
        <5>1. passed' = Append(passed, f) /\ f \in Frames
          BY <3>4, <3>5, <4>1
        <5>2. \A i \in 1 .. Len(Append(passed, f)) : Append(passed, f)[i] \in Frames
          BY <1>2, <5>1, AllOfAppended, Zenon
        <5> QED
          BY <5>1, <5>2, Zenon
      <4>2. CASE ~ Good(f)
        BY <1>2, <3>4, <4>2
      <4> QED
        BY <4>1, <4>2
    <3>12. passed' = passed \/ HandsOver
      <4>1. CASE Good(f)
        <5>1. passed' = Append(passed, f) /\ f \in Frames /\ d = <<f>>
          BY <3>4, <3>5, <4>1
        <5>2. Len(passed) < Len(sent) /\ sent[Len(passed) + 1] = f
          <6>1. sent = (passed \o <<f>>) \o e
            BY <1>2, <5>1
          <6> QED
            BY <1>2, <6>1
        <5> QED
          BY <5>1, <5>2 DEF HandsOver
      <4>2. CASE ~ Good(f)
        BY <3>4, <4>2
      <4> QED
        BY <4>1, <4>2
    <3> QED
      BY <1>2, <1>4, <3>8, <3>10, <3>11, <3>12 DEF LinkInv
  <2> QED
    BY <1>2, <2>2, <2>3 DEF Ends
<1>9. a # << >>
  BY <1>2, <1>6, NotEmpty
<1> QED
  BY <1>3, <1>7, <1>8, <1>9 DEF Part

(* The frames of the meter are texts of good groups. *)
LEMMA FramesAreTexts ==
  /\ Frames \subseteq Texts
  /\ \A f \in Frames : Good(f)
BY Assumptions DEF T!TinfoAssumption, Texts, Good

LEMMA LinkInit == T!Init => LinkInv /\ T!Link!Init
<1> SUFFICES ASSUME T!Init PROVE LinkInv /\ T!Link!Init
  OBVIOUS
<1>1. line = <<T!ETX>> /\ last = T!ETX /\ buf = << >> /\ pchar = T!NUL /\ sent = << >> /\ passed = << >>
  BY DEF T!Init
<1>2. << >> \in Texts /\ << >> \in Seq(Symbols) /\ << >> \in Seq(Texts) /\ T!ETX \in Ends
  BY DEF Texts, Ends
<1>3. PICK a : a = <<T!ETX>>
  OBVIOUS
<1>4. a \in Seq(Symbols) /\ a = Append(<< >>, T!ETX) /\ a \o << >> = a
  BY <1>2, <1>3, TextsAreSymbols
<1>5. EndOf(a, T!ETX, << >>)
  BY <1>1, <1>2, <1>4 DEF EndOf
<1>6. WholeFrame(<< >>, T!ETX, last, << >>)
  BY <1>1 DEF WholeFrame
<1>7. sent = (passed \o << >>) \o << >>
  BY <1>1
<1>8. LineIs(a, << >>, T!ETX, << >>, << >>)
  BY <1>1, <1>2, <1>3, <1>4, <1>5, <1>6, <1>7 DEF LineIs
<1>9. \A k \in 1 .. Len(passed) : passed[k] \in Frames
  BY <1>1
<1> QED
  BY <1>1, <1>2, <1>8, <1>9 DEF LinkInv, T!Link!Init

LEMMA PollKeeps ==
  ASSUME Prompt, LinkInv, T!Poll
  PROVE  LinkInv' /\ sent' = sent /\ (passed' = passed \/ HandsOver)
<1>1. PICK m \in 1 .. MaxChunk : T!iTinfoPoll(m)
  BY DEF T!Poll
<1>2. MaxChunk \in Nat /\ m \in Nat /\ m >= 1 /\ m <= Len(line) /\ T!InTime(SubSeq(line, 1, m))
      /\ (T!Search(SubSeq(line, 1, m)) \/ T!Collect(SubSeq(line, 1, m)))
      /\ line' = SubSeq(line, m + 1, Len(line)) /\ UNCHANGED <<last, sent>>
  BY <1>1, Assumptions DEF T!iTinfoPoll, T!TinfoAssumption
<1>3. CASE T!Search(SubSeq(line, 1, m))
  BY <1>2, <1>3, SearchKeeps
<1>4. CASE T!Collect(SubSeq(line, 1, m))
  BY <1>2, <1>4, CollectKeeps, FramesAreTexts
<1> QED
  BY <1>2, <1>3, <1>4

(* Every step keeps the invariant, and is one of FrameLink or changes      *)
(* nothing there.                                                          *)
LEMMA LinkStep ==
  ASSUME Prompt, LinkInv, [T!Next]_(T!vars)
  PROVE  LinkInv' /\ [T!Link!Next]_<<sent, passed>>
<1>1. ASSUME NEW f \in Frames, T!SendFrame(f)
      PROVE  LinkInv' /\ [T!Link!Next]_<<sent, passed>>
  <2>1. f \in Texts /\ Good(f) /\ T!ETX \in Ends
    BY FramesAreTexts DEF Ends
  <2>2. T!Put(<<T!STX>> \o f \o <<T!ETX>>, IF last = T!ETX /\ T!ETX = T!ETX /\ Good(f) THEN <<f>> ELSE << >>)
    BY <1>1, <2>1 DEF T!SendFrame
  <2>3. LinkInv' /\ UNCHANGED passed /\ (sent' = sent \/ (f \in Frames /\ sent' = Append(sent, f)))
    BY <1>1, <2>1, <2>2, PutKeeps
  <2> QED
    BY <1>1, <2>3 DEF T!Link!Next, T!Link!Send
<1>2. ASSUME NEW f \in Frames, NEW g \in DOMAIN f, T!SendBad(f, g)
      PROVE  LinkInv' /\ [T!Link!Next]_<<sent, passed>>
  <2> DEFINE h == [f EXCEPT ![g].ok = FALSE]
  <2>1. h \in Texts /\ ~ Good(h)
    <3>1. f \in Seq(T!Group)
      BY FramesAreTexts DEF Texts
    <3>2. PICK x \in T!Group : x = [f[g] EXCEPT !.ok = FALSE] /\ x.ok = FALSE
      <4>1. f[g] \in T!Group
        BY <3>1
      <4>2. \A y \in T!Group : [y EXCEPT !.ok = FALSE] \in T!Group /\ [y EXCEPT !.ok = FALSE].ok = FALSE
        BY DEF T!Group
      <4> QED
        BY <4>1, <4>2
    <3>3. [f EXCEPT ![g] = x] \in Seq(T!Group) /\ [f EXCEPT ![g] = x][g] = x /\ g \in DOMAIN [f EXCEPT ![g] = x]
      BY <3>1, ExceptSeq
    <3> QED
      BY <3>2, <3>3 DEF Texts, Good
  <2>2. T!Put(<<T!STX>> \o h \o <<T!ETX>>, << >>) /\ T!ETX \in Ends
    BY <1>2 DEF T!SendBad, Ends
  <2> HIDE DEF h
  <2>3. T!Put(<<T!STX>> \o h \o <<T!ETX>>, IF last = T!ETX /\ T!ETX = T!ETX /\ Good(h) THEN <<h>> ELSE << >>)
    BY <2>1, <2>2
  <2>4. LinkInv' /\ UNCHANGED passed /\ (sent' = sent \/ (h \in Frames /\ sent' = Append(sent, h)))
    BY <2>1, <2>2, <2>3, PutKeeps
  <2> QED
    BY <2>4 DEF T!Link!Next, T!Link!Send
<1>3. ASSUME NEW f \in Frames, NEW m \in DOMAIN f, T!Interrupt(f, m)
      PROVE  LinkInv' /\ [T!Link!Next]_<<sent, passed>>
  <2>1. PICK h \in Texts : h = SubSeq(f, 1, m)
    <3>1. f \in Seq(T!Group) /\ m \in 1 .. Len(f)
      BY FramesAreTexts DEF Texts
    <3>2. SubSeq(f, 1, m) \in Seq(T!Group)
      BY <3>1
    <3> QED
      BY <3>2, Zenon DEF Texts
  <2>2. T!Put(<<T!STX>> \o h \o <<T!EOT>>, << >>) /\ T!EOT \in Ends /\ T!EOT # T!ETX
    BY <1>3, <2>1, Controls DEF T!Interrupt, Ends
  <2>3. T!Put(<<T!STX>> \o h \o <<T!EOT>>, IF last = T!ETX /\ T!EOT = T!ETX /\ Good(h) THEN <<h>> ELSE << >>)
    BY <2>2
  <2>4. LinkInv' /\ UNCHANGED passed /\ (sent' = sent \/ (h \in Frames /\ sent' = Append(sent, h)))
    BY <2>2, <2>3, PutKeeps
  <2> QED
    BY <2>4 DEF T!Link!Next, T!Link!Send
<1>4. CASE T!Poll
  <2>1. LinkInv' /\ sent' = sent /\ (passed' = passed \/ HandsOver)
    BY <1>4, PollKeeps
  <2>2. HandsOver => T!Link!Deliver
    BY <2>1 DEF HandsOver, T!Link!Deliver
  <2> QED
    BY <2>1, <2>2 DEF T!Link!Next
<1>5. CASE UNCHANGED T!vars
  <2>1. UNCHANGED <<line, last, sent, passed, buf, pchar>>
    BY <1>5 DEF T!vars, T!lineVars
  <2>2. PICK a, b, k, d, e : LineIs(a, b, k, d, e)
    BY DEF LinkInv
  <2>3. LineIs(a, b, k, d, e)'
    BY <2>1, <2>2 DEF LineIs, EndOf, WholeFrame, Yields
  <2> QED
    BY <2>1, <2>3 DEF LinkInv
<1> QED
  BY <1>1, <1>2, <1>3, <1>4, <1>5 DEF T!Next

(* The handlers of an application that polls in time get the frames of the *)
(* meter one by one, in order and unaltered, whatever way iTinfoPoll cuts  *)
(* what the line brings and whatever frames are wrong or interrupted.      *)
THEOREM FramesInOrder ==
  ASSUME Prompt
  PROVE  T!Spec => T!Link!Init /\ [][T!Link!Next]_<<sent, passed>>
<1>1. LinkInv /\ [T!Next]_(T!vars) => LinkInv' /\ [T!Link!Next]_<<sent, passed>>
  BY LinkStep
<1> QED
  BY <1>1, LinkInit, PTL DEF T!Spec

-----------------------------------------------------------------------------
(* The changes.  What the meter told last of l in the first k frames of h. *)
Telling(h, k, l) == {j \in 1 .. k : T!Tells(T!Parse(h[j]), l)}
SaidIn(h, k, l) == IF Telling(h, k, l) = {} THEN 0 ELSE T!Told(T!Parse(h[T!Max(Telling(h, k, l))]), l)

LEMMA SaidIsSaidIn == \A k, l : T!Said(k, l) = SaidIn(passed, k, l)
BY DEF T!Said, SaidIn, Telling

LEMMA LargestOf ==
  ASSUME NEW k \in Nat, NEW N \in SUBSET (1 .. k), N # {}
  PROVE  T!Max(N) \in N /\ \A j \in N : j <= T!Max(N)
<1> DEFINE M == {i \in Nat : k - i \in N}
<1>1. M \in SUBSET Nat /\ M # {}
  <2>1. PICK j \in N : TRUE
    OBVIOUS
  <2>2. k - j \in Nat /\ k - (k - j) = j
    BY <2>1
  <2>3. k - j \in M
    BY <2>1, <2>2
  <2> QED
    BY <2>3
<1>2. PICK m \in M : \A i \in M : m <= i
  BY <1>1, SmallestOf
<1>3. k - m \in N /\ \A j \in N : j <= k - m
  <2>1. ASSUME NEW j \in N PROVE j <= k - m
    <3>1. k - j \in Nat /\ k - (k - j) = j /\ m \in Nat /\ j \in Nat
      BY <1>2
    <3>2. k - j \in M
      BY <3>1
    <3>3. m <= k - j
      BY <1>2, <3>2
    <3> QED
      BY <3>1, <3>3
  <2> QED
    BY <1>2, <2>1
<1>4. \E x \in N : \A y \in N : x >= y
  <2>1. \A y \in N : k - m >= y
    BY <1>3
  <2> QED
    BY <1>3, <2>1
<1>5. T!Max(N) \in N /\ \A y \in N : T!Max(N) >= y
  BY <1>4 DEF T!Max
<1>6. \A y \in N : y \in Nat
  OBVIOUS
<1> QED
  BY <1>5, <1>6

(* A frame more: what was said before stays, and the frame may say more. *)
LEMMA SaidBefore ==
  ASSUME NEW h \in Seq(Texts), NEW g \in Texts, NEW k \in 0 .. Len(h), NEW l
  PROVE  SaidIn(Append(h, g), k, l) = SaidIn(h, k, l)
<1> DEFINE w == Append(h, g)
<1>1. \A j \in 1 .. k : w[j] = h[j]
  OBVIOUS
<1> HIDE DEF w
<1>2. Telling(w, k, l) = Telling(h, k, l)
  BY <1>1 DEF Telling
<1>3. CASE Telling(h, k, l) = {}
  BY <1>2, <1>3 DEF SaidIn, w
<1>4. CASE Telling(h, k, l) # {}
  <2>1. Telling(h, k, l) \in SUBSET (1 .. k)
    BY DEF Telling
  <2>2. T!Max(Telling(h, k, l)) \in 1 .. k
    BY <1>4, <2>1, LargestOf
  <2>3. w[T!Max(Telling(w, k, l))] = h[T!Max(Telling(h, k, l))]
    BY <1>1, <1>2, <2>2
  <2> QED
    BY <1>2, <1>4, <2>3 DEF SaidIn, w
<1> QED
  BY <1>3, <1>4

LEMMA SaidNow ==
  ASSUME NEW h \in Seq(Texts), NEW g \in Texts, NEW l
  PROVE  SaidIn(Append(h, g), Len(h) + 1, l)
           = IF T!Tells(T!Parse(g), l) THEN T!Told(T!Parse(g), l) ELSE SaidIn(h, Len(h), l)
<1> DEFINE w == Append(h, g)
           m == Len(h) + 1
<1>1. m \in Nat /\ w[m] = g /\ Len(h) \in 0 .. Len(h) /\ Len(h) = m - 1 /\ m \in 1 .. m
  OBVIOUS
<1>2. SaidIn(w, Len(h), l) = SaidIn(h, Len(h), l)
  BY <1>1, SaidBefore
<1> HIDE DEF w, m
<1>3. CASE T!Tells(T!Parse(g), l)
  <2>1. m \in Telling(w, m, l) /\ Telling(w, m, l) \in SUBSET (1 .. m)
    BY <1>1, <1>3 DEF Telling
  <2>2. T!Max(Telling(w, m, l)) \in 1 .. m /\ m <= T!Max(Telling(w, m, l))
    BY <1>1, <2>1, LargestOf
  <2>3. T!Max(Telling(w, m, l)) = m
    BY <1>1, <2>2
  <2>4. SaidIn(w, m, l) = T!Told(T!Parse(g), l)
    BY <1>1, <2>1, <2>3 DEF SaidIn
  <2> QED
    BY <1>3, <2>4 DEF w, m
<1>4. CASE ~ T!Tells(T!Parse(g), l)
  <2>1. Telling(w, m, l) = Telling(w, Len(h), l)
    BY <1>1, <1>4 DEF Telling
  <2>2. SaidIn(w, m, l) = SaidIn(w, Len(h), l)
    BY <2>1 DEF SaidIn
  <2> QED
    BY <1>2, <1>4, <2>2 DEF w, m
<1> QED
  BY <1>3, <1>4

(* No frame of the meter is a short one, which a meter of three phases     *)
(* sends: the fields it does not have are read as unknown.                 *)
CompleteFrames == \A f \in Frames : T!Parse(f).kind \in {"none", "blue"}

(* The receiver remembers what the meter told last. *)
Remembers ==
  /\ ptec = SaidIn(passed, Len(passed), "PTEC")
  /\ motdetat = SaidIn(passed, Len(passed), "MOTDETAT")
  /\ demain = SaidIn(passed, Len(passed), "DEMAIN")

Reported(h, l) ==
  h \in Handled =>
    \A k \in 1 .. Len(passed) : h \in calls[k] <=> SaidIn(passed, k, l) # SaidIn(passed, k - 1, l)

ReportInv ==
  /\ Remembers /\ calls \in Seq(SUBSET T!Handler) /\ Len(calls) = Len(passed)
  /\ Reported("Ptec", "PTEC") /\ Reported("MotEtat", "MOTDETAT") /\ Reported("Tempo", "DEMAIN")

(* A frame g that is handed over. *)
Handles(g) ==
  /\ passed' = Append(passed, g) /\ calls' = Append(calls, T!CallsFor(T!Parse(g)))
  /\ T!Remember(T!Parse(g))

LEMMA HandlesOrNot ==
  ASSUME [T!Next]_(T!vars)
  PROVE  UNCHANGED <<passed, calls, ptec, motdetat, demain>> \/ \E g : Handles(g)
<1>1. ASSUME NEW c, T!Collect(c)
      PROVE  UNCHANGED <<passed, calls, ptec, motdetat, demain>> \/ \E g : Handles(g)
  <2>1. ASSUME NEW s, T!prviProbeFrame(s)
        PROVE  UNCHANGED <<passed, calls, ptec, motdetat, demain>> \/ Handles(T!Groups(s))
    BY <2>1 DEF T!prviProbeFrame, T!prviSplitFrame, T!meterVars, Handles
  <2> QED
    BY <1>1, <2>1 DEF T!Collect, T!meterVars
<1>2. ASSUME NEW c, T!Search(c)
      PROVE  UNCHANGED <<passed, calls, ptec, motdetat, demain>>
  BY <1>2 DEF T!Search, T!meterVars
<1>3. CASE T!Poll
  <2>1. \E c : T!Search(c) \/ T!Collect(c)
    BY <1>3 DEF T!Poll, T!iTinfoPoll
  <2> QED
    BY <1>1, <1>2, <2>1
<1>4. ASSUME NEW s, NEW w, T!Put(s, w)
      PROVE  UNCHANGED <<passed, calls, ptec, motdetat, demain>>
  BY <1>4 DEF T!Put, T!meterVars
<1>5. CASE UNCHANGED T!vars
  BY <1>5 DEF T!vars, T!meterVars
<1> QED
  BY <1>3, <1>4, <1>5 DEF T!Next, T!SendFrame, T!SendBad, T!Interrupt

(* The frame that is handed over is one of the meter's. *)
LEMMA HandledFrame ==
  ASSUME LinkInv, LinkInv', NEW g, passed' = Append(passed, g)
  PROVE  g \in Frames
<1>1. passed \in Seq(Texts) /\ \A k \in 1 .. Len(passed') : passed'[k] \in Frames
  BY DEF LinkInv
<1>2. passed'[Len(passed) + 1] = g /\ Len(passed') = Len(passed) + 1 /\ Len(passed) \in Nat
  BY <1>1
<1>3. Len(passed) + 1 \in 1 .. Len(passed')
  BY <1>2
<1> QED
  BY <1>1, <1>2, <1>3

(* What the handlers of changes are called for, and what is remembered. *)
LEMMA CallsOf ==
  ASSUME NEW f, f.kind \in {"none", "blue"}, T!Remember(f)
  PROVE  /\ "Ptec" \in Handled => ("Ptec" \in T!CallsFor(f) <=> T!Tells(f, "PTEC") /\ f.ptec # ptec)
         /\ "MotEtat" \in Handled => ("MotEtat" \in T!CallsFor(f) <=> T!Tells(f, "MOTDETAT") /\ f.motdetat # motdetat)
         /\ "Tempo" \in Handled => ("Tempo" \in T!CallsFor(f) <=> T!Tells(f, "DEMAIN") /\ f.demain # demain)
         /\ ptec' = IF T!Tells(f, "PTEC") THEN f.ptec ELSE ptec
         /\ motdetat' = IF T!Tells(f, "MOTDETAT") THEN f.motdetat ELSE motdetat
         /\ demain' = IF T!Tells(f, "DEMAIN") THEN f.demain ELSE demain
         /\ T!CallsFor(f) \in SUBSET T!Handler
<1>1. CASE f.kind = "none"
  BY <1>1 DEF T!CallsFor, T!Exceptions, T!Remember, T!Tells, T!Handler
<1>2. CASE f.kind = "blue"
  BY <1>2 DEF T!CallsFor, T!Exceptions, T!Remember, T!Tells, T!Handler
<1> QED
  BY <1>1, <1>2

(* The calls for one label stay right when a frame more is handed over. *)
LEMMA ReportedStays ==
  ASSUME passed \in Seq(Texts), calls \in Seq(SUBSET T!Handler), Len(calls) = Len(passed),
         NEW g \in Texts, NEW C \in SUBSET T!Handler, NEW h, NEW l, Reported(h, l),
         h \in Handled => (h \in C <=> SaidIn(Append(passed, g), Len(passed) + 1, l) # SaidIn(passed, Len(passed), l)),
         passed' = Append(passed, g), calls' = Append(calls, C)
  PROVE  Reported(h, l)'
<1> SUFFICES ASSUME h \in Handled, NEW k \in 1 .. Len(passed')
             PROVE  h \in calls'[k] <=> SaidIn(passed', k, l) # SaidIn(passed', k - 1, l)
  BY DEF Reported
<1>1. Len(passed) \in Nat /\ Len(passed') = Len(passed) + 1
  OBVIOUS
<1>2. \A i \in 0 .. Len(passed) : SaidIn(passed', i, l) = SaidIn(passed, i, l)
  BY SaidBefore
<1>3. CASE k = Len(passed) + 1
  <2>1. calls'[k] = C /\ k - 1 = Len(passed) /\ Len(passed) \in 0 .. Len(passed)
    BY <1>1, <1>3
  <2> QED
    BY <1>2, <1>3, <2>1
<1>4. CASE k # Len(passed) + 1
  <2>1. calls'[k] = calls[k] /\ k \in 1 .. Len(passed) /\ k - 1 \in 0 .. Len(passed) /\ k \in 0 .. Len(passed)
    BY <1>1, <1>4
  <2>2. h \in calls[k] <=> SaidIn(passed, k, l) # SaidIn(passed, k - 1, l)
    BY <2>1 DEF Reported
  <2> QED
    BY <1>2, <2>1, <2>2
<1> QED
  BY <1>3, <1>4

LEMMA ReportStep ==
  ASSUME CompleteFrames, LinkInv, LinkInv', ReportInv, [T!Next]_(T!vars)
  PROVE  ReportInv'
<1>1. CASE UNCHANGED <<passed, calls, ptec, motdetat, demain>>
  BY <1>1 DEF ReportInv, Remembers, Reported
<1>2. ASSUME NEW g, Handles(g) PROVE ReportInv'
  <2> DEFINE f == T!Parse(g)
  <2>1. g \in Frames /\ g \in Texts /\ f.kind \in {"none", "blue"} /\ T!Remember(f)
        /\ passed' = Append(passed, g) /\ calls' = Append(calls, T!CallsFor(f)) /\ passed \in Seq(Texts)
    BY <1>2, HandledFrame, FramesAreTexts DEF CompleteFrames, Handles, LinkInv
  <2>2. \A l : SaidIn(Append(passed, g), Len(passed) + 1, l)
                 = IF T!Tells(f, l) THEN T!Told(f, l) ELSE SaidIn(passed, Len(passed), l)
    BY <2>1, SaidNow
  <2> HIDE DEF f
  <2>3. /\ T!Told(f, "PTEC") = f.ptec /\ T!Told(f, "MOTDETAT") = f.motdetat /\ T!Told(f, "DEMAIN") = f.demain
    BY DEF T!Told
  <2>4. /\ ptec = SaidIn(passed, Len(passed), "PTEC") /\ motdetat = SaidIn(passed, Len(passed), "MOTDETAT")
        /\ demain = SaidIn(passed, Len(passed), "DEMAIN")
        /\ calls \in Seq(SUBSET T!Handler) /\ Len(calls) = Len(passed)
        /\ Reported("Ptec", "PTEC") /\ Reported("MotEtat", "MOTDETAT") /\ Reported("Tempo", "DEMAIN")
    BY DEF ReportInv, Remembers
  <2>5. Len(passed') = Len(passed) + 1 /\ calls' \in Seq(SUBSET T!Handler) /\ Len(calls') = Len(passed')
    BY <2>1, <2>4, CallsOf
  <2>6. Remembers'
    BY <2>1, <2>2, <2>3, <2>4, <2>5, CallsOf DEF Remembers
  <2>7. T!CallsFor(f) \in SUBSET T!Handler
    BY <2>1, CallsOf
  <2>8. Reported("Ptec", "PTEC")'
    <3>1. "Ptec" \in Handled =>
            ("Ptec" \in T!CallsFor(f) <=> SaidIn(Append(passed, g), Len(passed) + 1, "PTEC") # SaidIn(passed, Len(passed), "PTEC"))
      BY <2>1, <2>2, <2>3, <2>4, CallsOf
    <3> QED
      BY <2>1, <2>4, <2>7, <3>1, ReportedStays
  <2>9. Reported("MotEtat", "MOTDETAT")'
    <3>1. "MotEtat" \in Handled =>
            ("MotEtat" \in T!CallsFor(f) <=> SaidIn(Append(passed, g), Len(passed) + 1, "MOTDETAT") # SaidIn(passed, Len(passed), "MOTDETAT"))
      BY <2>1, <2>2, <2>3, <2>4, CallsOf
    <3> QED
      BY <2>1, <2>4, <2>7, <3>1, ReportedStays
  <2>10. Reported("Tempo", "DEMAIN")'
    <3>1. "Tempo" \in Handled =>
            ("Tempo" \in T!CallsFor(f) <=> SaidIn(Append(passed, g), Len(passed) + 1, "DEMAIN") # SaidIn(passed, Len(passed), "DEMAIN"))
      BY <2>1, <2>2, <2>3, <2>4, CallsOf
    <3> QED
      BY <2>1, <2>4, <2>7, <3>1, ReportedStays
  <2> QED
    BY <2>5, <2>6, <2>8, <2>9, <2>10 DEF ReportInv
<1> QED
  BY <1>1, <1>2, HandlesOrNot

LEMMA ReportInit == T!Init => ReportInv
<1> SUFFICES ASSUME T!Init PROVE ReportInv
  OBVIOUS
<1>1. passed = << >> /\ calls = << >> /\ ptec = 0 /\ motdetat = 0 /\ demain = 0
  BY DEF T!Init
<1>2. \A l : SaidIn(<< >>, 0, l) = 0
  BY DEF SaidIn, Telling
<1>3. << >> \in Seq(SUBSET T!Handler) /\ Len(<< >>) = 0
  OBVIOUS
<1> QED
  BY <1>1, <1>2, <1>3 DEF ReportInv, Remembers, Reported

LEMMA ReportInvIs ==
  ASSUME ReportInv, LinkInv
  PROVE  ChangesReported
<1>1. passed \in Seq(Texts)
  BY DEF LinkInv
<1>2. DOMAIN passed = 1 .. Len(passed)
  BY <1>1
<1>3. \A h, l : Reported(h, l) => T!ChangeReported(h, l)
  BY <1>2, SaidIsSaidIn DEF Reported, T!ChangeReported
<1> QED
  BY <1>3 DEF ReportInv, ChangesReported, T!ChangesReported

(* The handlers of changes of an application that polls in time are called *)
(* for the frames that change what the meter said before, and for no       *)
(* other, as long as the meter sends complete frames.                      *)
THEOREM ChangesAreReported ==
  ASSUME Prompt, CompleteFrames
  PROVE  T!Spec => []ChangesReported
<1>1. T!Init => LinkInv /\ ReportInv
  BY LinkInit, ReportInit
<1>2. LinkInv /\ ReportInv /\ [T!Next]_(T!vars) => LinkInv' /\ ReportInv'
  BY LinkStep, ReportStep
<1>3. LinkInv /\ ReportInv => ChangesReported
  BY ReportInvIs
<1> QED
  BY <1>1, <1>2, <1>3, PTL DEF T!Spec
=============================================================================
