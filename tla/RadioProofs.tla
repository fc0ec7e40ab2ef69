---------------------------- MODULE RadioProofs -----------------------------
(***************************************************************************)
(* However many reports, copies and callbacks there are: what iGpsRead     *)
(* copies without a lock is not older than what the application was told.  *)
(*                                                                         *)
(* However many frames, repeaters, faults and flushes there are: what the  *)
(* AX.25 link and the TNC hand over was sent, unaltered, in order and once *)
(* (they implement LossyLink).  The check sums mark the frames; the marks  *)
(* under way are in order and after that of the last frame handed over.    *)
(***************************************************************************)
EXTENDS Radio, FiniteSetTheorems, SequenceTheorems, WellFoundedInduction, TLAPS

(* The parts of xData, and the copy, are of reports; xFixMutex was         *)
(* unlocked for a report that is in both parts.                            *)
TypeInv ==
  /\ data \in [Part -> [n : Nat, fix : BOOLEAN]]
  /\ copy \in [Part -> [n : Nat, fix : BOOLEAN]]
  /\ report \in [n : Nat, fix : BOOLEAN]
  /\ told \in Nat /\ learnt \in Nat

OrderInv ==
  /\ learnt <= told /\ told <= data["second"].n /\ data["second"].n <= report.n
  /\ data["first"].n = report.n
  /\ loop \in {"count", "tell"} => data["second"].n = report.n
  /\ app \in {"copy", "copied"} => copy["first"].n >= learnt
  /\ app = "copied" => copy["second"].n >= learnt

IInv == TypeInv /\ OrderInv

LEMMA InitIInv == Init => IInv
  BY DEF Init, IInv, TypeInv, OrderInv, Part, Nothing

(* Every step keeps the order of the reports. *)
LEMMA IInvStep == IInv /\ [Next]_vars => IInv'
<1> SUFFICES ASSUME IInv, [Next]_vars PROVE IInv'
  OBVIOUS
<1> USE DEF IInv, TypeInv, OrderInv, Part, LoopStep, Idle
<1>1. ASSUME NEW f \in BOOLEAN, ReadBegins(f) PROVE IInv'
  <2>1. report' = [n |-> report.n + 1, fix |-> f] /\ data' = [data EXCEPT !["first"] = report']
    BY <1>1 DEF ReadBegins
  <2>2. loop' = "read" /\ UNCHANGED <<app, copy, told, learnt>>
    BY <1>1 DEF ReadBegins, appVars, histVars
  <2> QED
    BY <2>1, <2>2
<1>2. CASE ReadEnds
  <2>1. data' = [data EXCEPT !["second"] = report] /\ UNCHANGED <<report, app, copy, told, learnt>>
    BY <1>2 DEF ReadEnds, appVars, histVars
  <2> QED
    BY <2>1
<1>3. CASE Tell
  BY <1>3 DEF Tell, appVars
<1>4. CASE Renew \/ RaiseError \/ Count \/ TestCallback \/ Call \/ CallbackReturns \/ Cancelled
  BY <1>4 DEF Renew, RaiseError, Count, TestCallback, Call, CallbackReturns, Cancelled, xGpsVars, appVars, histVars
<1>5. CASE bGpsDataAvailable
  BY <1>5 DEF bGpsDataAvailable, loopVars, appVars
<1>6. CASE iGpsRead
  BY <1>6 DEF iGpsRead, xGpsVars, loopVars
<1>7. CASE iGpsReadEnds
  BY <1>7 DEF iGpsReadEnds, xGpsVars, loopVars, histVars
<1>8. CASE iGpsError \/ Used \/ vGpsDelete \/ Join \/ \E e \in Event, b \in BOOLEAN : SetCallback(e, b)
  BY <1>8 DEF iGpsError, Used, vGpsDelete, Join, SetCallback, xGpsVars, loopVars, appVars, histVars
<1>9. CASE UNCHANGED vars
  BY <1>9 DEF vars, xGpsVars, loopVars, appVars, histVars
<1> QED
  BY <1>1, <1>2, <1>3, <1>4, <1>5, <1>6, <1>7, <1>8, <1>9 DEF Next, pvFixLoop, Application, Poll

(* FreshCopy: no part of what iGpsRead copies is older than the fix that   *)
(* bGpsDataAvailable told of, although pvFixLoop writes it meanwhile.      *)
THEOREM CopyIsFresh == Spec => []FreshCopy
<1>1. IInv => FreshCopy
  BY DEF IInv, TypeInv, OrderInv, FreshCopy, Part
<1> QED
  BY <1>1, InitIInv, IInvStep, PTL DEF Spec

-----------------------------------------------------------------------------
(* Marks.                                                                  *)
(*                                                                         *)
(* The check sum of a frame marks it: no other frame has it.  w is the     *)
(* sequence of the marks of the frames sent, K the set of all the marks.   *)
(* The marks that are under way, in a receiver and on its line, are of     *)
(* frames sent, from the number n on, in the order in which they were sent.*)
InOrder(K, s, w, n) ==
  /\ \A i \in 1 .. Len(s) : s[i] \in K => \E j \in 1 .. Len(w) : s[i] = w[j] /\ n <= j
  /\ \A h, i \in 1 .. Len(s) : \A j, k \in 1 .. Len(w) :
       h < i /\ s[h] = w[j] /\ s[i] = w[k] => j < k

(* The marks of t are marks of s, in the same order. *)
PartOf(K, t, s) == \E f :
  /\ \A i \in 1 .. Len(t) : t[i] \in K => f[i] \in 1 .. Len(s) /\ s[f[i]] = t[i]
  /\ \A h, i \in 1 .. Len(t) : t[h] \in K /\ t[i] \in K /\ h < i => f[h] < f[i]

(* s has no mark; it has but the mark x, once. *)
NoMark(K, s) == \A i \in 1 .. Len(s) : s[i] \notin K
OneMark(K, s, x) == \A h, i \in 1 .. Len(s) : s[h] \in K /\ s[i] \in K => h = i /\ s[h] = x

(* The marks of different frames are different. *)
Distinct(w) == \A j, k \in 1 .. Len(w) : w[j] = w[k] => j = k

LEMMA Concatenation ==
  ASSUME NEW S, NEW a \in Seq(S), NEW b \in Seq(S)
  PROVE  /\ a \o b \in Seq(S) /\ Len(a) \in Nat /\ Len(b) \in Nat /\ Len(a \o b) = Len(a) + Len(b)
         /\ \A i \in 1 .. Len(a) : i \in 1 .. Len(a \o b) /\ (a \o b)[i] = a[i]
         /\ \A i \in 1 .. Len(b) : Len(a) + i \in 1 .. Len(a \o b) /\ (a \o b)[Len(a) + i] = b[i]
         /\ \A i \in 1 .. Len(a \o b) : i \in 1 .. Len(a) \/ (i - Len(a) \in 1 .. Len(b) /\ i = Len(a) + (i - Len(a)))
  OBVIOUS

LEMMA PartInOrder ==
  ASSUME NEW K, NEW s, NEW t, NEW w \in Seq(K), NEW n, PartOf(K, t, s), InOrder(K, s, w, n)
  PROVE  InOrder(K, t, w, n)
<1>1. PICK f :
        /\ \A i \in 1 .. Len(t) : t[i] \in K => f[i] \in 1 .. Len(s) /\ s[f[i]] = t[i]
        /\ \A h, i \in 1 .. Len(t) : t[h] \in K /\ t[i] \in K /\ h < i => f[h] < f[i]
  BY DEF PartOf
<1>2. ASSUME NEW i \in 1 .. Len(t), t[i] \in K PROVE \E j \in 1 .. Len(w) : t[i] = w[j] /\ n <= j
  BY <1>1, <1>2 DEF InOrder
<1>3. ASSUME NEW h \in 1 .. Len(t), NEW i \in 1 .. Len(t), NEW j \in 1 .. Len(w), NEW k \in 1 .. Len(w),
             h < i, t[h] = w[j], t[i] = w[k]
      PROVE  j < k
  <2>1. t[h] \in K /\ t[i] \in K
    BY <1>3
  <2>2. f[h] \in 1 .. Len(s) /\ f[i] \in 1 .. Len(s) /\ f[h] < f[i] /\ s[f[h]] = w[j] /\ s[f[i]] = w[k]
    BY <1>1, <1>3, <2>1
  <2> QED
    BY <2>2 DEF InOrder
<1> QED
  BY <1>2, <1>3 DEF InOrder

LEMMA PartOfItself ==
  ASSUME NEW K, NEW S, NEW s \in Seq(S)
  PROVE  PartOf(K, s, s) /\ PartOf(K, << >>, s)
<1> DEFINE f == [i \in 1 .. Len(s) |-> i]
<1>1. \A i \in 1 .. Len(s) : f[i] = i
  OBVIOUS
<1>2. Len(<< >>) = 0 /\ 1 .. 0 = {}
  OBVIOUS
<1> HIDE DEF f
<1> QED
  BY <1>1, <1>2 DEF PartOf

(* A part of the one before a part of the other. *)
LEMMA PartsOfBoth ==
  ASSUME NEW K, NEW S, NEW a \in Seq(S), NEW b \in Seq(S), NEW t \in Seq(S), NEW u \in Seq(S),
         PartOf(K, t, a), PartOf(K, u, b)
  PROVE  PartOf(K, t \o u, a \o b)
<1>1. PICK f :
        /\ \A i \in 1 .. Len(t) : t[i] \in K => f[i] \in 1 .. Len(a) /\ a[f[i]] = t[i]
        /\ \A h, i \in 1 .. Len(t) : t[h] \in K /\ t[i] \in K /\ h < i => f[h] < f[i]
  BY DEF PartOf
<1>2. PICK g :
        /\ \A i \in 1 .. Len(u) : u[i] \in K => g[i] \in 1 .. Len(b) /\ b[g[i]] = u[i]
        /\ \A h, i \in 1 .. Len(u) : u[h] \in K /\ u[i] \in K /\ h < i => g[h] < g[i]
  BY DEF PartOf
<1> DEFINE p == t \o u
           q == a \o b
           e == [i \in 1 .. Len(p) |-> IF i \in 1 .. Len(t) THEN f[i] ELSE Len(a) + g[i - Len(t)]]
<1>3. /\ Len(t) \in Nat /\ Len(u) \in Nat /\ Len(p) = Len(t) + Len(u)
      /\ \A i \in 1 .. Len(t) : p[i] = t[i]
      /\ \A i \in 1 .. Len(p) : i \in 1 .. Len(t) \/ (i - Len(t) \in 1 .. Len(u) /\ p[i] = u[i - Len(t)])
  BY Concatenation
<1>4. /\ Len(a) \in Nat /\ Len(b) \in Nat /\ Len(q) = Len(a) + Len(b)
      /\ \A i \in 1 .. Len(a) : i \in 1 .. Len(q) /\ q[i] = a[i]
      /\ \A i \in 1 .. Len(b) : Len(a) + i \in 1 .. Len(q) /\ q[Len(a) + i] = b[i]
  BY Concatenation
<1>5. \A i \in 1 .. Len(p) : e[i] = IF i \in 1 .. Len(t) THEN f[i] ELSE Len(a) + g[i - Len(t)]
  OBVIOUS
<1> HIDE DEF p, q, e
<1>6. ASSUME NEW i \in 1 .. Len(p), p[i] \in K
      PROVE  e[i] \in 1 .. Len(q) /\ q[e[i]] = p[i]
  <2>1. CASE i \in 1 .. Len(t)
    <3>1. f[i] \in 1 .. Len(a) /\ a[f[i]] = p[i] /\ e[i] = f[i]
      BY <1>1, <1>3, <1>5, <1>6, <2>1
    <3> QED
      BY <1>4, <3>1
  <2>2. CASE i \notin 1 .. Len(t)
    <3> DEFINE x == i - Len(t)
    <3>1. x \in 1 .. Len(u) /\ u[x] = p[i] /\ e[i] = Len(a) + g[x]
      BY <1>3, <1>5, <2>2
    <3>2. g[x] \in 1 .. Len(b) /\ b[g[x]] = p[i]
      BY <1>2, <1>6, <3>1
    <3> QED
      BY <1>4, <3>1, <3>2
  <2> QED
    BY <2>1, <2>2
<1>7. ASSUME NEW h \in 1 .. Len(p), NEW i \in 1 .. Len(p), p[h] \in K, p[i] \in K, h < i
      PROVE  e[h] < e[i]
  <2>1. CASE i \in 1 .. Len(t)
    <3>1. h \in 1 .. Len(t)
      BY <1>3, <1>7, <2>1
    <3> QED
      BY <1>1, <1>3, <1>5, <1>7, <2>1, <3>1
  <2>2. CASE i \notin 1 .. Len(t) /\ h \in 1 .. Len(t)
    <3>1. i - Len(t) \in 1 .. Len(u) /\ u[i - Len(t)] \in K /\ t[h] \in K
      BY <1>3, <1>7, <2>2
    <3>2. g[i - Len(t)] \in 1 .. Len(b) /\ f[h] \in 1 .. Len(a)
      BY <1>1, <1>2, <2>2, <3>1
    <3> QED
      BY <1>4, <1>5, <2>2, <3>2
  <2>3. CASE i \notin 1 .. Len(t) /\ h \notin 1 .. Len(t)
    <3> DEFINE x == h - Len(t)
               y == i - Len(t)
    <3>1. x \in 1 .. Len(u) /\ u[x] \in K /\ y \in 1 .. Len(u) /\ u[y] \in K /\ x < y
      BY <1>3, <1>7, <2>3
    <3>2. g[x] \in 1 .. Len(b) /\ g[y] \in 1 .. Len(b) /\ g[x] < g[y]
      BY <1>2, <3>1
    <3> QED
      BY <1>4, <1>5, <2>3, <3>2
  <2> QED
    BY <2>1, <2>2, <2>3
<1> QED
  BY <1>6, <1>7 DEF PartOf, p, q

(* A sign that is no mark may come and go. *)
LEMMA FirstOfQueue ==
  ASSUME NEW K, NEW S, NEW s \in Seq(S), s # << >>
  PROVE  /\ Head(s) \in S /\ Tail(s) \in Seq(S) /\ s = <<Head(s)>> \o Tail(s)
         /\ PartOf(K, Tail(s), s)
<1>1. Len(s) \in Nat /\ Len(s) > 0 /\ Head(s) = s[1] /\ s[1] \in S
  BY EmptySeq
<1>2. Tail(s) \in Seq(S) /\ Len(Tail(s)) = Len(s) - 1 /\ \A i \in 1 .. Len(Tail(s)) : Tail(s)[i] = s[i + 1]
  BY <1>1
<1>3. s = <<Head(s)>> \o Tail(s)
  BY <1>1, <1>2
<1> DEFINE f == [i \in 1 .. Len(Tail(s)) |-> i + 1]
           t == Tail(s)
<1>4. \A i \in 1 .. Len(t) : f[i] = i + 1 /\ f[i] \in 1 .. Len(s) /\ s[f[i]] = t[i]
  BY <1>1, <1>2
<1>5. \A h, i \in 1 .. Len(t) : h < i => f[h] < f[i]
  BY <1>2, <1>4
<1> HIDE DEF f, t
<1>6. PartOf(K, t, s)
  BY <1>4, <1>5 DEF PartOf
<1> QED
  BY <1>1, <1>2, <1>3, <1>6 DEF t

LEMMA NoMarkIsPart ==
  ASSUME NEW K, NEW t, NEW s, NoMark(K, t)
  PROVE  PartOf(K, t, s)
  BY DEF NoMark, PartOf

(* A frame is sent: its mark comes last. *)
LEMMA SentLast ==
  ASSUME NEW K, NEW S, NEW s \in Seq(S), NEW e \in Seq(S), NEW w \in Seq(K), NEW n \in Nat, NEW x \in K,
         InOrder(K, s, w, n), OneMark(K, e, x), \A j \in 1 .. Len(w) : w[j] # x, n <= Len(w) + 1
  PROVE  InOrder(K, s \o e, Append(w, x), n)
<1> DEFINE p == s \o e
           v == Append(w, x)
<1>1. /\ Len(s) \in Nat /\ Len(e) \in Nat /\ Len(p) = Len(s) + Len(e)
      /\ \A i \in 1 .. Len(s) : p[i] = s[i]
      /\ \A i \in 1 .. Len(p) : i \in 1 .. Len(s) \/ (i - Len(s) \in 1 .. Len(e) /\ p[i] = e[i - Len(s)])
  BY Concatenation
<1>2. /\ Len(w) \in Nat /\ v \in Seq(K) /\ Len(v) = Len(w) + 1 /\ v[Len(w) + 1] = x
      /\ \A j \in 1 .. Len(w) : v[j] = w[j]
      /\ \A j \in 1 .. Len(v) : j \in 1 .. Len(w) \/ j = Len(w) + 1
  OBVIOUS
<1> HIDE DEF p, v
<1>3. \A i \in 1 .. Len(s) : s[i] # x
  BY DEF InOrder
<1>4. ASSUME NEW i \in 1 .. Len(p), p[i] \in K PROVE \E j \in 1 .. Len(v) : p[i] = v[j] /\ n <= j
  <2>1. CASE i \in 1 .. Len(s)
    <3>1. s[i] \in K /\ p[i] = s[i]
      BY <1>1, <1>4, <2>1
    <3>2. PICK j \in 1 .. Len(w) : s[i] = w[j] /\ n <= j
      BY <2>1, <3>1 DEF InOrder
    <3>3. j \in 1 .. Len(v) /\ v[j] = p[i]
      BY <1>2, <3>1, <3>2
    <3> QED
      BY <3>2, <3>3
  <2>2. CASE i - Len(s) \in 1 .. Len(e) /\ p[i] = e[i - Len(s)]
    <3>1. p[i] = x
      BY <1>4, <2>2 DEF OneMark
    <3> QED
      BY <1>2, <3>1
  <2> QED
    BY <1>1, <2>1, <2>2
<1>5. ASSUME NEW h \in 1 .. Len(p), NEW i \in 1 .. Len(p), NEW j \in 1 .. Len(v), NEW k \in 1 .. Len(v),
             h < i, p[h] = v[j], p[i] = v[k]
      PROVE  j < k
  <2>1. p[h] \in K /\ p[i] \in K
    BY <1>2, <1>5
  <2>2. CASE i \in 1 .. Len(s)
    <3>1. h \in 1 .. Len(s) /\ p[h] = s[h] /\ p[i] = s[i]
      BY <1>1, <1>5, <2>2
    <3>2. j \in 1 .. Len(w) /\ k \in 1 .. Len(w)
      BY <1>2, <1>3, <1>5, <2>2, <3>1
    <3>3. s[h] = w[j] /\ s[i] = w[k]
      BY <1>2, <1>5, <3>1, <3>2
    <3> QED
      BY <1>5, <2>2, <3>1, <3>2, <3>3 DEF InOrder
  <2>3. CASE i - Len(s) \in 1 .. Len(e) /\ p[i] = e[i - Len(s)]
    <3>1. p[i] = x
      BY <2>1, <2>3 DEF OneMark
    <3>2. k = Len(w) + 1
      BY <1>2, <1>5, <3>1
    <3>3. j # Len(w) + 1
      <4>1. SUFFICES ASSUME p[h] = x PROVE FALSE
        BY <1>2, <1>5
      <4>2. h \notin 1 .. Len(s)
        BY <1>1, <1>3, <4>1
      <4>3. h - Len(s) \in 1 .. Len(e) /\ p[h] = e[h - Len(s)]
        BY <1>1, <4>2
      <4>4. h - Len(s) = i - Len(s)
        BY <2>1, <2>3, <4>3 DEF OneMark
      <4>5. h \in Nat /\ i \in Nat /\ Len(s) \in Nat
        BY <1>1
      <4> QED
        BY <1>5, <4>4, <4>5
    <3> QED
      BY <1>2, <3>2, <3>3
  <2> QED
    BY <1>1, <2>2, <2>3
<1> QED
  BY <1>4, <1>5 DEF InOrder, p, v

(* A frame is handed over: the marks that follow are of frames that were   *)
(* sent after it.                                                          *)
LEMMA AfterTheMark ==
  ASSUME NEW K, NEW S, NEW c \in Seq(S), NEW r \in Seq(S), NEW w \in Seq(K), NEW n \in Nat,
         InOrder(K, c \o r, w, n), Distinct(w), NEW i \in 1 .. Len(c), c[i] \in K
  PROVE  \E j \in 1 .. Len(w) : w[j] = c[i] /\ n <= j /\ InOrder(K, r, w, j + 1)
<1> DEFINE p == c \o r
<1>1. /\ Len(c) \in Nat /\ Len(r) \in Nat /\ Len(p) = Len(c) + Len(r)
      /\ \A l \in 1 .. Len(c) : l \in 1 .. Len(p) /\ p[l] = c[l]
      /\ \A l \in 1 .. Len(r) : Len(c) + l \in 1 .. Len(p) /\ p[Len(c) + l] = r[l]
  BY Concatenation
<1>2. InOrder(K, p, w, n)
  OBVIOUS
<1> HIDE DEF p
<1>3. PICK j \in 1 .. Len(w) : c[i] = w[j] /\ n <= j
  BY <1>1, <1>2 DEF InOrder
<1>4. ASSUME NEW l \in 1 .. Len(r), r[l] \in K PROVE \E k \in 1 .. Len(w) : r[l] = w[k] /\ j + 1 <= k
  <2>1. Len(c) + l \in 1 .. Len(p) /\ p[Len(c) + l] = r[l] /\ i < Len(c) + l /\ i \in 1 .. Len(p) /\ p[i] = w[j]
    BY <1>1, <1>3
  <2>2. PICK k \in 1 .. Len(w) : r[l] = w[k]
    BY <1>2, <1>4, <2>1 DEF InOrder
  <2>3. j < k
    BY <1>2, <2>1, <2>2 DEF InOrder
  <2>4. j + 1 <= k
    BY <2>3
  <2> QED
    BY <2>2, <2>4
<1>5. ASSUME NEW h \in 1 .. Len(r), NEW l \in 1 .. Len(r), NEW m \in 1 .. Len(w), NEW k \in 1 .. Len(w),
             h < l, r[h] = w[m], r[l] = w[k]
      PROVE  m < k
  <2> DEFINE x == Len(c) + h
             y == Len(c) + l
  <2>1. x < y
    BY <1>1, <1>5
  <2>2. x \in 1 .. Len(p) /\ y \in 1 .. Len(p) /\ p[x] = w[m] /\ p[y] = w[k]
    BY <1>1, <1>5
  <2> HIDE DEF x, y
  <2> QED
    BY <1>2, <2>1, <2>2 DEF InOrder
<1>6. InOrder(K, r, w, j + 1)
  BY <1>4, <1>5 DEF InOrder
<1> QED
  BY <1>3, <1>6

(* A sequence that has one mark, between sequences that have none. *)
LEMMA OneMarkBetween ==
  ASSUME NEW K, NEW S, NEW a \in Seq(S), NEW b \in Seq(S), NEW x
  PROVE  /\ NoMark(K, a) /\ NoMark(K, b) => NoMark(K, a \o b)
         /\ NoMark(K, a) /\ OneMark(K, b, x) => OneMark(K, a \o b, x)
         /\ OneMark(K, a, x) /\ NoMark(K, b) => OneMark(K, a \o b, x)
<1> DEFINE p == a \o b
<1>1. /\ Len(a) \in Nat /\ Len(b) \in Nat /\ Len(p) = Len(a) + Len(b)
      /\ \A i \in 1 .. Len(a) : p[i] = a[i]
      /\ \A i \in 1 .. Len(p) : i \in 1 .. Len(a) \/ (i - Len(a) \in 1 .. Len(b) /\ p[i] = b[i - Len(a)])
  BY Concatenation
<1> HIDE DEF p
<1>2. NoMark(K, a) /\ NoMark(K, b) => NoMark(K, p)
  BY <1>1 DEF NoMark
<1>3. NoMark(K, a) /\ OneMark(K, b, x) => OneMark(K, p, x)
  <2> SUFFICES ASSUME NoMark(K, a), OneMark(K, b, x), NEW h \in 1 .. Len(p), NEW i \in 1 .. Len(p),
                      p[h] \in K, p[i] \in K
               PROVE  h = i /\ p[h] = x
    BY DEF OneMark
  <2>1. h \notin 1 .. Len(a) /\ i \notin 1 .. Len(a)
    BY <1>1 DEF NoMark
  <2>2. /\ h - Len(a) \in 1 .. Len(b) /\ p[h] = b[h - Len(a)]
        /\ i - Len(a) \in 1 .. Len(b) /\ p[i] = b[i - Len(a)]
    BY <1>1, <2>1
  <2>3. h - Len(a) = i - Len(a) /\ p[h] = x
    BY <2>2 DEF OneMark
  <2>4. h \in Nat /\ i \in Nat
    BY <1>1
  <2> QED
    BY <1>1, <2>3, <2>4
<1>4. OneMark(K, a, x) /\ NoMark(K, b) => OneMark(K, p, x)
  BY <1>1 DEF NoMark, OneMark
<1> QED
  BY <1>2, <1>3, <1>4 DEF p

-----------------------------------------------------------------------------
(* The link to a terminal node controller (Tnc, radio/src/tnc.c): the mark *)
(* of a message is the last digit of its check sum.                        *)
TncMark(m) == T!CrcDigit(4, m)
TncMarks == {TncMark(m) : m \in T!Frame}

Signs == T!Control \cup {T!Digit(v) : v \in Nat} \cup {T!CrcDigit(k, m) : k \in 1 .. 4, m \in T!Frame}

Written == [j \in 1 .. Len(written) |-> TncMark(written[j])]

(* What is under way: the digits of a check sum in the receiver, the queue *)
(* of its terminal, the one of the terminal that sends.                    *)
CheckSum == IF state = "ETX" THEN crcTx ELSE << >>
TncWay == CheckSum \o inq \o outq

NextRead == IF read = << >> THEN 1 ELSE T!Number(T!Last(read)) + 1

TncType ==
  /\ inq \in Seq(Signs) /\ outq \in Seq(Signs) /\ crcTx \in Seq(Signs)
  /\ written \in Seq(T!Frame) /\ read \in Seq(T!Frame)
  /\ \A j \in 1 .. Len(written) : \E size \in Sizes : written[j] = T!Message(j, size)
  /\ NextRead \in 1 .. Len(written) + 1

TncInv == TncType /\ InOrder(TncMarks, TncWay, Written, NextRead)

LEMMA MarkIsUnique ==
  /\ \A m, q : TncMark(m) = TncMark(q) => m = q
  /\ \A m : TncMark(m) \notin T!Control
  /\ \A m, v : TncMark(m) # T!Digit(v)
  /\ \A m, q : \A k \in 1 .. 3 : TncMark(m) # T!CrcDigit(k, q)
<1>1. \A m, q : TncMark(m) = TncMark(q) => m = q
  BY DEF TncMark, T!CrcDigit
<1>2. \A m : TncMark(m) \notin T!Control
  BY DEF TncMark, T!CrcDigit, T!Control, T!SOH, T!STX, T!ETX, T!EOT
<1>3. \A m, v : TncMark(m) # T!Digit(v)
  <2> SUFFICES ASSUME NEW m, NEW v, TncMark(m) = T!Digit(v) PROVE FALSE
    OBVIOUS
  <2>1. Len(TncMark(m)) = 3
    BY DEF TncMark, T!CrcDigit
  <2>2. Len(T!Digit(v)) = 2
    BY DEF T!Digit
  <2> QED
    BY <2>1, <2>2
<1>4. \A m, q : \A k \in 1 .. 3 : TncMark(m) # T!CrcDigit(k, q)
  BY DEF TncMark, T!CrcDigit
<1> QED
  BY <1>1, <1>2, <1>3, <1>4

LEMMA MessagesAreNumbered ==
  ASSUME NEW j \in Nat \ {0}, NEW size \in Sizes
  PROVE  /\ T!Number(T!Message(j, size)) = j
         /\ T!Message(j, size) \in Seq(Signs) /\ NoMark(TncMarks, T!Message(j, size))
         /\ j <= MaxMessages => T!Message(j, size) \in T!Frame
<1> DEFINE m == T!Message(j, size)
<1>1. size \in Nat /\ size > 0
  BY LinkAssumptions DEF T!TncAssumption
<1>2. m = [d \in 1 .. 2 * size |-> T!Digit(j)] /\ 2 * size \in Nat /\ 1 \in 1 .. 2 * size
  BY <1>1 DEF T!Message
<1>3. T!Digit(j) \in Signs /\ T!Digit(j)[2] = j /\ T!Digit(j) \notin TncMarks
  BY MarkIsUnique DEF Signs, T!Digit, TncMarks
<1>4. m \in Seq(Signs) /\ \A i \in 1 .. Len(m) : m[i] = T!Digit(j)
  BY <1>2, <1>3
<1>5. T!Number(m) = j
  BY <1>2, <1>3 DEF T!Number
<1>6. NoMark(TncMarks, m)
  BY <1>3, <1>4 DEF NoMark
<1>7. j <= MaxMessages => m \in T!Frame
  BY LinkAssumptions DEF T!TncAssumption, T!Frame
<1> QED
  BY <1>4, <1>5, <1>6, <1>7

(* The signs of a message: its mark, and others that are no marks.         *)
LEMMA EncodedHasItsMark ==
  ASSUME NEW j \in Nat \ {0}, j <= MaxMessages, NEW size \in Sizes
  PROVE  LET m == T!Message(j, size)
             e == T!Encode(m)
         IN  /\ e \in Seq(Signs) /\ OneMark(TncMarks, e, TncMark(m))
             /\ \A k \in 0 .. Len(e) : /\ SubSeq(e, 1, k) \in Seq(Signs)
                                       /\ OneMark(TncMarks, SubSeq(e, 1, k), TncMark(m))
<1> DEFINE m == T!Message(j, size)
           e == T!Encode(m)
           a == <<T!SOH, T!STX>>
           b == <<T!ETX>>
           c == T!Crc(m)
           d == <<T!EOT>>
<1>1. m \in Seq(Signs) /\ NoMark(TncMarks, m) /\ m \in T!Frame
  BY MessagesAreNumbered
<1>2. T!Control \subseteq Signs /\ \A x \in T!Control : x \notin TncMarks
  BY MarkIsUnique DEF Signs, TncMarks
<1>3. {T!SOH, T!STX, T!ETX, T!EOT} \subseteq T!Control
  BY DEF T!Control
<1> HIDE DEF m
<1>4. /\ a \in Seq(Signs) /\ Len(a) = 2 /\ a[1] = T!SOH /\ a[2] = T!STX
      /\ b \in Seq(Signs) /\ Len(b) = 1 /\ b[1] = T!ETX
      /\ d \in Seq(Signs) /\ Len(d) = 1 /\ d[1] = T!EOT
  BY <1>2, <1>3
<1>5. NoMark(TncMarks, a) /\ NoMark(TncMarks, b) /\ NoMark(TncMarks, d)
  BY <1>2, <1>3, <1>4 DEF NoMark
<1>6. c \in Seq(Signs) /\ OneMark(TncMarks, c, TncMark(m))
  <2>1. c = [k \in 1 .. 4 |-> T!CrcDigit(k, m)]
    BY DEF T!Crc
  <2>2. \A k \in 1 .. 4 : T!CrcDigit(k, m) \in Signs
    BY <1>1 DEF Signs
  <2>3. c \in Seq(Signs) /\ Len(c) = 4 /\ \A k \in 1 .. 4 : c[k] = T!CrcDigit(k, m)
    BY <2>1, <2>2
  <2>4. \A k \in 1 .. 3 : T!CrcDigit(k, m) \notin TncMarks
    BY MarkIsUnique DEF TncMarks
  <2>5. \A k \in 1 .. 4 : c[k] \in TncMarks => k = 4 /\ c[k] = TncMark(m)
    BY <2>3, <2>4 DEF TncMark
  <2> QED
    BY <2>3, <2>5 DEF OneMark
<1> HIDE DEF a, b, c, d
<1> DEFINE p == a \o m
           q == p \o b
           r == q \o c
<1>7. p \in Seq(Signs) /\ NoMark(TncMarks, p)
  BY <1>1, <1>4, <1>5, OneMarkBetween
<1> HIDE DEF p
<1>8. q \in Seq(Signs) /\ NoMark(TncMarks, q)
  BY <1>4, <1>5, <1>7, OneMarkBetween
<1> HIDE DEF q
<1>9. r \in Seq(Signs) /\ OneMark(TncMarks, r, TncMark(m))
  BY <1>6, <1>8, OneMarkBetween
<1> HIDE DEF r
<1>10. r \o d \in Seq(Signs) /\ OneMark(TncMarks, r \o d, TncMark(m))
  BY <1>4, <1>5, <1>9, OneMarkBetween
<1>11. e = r \o d
  BY DEF T!Encode, r, q, p, a, b, c, d
<1>12. e \in Seq(Signs) /\ OneMark(TncMarks, e, TncMark(m))
  BY <1>10, <1>11
<1> HIDE DEF e
<1>13. ASSUME NEW k \in 0 .. Len(e)
       PROVE  SubSeq(e, 1, k) \in Seq(Signs) /\ OneMark(TncMarks, SubSeq(e, 1, k), TncMark(m))
  <2> DEFINE u == SubSeq(e, 1, k)
  <2>1. u \in Seq(Signs) /\ Len(u) = k /\ \A i \in 1 .. Len(u) : i \in 1 .. Len(e) /\ u[i] = e[i]
    BY <1>12, <1>13
  <2> HIDE DEF u
  <2>2. OneMark(TncMarks, u, TncMark(m))
    BY <1>12, <2>1 DEF OneMark
  <2> QED
    BY <2>1, <2>2 DEF u
<1> QED
  BY <1>12, <1>13 DEF e, m

LEMMA MarksOfWritten ==
  ASSUME TncType
  PROVE  /\ Written \in Seq(TncMarks) /\ Len(Written) = Len(written) /\ Len(written) \in Nat
         /\ \A j \in 1 .. Len(written) : Written[j] = TncMark(written[j]) /\ T!Number(written[j]) = j
         /\ Distinct(Written)
         /\ CheckSum \in Seq(Signs) /\ TncWay \in Seq(Signs)
<1>1. Len(written) \in Nat /\ \A j \in 1 .. Len(written) : written[j] \in T!Frame
  BY DEF TncType
<1>2. \A j \in 1 .. Len(written) : TncMark(written[j]) \in TncMarks
  BY <1>1 DEF TncMarks
<1>3. /\ Written \in Seq(TncMarks) /\ Len(Written) = Len(written)
      /\ \A j \in 1 .. Len(written) : Written[j] = TncMark(written[j])
  BY <1>1, <1>2 DEF Written
<1>4. ASSUME NEW j \in 1 .. Len(written) PROVE T!Number(written[j]) = j
  <2>1. PICK size \in Sizes : written[j] = T!Message(j, size)
    BY DEF TncType
  <2> QED
    BY <1>1, <2>1, MessagesAreNumbered
<1>5. Distinct(Written)
  <2> SUFFICES ASSUME NEW j \in 1 .. Len(written), NEW k \in 1 .. Len(written), Written[j] = Written[k]
               PROVE  j = k
    BY <1>3 DEF Distinct
  <2>1. TncMark(written[j]) = TncMark(written[k])
    BY <1>3
  <2>2. written[j] = written[k]
    BY <2>1, MarkIsUnique
  <2> QED
    BY <1>4, <2>2
<1>6. CheckSum \in Seq(Signs)
  BY DEF CheckSum, TncType
<1>7. inq \in Seq(Signs) /\ outq \in Seq(Signs)
  BY DEF TncType
<1>8. TncWay \in Seq(Signs)
  BY <1>6, <1>7 DEF TncWay
<1> QED
  BY <1>1, <1>3, <1>4, <1>5, <1>6, <1>8

(* A step that writes nothing, hands over nothing, and leaves a part of    *)
(* what is under way.                                                      *)
LEMMA TncPart ==
  ASSUME TncInv, TncType', UNCHANGED <<written, read>>, PartOf(TncMarks, TncWay', TncWay)
  PROVE  TncInv'
<1>1. Written' = Written /\ NextRead' = NextRead
  BY DEF Written, NextRead
<1>2. InOrder(TncMarks, TncWay', Written, NextRead)
  BY MarksOfWritten, PartInOrder DEF TncInv
<1> QED
  BY <1>1, <1>2 DEF TncInv

(* The parts of what is under way, each with a part of it.                 *)
LEMMA TncParts ==
  ASSUME TncType, TncType', PartOf(TncMarks, CheckSum', CheckSum), PartOf(TncMarks, inq', inq),
         PartOf(TncMarks, outq', outq)
  PROVE  PartOf(TncMarks, TncWay', TncWay)
<1>1. /\ CheckSum \in Seq(Signs) /\ inq \in Seq(Signs) /\ outq \in Seq(Signs)
      /\ CheckSum' \in Seq(Signs) /\ inq' \in Seq(Signs) /\ outq' \in Seq(Signs)
  BY DEF TncType, CheckSum
<1> DEFINE a == CheckSum
           b == inq
           c == outq
<1>2. /\ a \in Seq(Signs) /\ b \in Seq(Signs) /\ c \in Seq(Signs)
      /\ a' \in Seq(Signs) /\ b' \in Seq(Signs) /\ c' \in Seq(Signs)
      /\ PartOf(TncMarks, a', a) /\ PartOf(TncMarks, b', b) /\ PartOf(TncMarks, c', c)
  BY <1>1
<1>3. TncWay = a \o b \o c /\ TncWay' = a' \o b' \o c'
  BY DEF TncWay
<1> HIDE DEF a, b, c
<1>4. a \o b \in Seq(Signs) /\ a' \o b' \in Seq(Signs)
  BY <1>2
<1>5. PartOf(TncMarks, a' \o b', a \o b)
  BY <1>2, PartsOfBoth
<1>6. PartOf(TncMarks, (a' \o b') \o c', (a \o b) \o c)
  BY <1>2, <1>4, <1>5, PartsOfBoth
<1> QED
  BY <1>3, <1>6

LEMMA TncInit == T!Init => TncInv /\ T!Link!Init
<1> SUFFICES ASSUME T!Init PROVE TncInv /\ T!Link!Init
  OBVIOUS
<1>1. inq = << >> /\ outq = << >> /\ crcTx = << >> /\ written = << >> /\ read = << >> /\ state = "none"
  BY DEF T!Init
<1>2. NextRead = 1
  BY <1>1 DEF NextRead
<1>3. TncType
  BY <1>1, <1>2 DEF TncType
<1>4. TncWay = << >> /\ Len(TncWay) = 0
  BY <1>1 DEF TncWay, CheckSum
<1>5. InOrder(TncMarks, TncWay, Written, NextRead)
  BY <1>4 DEF InOrder
<1>6. T!Link!Init
  BY <1>1 DEF T!Link!Init
<1> QED
  BY <1>3, <1>5, <1>6 DEF TncInv

(* The line and the receiver, a message handed over excepted.              *)
TncMoves ==
  \/ T!WriteBack \/ T!Transmit \/ T!Lose \/ T!Add
  \/ T!ReadError \/ T!PollStart \/ T!PollSoh \/ T!PollStx \/ T!PollEtx \/ T!PollDigit

LEMMA TncMoveParts ==
  ASSUME TncType, TncMoves
  PROVE  TncType' /\ UNCHANGED <<written, read>> /\ PartOf(TncMarks, TncWay', TncWay)
<1> USE DEF T!histVars, T!rxVars, T!lineVars
<1>1. inq \in Seq(Signs) /\ outq \in Seq(Signs) /\ crcTx \in Seq(Signs) /\ CheckSum \in Seq(Signs)
  BY DEF TncType, CheckSum
<1>2. /\ \A s \in Seq(Signs) : PartOf(TncMarks, s, s) /\ PartOf(TncMarks, << >>, s)
      /\ << >> \in Seq(Signs)
  BY PartOfItself
<1>3. \A s \in Seq(Signs) : s # << >> =>
        /\ Tail(s) \in Seq(Signs) /\ Head(s) \in Signs /\ s = <<Head(s)>> \o Tail(s)
        /\ PartOf(TncMarks, Tail(s), s)
  BY FirstOfQueue
<1>4. ASSUME UNCHANGED <<written, read>>, inq' \in Seq(Signs), outq' \in Seq(Signs), crcTx' \in Seq(Signs)
      PROVE  TncType'
  BY <1>4 DEF TncType, NextRead
<1>5. ASSUME UNCHANGED <<written, read>>, inq' \in Seq(Signs), outq' \in Seq(Signs), crcTx' \in Seq(Signs),
             CheckSum' \in {CheckSum, << >>},
             PartOf(TncMarks, inq', inq), PartOf(TncMarks, outq', outq)
      PROVE  TncType' /\ UNCHANGED <<written, read>> /\ PartOf(TncMarks, TncWay', TncWay)
  <2>1. PartOf(TncMarks, CheckSum', CheckSum)
    BY <1>1, <1>2, <1>5
  <2> QED
    BY <1>4, <1>5, <2>1, TncParts
<1>6. CASE T!WriteBack
  BY <1>1, <1>2, <1>3, <1>5, <1>6 DEF T!WriteBack, CheckSum
<1>7. CASE T!Lose
  BY <1>1, <1>2, <1>3, <1>5, <1>7 DEF T!Lose, CheckSum
<1>8. CASE T!ReadError
  BY <1>1, <1>2, <1>3, <1>5, <1>8 DEF T!ReadError, CheckSum
<1>9. CASE T!PollStart
  BY <1>1, <1>2, <1>3, <1>5, <1>9 DEF T!PollStart, CheckSum
<1>10. CASE T!PollSoh
  BY <1>1, <1>2, <1>3, <1>5, <1>10 DEF T!PollSoh, T!Poll, CheckSum
<1>11. CASE T!PollStx
  BY <1>1, <1>2, <1>3, <1>5, <1>11 DEF T!PollStx, T!Poll, CheckSum
<1>12. CASE T!PollEtx
  BY <1>1, <1>2, <1>3, <1>5, <1>12 DEF T!PollEtx, T!Poll, CheckSum
<1>13. CASE T!Add
  <2>1. PICK x \in T!Control \cup {T!Digit(0)} : inq' = Append(inq, x)
    BY <1>13 DEF T!Add
  <2>2. x \in Signs /\ x \notin TncMarks
    BY MarkIsUnique DEF Signs, TncMarks
  <2>3. <<x>> \in Seq(Signs) /\ inq' = inq \o <<x>> /\ inq = inq \o << >> /\ inq' \in Seq(Signs)
    BY <1>1, <2>1, <2>2
  <2>4. PartOf(TncMarks, <<x>>, << >>)
    BY <2>2, NoMarkIsPart DEF NoMark
  <2>5. PartOf(TncMarks, inq', inq)
    BY <1>1, <1>2, <2>3, <2>4, PartsOfBoth
  <2>6. UNCHANGED <<outq, state, crcTx, written, read>>
    BY <1>13 DEF T!Add
  <2> QED
    BY <1>1, <1>2, <1>5, <2>3, <2>5, <2>6 DEF CheckSum
<1>14. CASE T!Transmit
  <2>1. outq # << >> /\ inq' = Append(inq, Head(outq)) /\ outq' = Tail(outq) /\ UNCHANGED <<state, crcTx, written, read>>
    BY <1>14 DEF T!Transmit
  <2> DEFINE c == CheckSum
             x == <<Head(outq)>>
             r == Tail(outq)
  <2>2. c \in Seq(Signs) /\ x \in Seq(Signs) /\ r \in Seq(Signs) /\ outq = x \o r /\ inq' = inq \o x /\ inq' \in Seq(Signs)
    <3> DEFINE h == Head(outq)
    <3>1. h \in Signs /\ r \in Seq(Signs) /\ outq = <<h>> \o r /\ inq' = Append(inq, h)
      BY <1>1, <1>3, <2>1
    <3> HIDE DEF h, r
    <3>2. <<h>> \in Seq(Signs) /\ inq' = inq \o <<h>> /\ inq' \in Seq(Signs)
      BY <1>1, <3>1
    <3> QED
      BY <1>1, <3>1, <3>2 DEF h
  <2>3. TncType' /\ CheckSum' = c
    BY <1>1, <1>4, <2>1, <2>2 DEF CheckSum
  <2>4. TncWay = c \o inq \o outq /\ TncWay' = c \o inq' \o r
    BY <2>1, <2>3 DEF TncWay
  <2> HIDE DEF c, x, r
  <2>5. (c \o inq) \o (x \o r) = (c \o (inq \o x)) \o r
    <3>1. c \o inq \in Seq(Signs) /\ inq \in Seq(Signs)
      BY <1>1, <2>2
    <3>2. (c \o inq) \o (x \o r) = ((c \o inq) \o x) \o r
      <4> DEFINE m == c \o inq
      <4>1. m \in Seq(Signs) /\ x \in Seq(Signs) /\ r \in Seq(Signs)
        BY <2>2, <3>1
      <4> HIDE DEF m
      <4>2. (m \o x) \o r = m \o (x \o r)
        BY <4>1, ConcatAssociative
      <4> QED
        BY <4>2 DEF m
    <3>3. (c \o inq) \o x = c \o (inq \o x)
      BY <2>2, <3>1, ConcatAssociative
    <3> QED
      BY <3>2, <3>3
  <2>6. TncWay' = TncWay
    BY <2>2, <2>4, <2>5
  <2> QED
    BY <1>2, <2>1, <2>3, <2>6, MarksOfWritten
<1>15. CASE T!PollDigit
  <2>1. inq # << >> /\ inq' = Tail(inq) /\ UNCHANGED <<outq, written, read>>
    BY <1>15 DEF T!PollDigit, T!Poll
  <2>2. CASE state = "ETX" /\ Len(crcTx) < 4
    <3>1. crcTx' = Append(crcTx, Head(inq)) /\ state' = "ETX"
      BY <1>15, <2>2 DEF T!PollDigit
    <3> DEFINE x == <<Head(inq)>>
               r == Tail(inq)
    <3>2. x \in Seq(Signs) /\ r \in Seq(Signs) /\ inq = x \o r /\ crcTx' = crcTx \o x /\ crcTx' \in Seq(Signs)
      BY <1>1, <1>3, <2>1, <3>1
    <3>3. TncWay = crcTx \o inq \o outq /\ TncWay' = crcTx' \o r \o outq
      BY <2>1, <2>2, <3>1 DEF TncWay, CheckSum
    <3>4. TncType'
      BY <1>1, <1>4, <2>1, <3>2
    <3> HIDE DEF x, r
    <3>5. (crcTx \o (x \o r)) \o outq = ((crcTx \o x) \o r) \o outq
      BY <1>1, <3>2
    <3>6. TncWay' = TncWay
      BY <3>2, <3>3, <3>5
    <3> QED
      BY <1>2, <2>1, <3>4, <3>6, MarksOfWritten
  <2>3. CASE ~ (state = "ETX" /\ Len(crcTx) < 4)
    <3>1. UNCHANGED crcTx /\ (state' = "ETX" => FALSE)
      <4>1. CASE state = "STX"
        BY <1>15, <4>1 DEF T!PollDigit
      <4>2. CASE state = "ETX" /\ Len(crcTx) = 4
        BY <1>15, <4>2 DEF T!PollDigit
      <4>3. CASE state # "STX" /\ state # "ETX"
        BY <1>15, <4>3 DEF T!PollDigit
      <4> QED
        BY <1>15, <2>3, <4>1, <4>2, <4>3 DEF T!PollDigit
    <3>2. CheckSum' = << >>
      BY <3>1 DEF CheckSum
    <3> QED
      BY <1>1, <1>2, <1>3, <1>5, <2>1, <3>1, <3>2
  <2> QED
    BY <2>2, <2>3
<1> QED
  BY <1>6, <1>7, <1>8, <1>9, <1>10, <1>11, <1>12, <1>13, <1>14, <1>15 DEF TncMoves

(* iTncWrite, whether it ends or fails: a message is written. *)
LEMMA TncWrites ==
  ASSUME TncInv, NEW size \in Sizes, T!iTncWrite(size) \/ T!WriteError(size)
  PROVE  TncInv' /\ T!Link!Next
<1> USE DEF T!rxVars
<1> DEFINE j == Len(written) + 1
           m == T!Message(j, size)
           e == T!Encode(m)
<1>1. /\ Len(written) \in Nat /\ j \in Nat \ {0} /\ j <= MaxMessages
      /\ written' = Append(written, m) /\ UNCHANGED <<inq, state, crcTx, read>>
      /\ \E k \in 0 .. Len(e) : outq' = SubSeq(e, 1, k)
  <2>1. Len(written) \in Nat
    BY DEF TncInv, TncType
  <2>2. MaxMessages \in Nat
    BY LinkAssumptions DEF T!TncAssumption
  <2>3. Len(written) < MaxMessages /\ written' = Append(written, m) /\ UNCHANGED <<inq, state, crcTx, read>>
    BY DEF T!iTncWrite, T!WriteError
  <2>4. j \in Nat \ {0} /\ j <= MaxMessages
    BY <2>1, <2>2, <2>3
  <2>5. e \in Seq(Signs)
    BY <2>4, EncodedHasItsMark
  <2>6. \E k \in 0 .. Len(e) : outq' = SubSeq(e, 1, k)
    <3>1. CASE T!iTncWrite(size)
      <4>1. outq' = e
        BY <3>1 DEF T!iTncWrite
      <4> HIDE DEF e
      <4>2. Len(e) \in 0 .. Len(e) /\ e = SubSeq(e, 1, Len(e))
        BY <2>5
      <4> QED
        BY <4>1, <4>2
    <3>2. CASE T!WriteError(size)
      <4>1. \E k \in 0 .. Len(e) - 1 : outq' = SubSeq(e, 1, k)
        BY <3>2 DEF T!WriteError
      <4> HIDE DEF e
      <4> QED
        BY <2>5, <4>1
    <3> QED
      BY <3>1, <3>2
  <2> QED
    BY <2>1, <2>3, <2>4, <2>6
<1>2. /\ outq' \in Seq(Signs) /\ OneMark(TncMarks, outq', TncMark(m))
      /\ m \in T!Frame /\ T!Number(m) = j
  BY <1>1, EncodedHasItsMark, MessagesAreNumbered
<1>3. T!Link!Next
  BY <1>1, <1>2 DEF T!Link!Next, T!Link!Send
<1>4. /\ written \in Seq(T!Frame) /\ NextRead \in 1 .. Len(written) + 1
      /\ \A k \in 1 .. Len(written) : \E z \in Sizes : written[k] = T!Message(k, z)
      /\ inq \in Seq(Signs) /\ outq \in Seq(Signs) /\ crcTx \in Seq(Signs) /\ read \in Seq(T!Frame)
      /\ CheckSum \in Seq(Signs) /\ InOrder(TncMarks, TncWay, Written, NextRead)
  BY DEF TncInv, TncType, CheckSum
<1> DEFINE x == m
<1>5. j = Len(written) + 1 /\ x = T!Message(j, size)
  OBVIOUS
<1> HIDE DEF e, m, j
<1>6. /\ written' \in Seq(T!Frame) /\ Len(written') = j /\ written'[j] = x
      /\ \A k \in 1 .. Len(written) : written'[k] = written[k]
      /\ \A k \in 1 .. Len(written') : k \in 1 .. Len(written) \/ k = j
  BY <1>1, <1>2, <1>4, <1>5
<1>7. \A k \in 1 .. Len(written') : \E z \in Sizes : written'[k] = T!Message(k, z)
  BY <1>4, <1>5, <1>6
<1>8. NextRead' = NextRead /\ CheckSum' = CheckSum
  BY <1>1 DEF NextRead, CheckSum
<1>9. TncType'
  <2>1. NextRead' \in 1 .. Len(written') + 1
    BY <1>1, <1>4, <1>5, <1>6, <1>8
  <2>2. inq' \in Seq(Signs) /\ crcTx' \in Seq(Signs) /\ read' \in Seq(T!Frame)
    BY <1>1, <1>4
  <2>3. outq' \in Seq(Signs) /\ written' \in Seq(T!Frame)
    BY <1>2, <1>6
  <2> QED
    BY <1>7, <2>1, <2>2, <2>3 DEF TncType
<1> DEFINE c == CheckSum \o inq
<1>10. c \in Seq(Signs) /\ TncWay = c \o outq /\ TncWay' = c \o outq'
  BY <1>1, <1>4, <1>8 DEF TncWay
<1>11. c = c \o << >>
  BY <1>10
<1> HIDE DEF c
<1>12. PartOf(TncMarks, c, TncWay)
  <2>1. << >> \in Seq(Signs) /\ PartOf(TncMarks, c, c) /\ PartOf(TncMarks, << >>, outq)
    <3>1. c \in Seq(Signs) /\ outq \in Seq(Signs)
      BY <1>4, <1>10
    <3>2. PartOf(TncMarks, c, c)
      BY <3>1, PartOfItself
    <3>3. PartOf(TncMarks, << >>, outq)
      BY <3>1, PartOfItself
    <3> QED
      BY <3>2, <3>3
  <2>2. PartOf(TncMarks, c \o << >>, c \o outq)
    BY <1>4, <1>10, <2>1, PartsOfBoth
  <2> QED
    BY <1>10, <1>11, <2>2
<1>13. /\ Written \in Seq(TncMarks) /\ Len(Written) = Len(written)
       /\ \A k \in 1 .. Len(written) : Written[k] = TncMark(written[k]) /\ T!Number(written[k]) = k
  BY MarksOfWritten DEF TncInv
<1>14. InOrder(TncMarks, c, Written, NextRead)
  BY <1>4, <1>12, <1>13, PartInOrder
<1>15. TncMark(x) \in TncMarks /\ \A k \in 1 .. Len(Written) : Written[k] # TncMark(x)
  <2>1. TncMark(x) \in TncMarks
    BY <1>2 DEF TncMarks
  <2>2. ASSUME NEW k \in 1 .. Len(Written), Written[k] = TncMark(x) PROVE FALSE
    <3>1. written[k] = x
      BY <1>13, <2>2, MarkIsUnique
    <3>2. k = j
      BY <1>2, <1>13, <2>2, <3>1
    <3> QED
      BY <1>1, <1>5, <1>13, <3>2
  <2> QED
    BY <2>1, <2>2
<1>16. Written' = Append(Written, TncMark(x))
  <2> DEFINE v == Append(Written, TncMark(x))
  <2>1. v = [k \in 1 .. j |-> IF k \in 1 .. Len(written) THEN Written[k] ELSE TncMark(x)]
    BY <1>1, <1>5, <1>13, <1>15
  <2>2. Written' = [k \in 1 .. j |-> TncMark(written'[k])]
    BY <1>6 DEF Written
  <2>3. ASSUME NEW k \in 1 .. j
        PROVE  TncMark(written'[k]) = IF k \in 1 .. Len(written) THEN Written[k] ELSE TncMark(x)
    BY <1>6, <1>13
  <2> HIDE DEF v
  <2> QED
    BY <2>1, <2>2, <2>3 DEF v
<1>17. NextRead \in Nat /\ NextRead <= Len(Written) + 1
  BY <1>1, <1>4, <1>13
<1>18. InOrder(TncMarks, TncWay', Written', NextRead')
  <2>1. InOrder(TncMarks, c \o outq', Append(Written, TncMark(x)), NextRead)
    BY <1>2, <1>10, <1>13, <1>14, <1>15, <1>17, SentLast
  <2> QED
    BY <1>8, <1>10, <1>16, <2>1
<1> QED
  BY <1>3, <1>9, <1>18 DEF TncInv

(* iTncPoll at the end of a message: it is handed over, if its check sum   *)
(* is its own.                                                             *)
LEMMA TncEnds ==
  ASSUME TncInv, T!PollEot
  PROVE  TncInv' /\ [T!Link!Next]_<<written, read, NextRead>>
<1>1. /\ inq # << >> /\ inq' = Tail(inq) /\ UNCHANGED <<outq, crcTx, written>> /\ state' # "ETX"
      /\ IF state = "ETX" /\ crcTx = T!Crc(digits) THEN read' = Append(read, digits) ELSE UNCHANGED read
  BY DEF T!PollEot, T!Poll
<1>2. /\ TncType /\ inq \in Seq(Signs) /\ outq \in Seq(Signs) /\ crcTx \in Seq(Signs) /\ CheckSum \in Seq(Signs)
      /\ written \in Seq(T!Frame) /\ read \in Seq(T!Frame)
      /\ \A j \in 1 .. Len(written) : \E size \in Sizes : written[j] = T!Message(j, size)
      /\ NextRead \in 1 .. Len(written) + 1
      /\ InOrder(TncMarks, TncWay, Written, NextRead)
  BY DEF TncInv, TncType, CheckSum
<1>3. Tail(inq) \in Seq(Signs) /\ PartOf(TncMarks, Tail(inq), inq)
  BY <1>1, <1>2, FirstOfQueue
<1>4. CheckSum' = << >>
  BY <1>1 DEF CheckSum
<1>5. CASE ~ (state = "ETX" /\ crcTx = T!Crc(digits))
  <2>1. UNCHANGED <<written, read>>
    BY <1>1, <1>5
  <2>2. TncType'
    BY <1>1, <1>2, <1>3, <2>1 DEF TncType, NextRead
  <2>3. PartOf(TncMarks, CheckSum', CheckSum) /\ PartOf(TncMarks, outq', outq)
    BY <1>1, <1>2, <1>4, PartOfItself
  <2>4. PartOf(TncMarks, TncWay', TncWay)
    BY <1>1, <1>2, <1>3, <2>2, <2>3, TncParts
  <2> QED
    BY <2>1, <2>2, <2>4, TncPart DEF NextRead
<1>6. CASE state = "ETX" /\ crcTx = T!Crc(digits)
  <2>1. CheckSum = crcTx /\ Len(crcTx) = 4 /\ crcTx[4] = TncMark(digits) /\ read' = Append(read, digits)
    BY <1>1, <1>6 DEF CheckSum, T!Crc, TncMark
  <2>2. TncMark(digits) \in TncMarks
    <3>1. TncMark(digits) \in Signs
      <4>1. crcTx \in Seq(Signs) /\ 4 \in 1 .. Len(crcTx)
        BY <1>2, <2>1
      <4>2. crcTx[4] \in Signs
        BY <4>1
      <4> QED
        BY <2>1, <4>2
    <3>2. PICK k \in 1 .. 4, q \in T!Frame : TncMark(digits) = T!CrcDigit(k, q)
      BY <3>1, MarkIsUnique DEF Signs
    <3>3. k = 4
      BY <3>2, MarkIsUnique
    <3> QED
      BY <3>2, <3>3 DEF TncMarks, TncMark
  <2> DEFINE r == inq \o outq
  <2>3. r \in Seq(Signs) /\ TncWay = crcTx \o r
    <3>1. inq \in Seq(Signs) /\ outq \in Seq(Signs) /\ crcTx \in Seq(Signs)
      BY <1>2
    <3>2. (crcTx \o inq) \o outq = crcTx \o (inq \o outq) /\ inq \o outq \in Seq(Signs)
      BY <3>1
    <3> QED
      BY <2>1, <3>2 DEF TncWay
  <2>4. /\ Written \in Seq(TncMarks) /\ Len(Written) = Len(written) /\ Len(written) \in Nat
        /\ \A j \in 1 .. Len(written) : Written[j] = TncMark(written[j]) /\ T!Number(written[j]) = j
        /\ Distinct(Written)
    BY <1>2, MarksOfWritten
  <2> HIDE DEF r
  <2>5. PICK j \in 1 .. Len(Written) :
          Written[j] = crcTx[4] /\ NextRead <= j /\ InOrder(TncMarks, r, Written, j + 1)
    <3>1. 4 \in 1 .. Len(crcTx) /\ crcTx[4] \in TncMarks /\ NextRead \in Nat /\ InOrder(TncMarks, crcTx \o r, Written, NextRead)
      BY <1>2, <2>1, <2>2, <2>3
    <3> QED
      BY <1>2, <2>3, <2>4, <3>1, AfterTheMark
  <2>6. j \in 1 .. Len(written) /\ digits = written[j] /\ T!Number(digits) = j /\ digits \in T!Frame
    BY <1>2, <2>1, <2>4, <2>5, MarkIsUnique
  <2>7. NextRead' = j + 1 /\ read' \in Seq(T!Frame) /\ NextRead' \in 1 .. Len(written) + 1
    <3>1. read' \in Seq(T!Frame) /\ read' # << >> /\ read'[Len(read')] = digits
      <4>1. read \in Seq(T!Frame) /\ digits \in T!Frame
        BY <1>2, <2>6
      <4>2. Append(read, digits) \in Seq(T!Frame) /\ Append(read, digits) # << >>
            /\ Append(read, digits)[Len(Append(read, digits))] = digits
        BY <4>1
      <4> QED
        BY <2>1, <4>2
    <3>2. T!Last(read') = digits
      BY <3>1 DEF T!Last
    <3> QED
      BY <2>4, <2>6, <3>1, <3>2 DEF NextRead
  <2>8. TncType'
    BY <1>1, <1>2, <1>3, <2>7 DEF TncType
  <2>9. T!Link!Next
    <3>1. j \in NextRead .. Len(written)
      BY <1>2, <2>4, <2>5, <2>6
    <3>2. T!Link!Deliver(j)
      BY <1>1, <2>1, <2>6, <2>7 DEF T!Link!Deliver, NextRead
    <3> QED
      BY <3>1, <3>2 DEF T!Link!Next, NextRead
  <2>10. PartOf(TncMarks, inq' \o outq', r)
    <3>1. PartOf(TncMarks, outq, outq)
      BY <1>2, PartOfItself
    <3> QED
      BY <1>1, <1>2, <1>3, <3>1, PartsOfBoth DEF r
  <2>11. TncWay' = inq' \o outq'
    <3>1. inq' \in Seq(Signs)
      BY <1>1, <1>3
    <3>2. << >> \o inq' = inq'
      BY <3>1
    <3> QED
      BY <1>4, <3>2 DEF TncWay
  <2>12. Written' = Written
    BY <1>1 DEF Written
  <2>13. InOrder(TncMarks, TncWay', Written', NextRead')
    BY <2>4, <2>5, <2>7, <2>10, <2>11, <2>12, PartInOrder
  <2> QED
    BY <2>8, <2>9, <2>13 DEF TncInv
<1> QED
  BY <1>5, <1>6

LEMMA TncStep == TncInv /\ [T!Next]_(T!vars) => TncInv' /\ [T!Link!Next]_<<written, read, NextRead>>
<1> SUFFICES ASSUME TncInv, [T!Next]_(T!vars)
             PROVE  TncInv' /\ [T!Link!Next]_<<written, read, NextRead>>
  OBVIOUS
<1>1. CASE \E size \in Sizes : T!iTncWrite(size) \/ T!WriteError(size)
  BY <1>1, TncWrites
<1>2. CASE TncMoves
  <2>1. TncType' /\ UNCHANGED <<written, read>> /\ PartOf(TncMarks, TncWay', TncWay)
    BY <1>2, TncMoveParts DEF TncInv
  <2> QED
    BY <2>1, TncPart DEF NextRead
<1>3. CASE T!PollEot
  BY <1>3, TncEnds
<1>4. CASE UNCHANGED T!vars
  BY <1>4 DEF T!vars, T!lineVars, T!rxVars, T!histVars, TncInv, TncType, TncWay, CheckSum, Written, NextRead
<1> QED
  BY <1>1, <1>2, <1>3, <1>4 DEF T!Next, T!Receive, TncMoves

(* A terminal node controller: what iTncPoll hands over was written by     *)
(* iTncWrite, unaltered, in order and once, whatever is lost, added,       *)
(* flushed or cut.                                                         *)
THEOREM TncKeepsLink == T!Spec => T!LinkSpec
<1>1. T!Init => TncInv /\ T!Link!Init
  BY TncInit
<1>2. TncInv /\ [T!Next]_(T!vars) => TncInv'
  BY TncStep
<1>3. TncInv /\ [T!Next]_(T!vars) => [T!Link!Next]_<<written, read, NextRead>>
  BY TncStep
<1>4. T!Spec => T!Link!Init /\ [][T!Link!Next]_<<written, read, NextRead>>
  BY <1>1, <1>2, <1>3, PTL DEF T!Spec
<1> QED
  BY <1>4 DEF T!LinkSpec, T!Link!Spec, NextRead

-----------------------------------------------------------------------------
(* The AX.25 link (Ax25, radio/src/ax25.c): the mark of a frame is its     *)
(* check sum.                                                              *)
AxMark(f) == A!Crc(A!Body(f))
AxMarks == {AxMark(f) : f \in A!Frame}
AxPlain == A!Special \cup {A!Byte(v) : v \in Nat} \cup {A!Addr(b) : b \in BOOLEAN} \cup {A!Ctrl(b) : b \in BOOLEAN}
AxSigns == AxPlain \cup AxMarks

LEMMA SmallestOf ==
  ASSUME NEW N \in SUBSET Nat, N # {}
  PROVE  \E n \in N : \A m \in N : n <= m
<1>1. PICK n \in N : \A m \in N : ~ (<<m, n>> \in OpToRel(<, Nat))
  BY NatLessThanWellFounded, WFMin
<1>2. ASSUME NEW m \in N PROVE n <= m
  <2>1. n \in Nat /\ m \in Nat
    OBVIOUS
  <2>2. ~ (m < n)
    BY <1>1, <2>1 DEF OpToRel
  <2> QED
    BY <2>1, <2>2
<1> QED
  BY <1>2

(* A sequence of sequences, one after the other. *)
Flattens(g, r, n) == g = [i \in 1 .. n |-> IF i = 1 THEN r[i] ELSE g[i - 1] \o r[i]]

LEMMA FlattenIsSequence ==
  ASSUME NEW S, NEW r \in Seq(Seq(S)), r # << >>
  PROVE  A!FlattenSeq(r) \in Seq(S)
<1> DEFINE l == Len(r)
<1>1. l \in Nat /\ l > 0 /\ \A i \in 1 .. l : r[i] \in Seq(S)
  BY EmptySeq
<1> HIDE DEF l
<1>2. \A n \in 1 .. l : \E g : Flattens(g, r, n)
  <2> DEFINE N == {n \in 1 .. l : ~ \E g : Flattens(g, r, n)}
  <2> SUFFICES ASSUME N # {} PROVE FALSE
    OBVIOUS
  <2>1. N \in SUBSET Nat
    BY <1>1
  <2>2. PICK n \in N : \A m \in N : n <= m
    BY <2>1, SmallestOf
  <2>3. n \in 1 .. l /\ ~ \E g : Flattens(g, r, n)
    OBVIOUS
  <2>4. n # 1
    <3> DEFINE g == [i \in 1 .. 1 |-> r[1]]
    <3>1. Flattens(g, r, 1)
      BY DEF Flattens
    <3> QED
      BY <2>3, <3>1
  <2>5. n - 1 \in 1 .. l /\ n - 1 \notin N
    <3>1. n \in Nat /\ n \in 1 .. l
      BY <1>1, <2>3
    <3> HIDE DEF N
    <3>2. n - 1 \in 1 .. l
      BY <1>1, <2>4, <3>1
    <3>3. n - 1 \notin N
      BY <2>2, <3>1
    <3> QED
      BY <3>2, <3>3
  <2>6. PICK g : Flattens(g, r, n - 1)
    BY <2>5
  <2> DEFINE h == [i \in 1 .. n |-> IF i = 1 THEN r[i] ELSE g[i - 1] \o r[i]]
  <2>7. \A i \in 1 .. n - 1 : g[i] = IF i = 1 THEN r[i] ELSE g[i - 1] \o r[i]
    BY <2>6 DEF Flattens
  <2>8. \A i \in 1 .. n : h[i] = IF i = 1 THEN r[i] ELSE g[i - 1] \o r[i]
    OBVIOUS
  <2>9. \A i \in 1 .. n - 1 : h[i] = g[i]
    BY <1>1, <2>3, <2>7, <2>8
  <2>10. \A i \in 1 .. n : i # 1 => h[i - 1] = g[i - 1]
    <3> SUFFICES ASSUME NEW i \in 1 .. n, i # 1 PROVE h[i - 1] = g[i - 1]
      OBVIOUS
    <3>1. i - 1 \in 1 .. n - 1
      BY <1>1, <2>3
    <3> HIDE DEF h
    <3> QED
      BY <2>9, <3>1
  <2>11. Flattens(h, r, n)
    <3> DEFINE k == [i \in 1 .. n |-> IF i = 1 THEN r[i] ELSE h[i - 1] \o r[i]]
    <3>1. \A i \in 1 .. n : (IF i = 1 THEN r[i] ELSE g[i - 1] \o r[i]) = (IF i = 1 THEN r[i] ELSE h[i - 1] \o r[i])
      BY <2>10
    <3>2. h = k
      BY <3>1
    <3> QED
      BY <3>2 DEF Flattens
  <2> QED
    BY <2>3, <2>11
<1> DEFINE flat == CHOOSE g : Flattens(g, r, l)
<1>3. Flattens(flat, r, l)
  <2>1. l \in 1 .. l
    BY <1>1
  <2>2. \E g : Flattens(g, r, l)
    BY <1>2, <2>1
  <2> QED
    BY <2>2
<1>4. A!FlattenSeq(r) = flat[l]
  BY <1>1 DEF A!FlattenSeq, l, Flattens
<1>5. \A i \in 1 .. l : flat[i] = IF i = 1 THEN r[i] ELSE flat[i - 1] \o r[i]
  BY <1>3 DEF Flattens
<1> HIDE DEF flat
<1>6. \A n \in 1 .. l : flat[n] \in Seq(S)
  <2> DEFINE N == {n \in 1 .. l : flat[n] \notin Seq(S)}
  <2> SUFFICES ASSUME N # {} PROVE FALSE
    OBVIOUS
  <2>1. N \in SUBSET Nat
    BY <1>1
  <2>2. PICK n \in N : \A m \in N : n <= m
    BY <2>1, SmallestOf
  <2>3. n \in 1 .. l /\ flat[n] \notin Seq(S)
    OBVIOUS
  <2>4. n # 1
    BY <1>1, <1>5, <2>3
  <2>5. n - 1 \in 1 .. l /\ n - 1 \notin N
    <3>1. n \in Nat /\ n \in 1 .. l
      BY <1>1, <2>3
    <3> HIDE DEF N
    <3>2. n - 1 \in 1 .. l
      BY <1>1, <2>4, <3>1
    <3>3. n - 1 \notin N
      BY <2>2, <3>1
    <3> QED
      BY <3>2, <3>3
  <2>6. flat[n - 1] \in Seq(S) /\ r[n] \in Seq(S) /\ flat[n] = flat[n - 1] \o r[n]
    BY <1>1, <1>5, <2>3, <2>4, <2>5
  <2> QED
    BY <2>3, <2>6
<1> QED
  BY <1>1, <1>4, <1>6

LEMMA AxMarkIsNotPlain ==
  /\ \A s, t : A!Crc(s) = A!Crc(t) => s = t
  /\ \A s : A!Crc(s) \notin AxPlain
  /\ A!Addr(TRUE) # A!Addr(FALSE) /\ A!Ctrl(TRUE) # A!Ctrl(FALSE)
  /\ A!Symbol \subseteq AxPlain /\ A!Special \subseteq AxPlain
<1>1. \A s, t : A!Crc(s) = A!Crc(t) => s = t
  BY DEF A!Crc
<1>2. ASSUME NEW s PROVE A!Crc(s) \notin AxPlain
  <2>1. A!Crc(s)[1] = "crc" /\ Len(A!Crc(s)) = 2
    BY DEF A!Crc
  <2>2. A!Crc(s) \notin A!Special
    BY <2>1 DEF A!Special, A!Flag, A!Reset, A!Esc
  <2>3. \A v : A!Byte(v)[1] = "byte" /\ A!Addr(v)[1] = "addr" /\ A!Ctrl(v)[1] = "ctrl"
    BY DEF A!Byte, A!Addr, A!Ctrl
  <2> QED
    BY <2>1, <2>2, <2>3 DEF AxPlain
<1>3. A!Addr(TRUE) # A!Addr(FALSE)
  <2>1. A!Addr(TRUE)[2] = TRUE /\ A!Addr(FALSE)[2] = FALSE
    BY DEF A!Addr
  <2> QED
    BY <2>1
<1>4. A!Ctrl(TRUE) # A!Ctrl(FALSE)
  <2>1. A!Ctrl(TRUE)[2] = TRUE /\ A!Ctrl(FALSE)[2] = FALSE
    BY DEF A!Ctrl
  <2> QED
    BY <2>1
<1>5. A!Symbol \subseteq AxPlain /\ A!Special \subseteq AxPlain
  BY DEF A!Symbol, AxPlain
<1> QED
  BY <1>1, <1>2, <1>3, <1>4, <1>5

LEMMA FramesAreContents ==
  ASSUME NEW f \in A!Frame
  PROVE  /\ f.n \in 1 .. MaxFrames /\ f.rpt \in 0 .. MaxRpt /\ f.ui \in BOOLEAN /\ f.info \in Seq(A!Symbol)
         /\ f = [n |-> f.n, rpt |-> f.rpt, ui |-> f.ui, info |-> f.info]
<1>1. PICK k \in 1 .. MaxFrames, c \in Contents : f = A!Numbered(k, c)
  BY DEF A!Frame
<1>2. c \in A!Content
  BY LinkAssumptions DEF A!Ax25Assumption
<1>3. f = [n |-> k, rpt |-> c.rpt, ui |-> c.ui, info |-> c.info]
  BY <1>1 DEF A!Numbered
<1>4. c.rpt \in 0 .. MaxRpt /\ c.ui \in BOOLEAN /\ c.info \in Seq(A!Symbol)
  BY <1>2 DEF A!Content
<1> QED
  BY <1>3, <1>4

(* prviSendCall and iAx25Send: where the fields of a frame are. *)
LEMMA FieldsOfBody ==
  ASSUME NEW f \in A!Frame
  PROVE  LET b == A!Body(f)
         IN  /\ b \in Seq(AxPlain) /\ f.rpt \in Nat /\ Len(f.info) \in Nat /\ Len(b) = f.rpt + 4 + Len(f.info)
             /\ \A i \in 1 .. f.rpt + 1 : b[i] = A!Addr(FALSE)
             /\ b[f.rpt + 2] = A!Addr(TRUE)
             /\ b[f.rpt + 3] = A!Ctrl(f.ui)
             /\ b[f.rpt + 4] = A!Byte(f.n)
             /\ \A i \in 1 .. Len(f.info) : b[f.rpt + 4 + i] = f.info[i]
<1> DEFINE k == f.rpt
           p == A!Path(k)
           q == <<A!Ctrl(f.ui), A!Byte(f.n)>>
           s == f.info
<1>1. k \in Nat /\ f.ui \in BOOLEAN /\ f.n \in Nat /\ s \in Seq(AxPlain) /\ Len(s) \in Nat
  <2>1. f.info \in Seq(A!Symbol) /\ A!Symbol \subseteq AxPlain
    BY FramesAreContents, AxMarkIsNotPlain
  <2>2. f.info \in Seq(AxPlain)
    BY <2>1
  <2>3. f.rpt \in Nat /\ f.n \in Nat /\ f.ui \in BOOLEAN
    BY FramesAreContents
  <2> QED
    BY <2>2, <2>3
<1>2. /\ p \in Seq(AxPlain) /\ Len(p) = k + 2
      /\ \A i \in 1 .. k + 1 : p[i] = A!Addr(FALSE)
      /\ p[k + 2] = A!Addr(TRUE)
  <2>1. p = [i \in 1 .. k + 2 |-> A!Addr(i = k + 2)]
    BY DEF A!Path
  <2> HIDE DEF k, p
  <2>2. \A i \in 1 .. k + 2 : p[i] = A!Addr(i = k + 2)
    BY <2>1
  <2>3. ASSUME NEW i \in 1 .. k + 1 PROVE p[i] = A!Addr(FALSE)
    <3>1. i \in 1 .. k + 2 /\ i # k + 2
      BY <1>1
    <3>2. (i = k + 2) = FALSE
      BY <3>1
    <3> QED
      BY <2>2, <3>1, <3>2, Zenon
  <2>4. p[k + 2] = A!Addr(TRUE)
    <3>1. k + 2 \in 1 .. k + 2
      BY <1>1
    <3>2. (k + 2 = k + 2) = TRUE
      OBVIOUS
    <3> QED
      BY <2>2, <3>1, <3>2, Zenon
  <2>5. \A i \in 1 .. k + 2 : p[i] \in AxPlain
    <3>1. \A i \in 1 .. k + 2 : i \in 1 .. k + 1 \/ i = k + 2
      BY <1>1
    <3>2. A!Addr(TRUE) \in AxPlain /\ A!Addr(FALSE) \in AxPlain
      BY DEF AxPlain
    <3> QED
      BY <2>3, <2>4, <3>1, <3>2
  <2>6. p \in [1 .. k + 2 -> AxPlain] /\ k + 2 \in Nat
    BY <1>1, <2>1, <2>5
  <2>7. p \in Seq(AxPlain) /\ Len(p) = k + 2
    <3> DEFINE l == k + 2
    <3>1. p \in [1 .. l -> AxPlain] /\ l \in Nat
      BY <2>6
    <3> HIDE DEF l
    <3>2. p \in Seq(AxPlain) /\ Len(p) = l
      BY <3>1
    <3> QED
      BY <3>2 DEF l
  <2> QED
    BY <2>3, <2>4, <2>7
<1>3. q \in Seq(AxPlain) /\ Len(q) = 2 /\ q[1] = A!Ctrl(f.ui) /\ q[2] = A!Byte(f.n)
  <2>1. A!Ctrl(f.ui) \in AxPlain /\ A!Byte(f.n) \in AxPlain
    BY <1>1 DEF AxPlain
  <2> QED
    BY <2>1
<1>4. A!Body(f) = (p \o q) \o s
  BY DEF A!Body
<1> HIDE DEF p, q, s, k
<1> DEFINE c == p \o q
<1>5. /\ c \in Seq(AxPlain) /\ Len(c) = k + 4 /\ \A i \in 1 .. k + 2 : c[i] = p[i]
      /\ c[k + 3] = q[1] /\ c[k + 4] = q[2]
  <2>1. /\ c \in Seq(AxPlain) /\ Len(c) = Len(p) + Len(q)
        /\ \A i \in 1 .. Len(p) : c[i] = p[i]
        /\ \A i \in 1 .. Len(q) : c[Len(p) + i] = q[i]
    <3>1. p \in Seq(AxPlain) /\ q \in Seq(AxPlain)
      BY <1>2, <1>3
    <3> QED
      BY <3>1
  <2> HIDE DEF c
  <2>2. Len(c) = k + 4 /\ \A i \in 1 .. k + 2 : c[i] = p[i]
    BY <1>1, <1>2, <1>3, <2>1
  <2>3. c[(k + 2) + 1] = q[1] /\ c[(k + 2) + 2] = q[2]
    BY <1>2, <1>3, <2>1
  <2>4. (k + 2) + 1 = k + 3 /\ (k + 2) + 2 = k + 4
    BY <1>1
  <2> QED
    BY <2>1, <2>2, <2>3, <2>4
<1> HIDE DEF c
<1> DEFINE b == c \o s
<1>6. /\ b \in Seq(AxPlain) /\ Len(b) = Len(c) + Len(s)
      /\ \A i \in 1 .. Len(c) : b[i] = c[i]
      /\ \A i \in 1 .. Len(s) : b[Len(c) + i] = s[i]
  <2>1. c \in Seq(AxPlain) /\ s \in Seq(AxPlain)
    BY <1>1, <1>5
  <2> QED
    BY <2>1
<1>7. b = A!Body(f)
  BY <1>4 DEF c
<1> HIDE DEF b
<1>8. Len(b) = k + 4 + Len(s) /\ \A i \in 1 .. Len(s) : b[k + 4 + i] = s[i]
  BY <1>1, <1>5, <1>6
<1>9. \A i \in 1 .. k + 1 : b[i] = A!Addr(FALSE)
  <2> SUFFICES ASSUME NEW i \in 1 .. k + 1 PROVE b[i] = A!Addr(FALSE)
    OBVIOUS
  <2>1. i \in 1 .. k + 2 /\ i \in 1 .. k + 4
    BY <1>1
  <2> QED
    BY <1>2, <1>5, <1>6, <2>1
<1>10. b[k + 2] = A!Addr(TRUE) /\ b[k + 3] = q[1] /\ b[k + 4] = q[2]
  <2>1. k + 2 \in 1 .. k + 2 /\ k + 2 \in 1 .. k + 4 /\ k + 3 \in 1 .. k + 4 /\ k + 4 \in 1 .. k + 4
    BY <1>1
  <2> QED
    BY <1>2, <1>5, <1>6, <2>1
<1> QED
  BY <1>1, <1>3, <1>6, <1>7, <1>8, <1>9, <1>10 DEF k, s

(* A frame, with its escapes: its mark, and others that are no marks.      *)
LEMMA FrameHasItsMark ==
  ASSUME NEW f \in A!Frame
  PROVE  A!Encode(f) \in Seq(AxSigns) /\ OneMark(AxMarks, A!Encode(f), AxMark(f))
<1> DEFINE b == A!Body(f)
           r == [i \in 1 .. Len(b) |-> A!PutChar(b[i])]
           s == A!FlattenSeq(r)
           c == <<A!Crc(b), A!Flag>>
           a == <<A!Flag>>
<1>1. b \in Seq(AxPlain) /\ Len(b) \in Nat /\ Len(b) > 0
  <2>1. f.rpt \in Nat /\ Len(f.info) \in Nat /\ Len(b) = f.rpt + 4 + Len(f.info) /\ b \in Seq(AxPlain)
    BY FieldsOfBody
  <2> HIDE DEF b
  <2> QED
    BY <2>1
<1>2. A!Encode(f) = (a \o s) \o c
  BY DEF A!Encode
<1>3. AxMark(f) = A!Crc(b) /\ A!Crc(b) \in AxMarks
  BY DEF AxMark, AxMarks
<1>4. AxPlain \subseteq AxSigns /\ \A x \in AxPlain : x \notin AxMarks
  BY AxMarkIsNotPlain DEF AxSigns, AxMarks, AxMark
<1> HIDE DEF b
<1>5. s \in Seq(AxPlain)
  <2>1. \A i \in 1 .. Len(b) : A!PutChar(b[i]) \in Seq(AxPlain)
    <3> SUFFICES ASSUME NEW i \in 1 .. Len(b) PROVE A!PutChar(b[i]) \in Seq(AxPlain)
      OBVIOUS
    <3>1. b[i] \in AxPlain /\ A!Esc \in AxPlain
      BY <1>1 DEF AxPlain, A!Special
    <3> QED
      BY <3>1 DEF A!PutChar
  <2>2. r \in [1 .. Len(b) -> Seq(AxPlain)]
    BY <2>1
  <2>3. r \in Seq(Seq(AxPlain)) /\ Len(r) = Len(b)
    BY <1>1, <2>2
  <2>4. r # << >>
    BY <1>1, <2>3
  <2> QED
    BY <2>3, <2>4, FlattenIsSequence
<1>6. \A t \in Seq(AxPlain) : t \in Seq(AxSigns) /\ NoMark(AxMarks, t)
  BY <1>4 DEF NoMark
<1>7. a \in Seq(AxPlain)
  BY DEF AxPlain, A!Special
<1> HIDE DEF a, s
<1>8. a \o s \in Seq(AxPlain)
  BY <1>5, <1>7
<1>9. c \in Seq(AxSigns) /\ OneMark(AxMarks, c, A!Crc(b))
  <2>1. A!Flag \in AxPlain
    BY DEF AxPlain, A!Special
  <2>2. c \in Seq(AxSigns) /\ Len(c) = 2 /\ c[1] = A!Crc(b) /\ c[2] = A!Flag
    BY <1>3, <1>4, <2>1 DEF AxSigns
  <2>3. A!Flag \notin AxMarks
    BY <1>4, <2>1
  <2> HIDE DEF c
  <2> QED
    BY <2>2, <2>3 DEF OneMark
<1> HIDE DEF c
<1> DEFINE d == a \o s
<1>10. d \in Seq(AxSigns) /\ NoMark(AxMarks, d)
  BY <1>6, <1>8
<1> HIDE DEF d
<1>11. OneMark(AxMarks, d \o c, A!Crc(b)) /\ d \o c \in Seq(AxSigns)
  BY <1>9, <1>10, OneMarkBetween
<1> QED
  BY <1>2, <1>3, <1>11 DEF d

LEMMA FrontAndLast ==
  ASSUME NEW S, NEW s \in Seq(S), Len(s) > 0
  PROVE  /\ Len(s) \in Nat /\ A!Front(s) \in Seq(S) /\ Len(A!Front(s)) = Len(s) - 1
         /\ \A i \in 1 .. Len(A!Front(s)) : A!Front(s)[i] = s[i]
         /\ A!Last(s) = s[Len(s)] /\ Len(s) \in 1 .. Len(s) /\ A!Last(s) \in S
<1> DEFINE l == Len(s)
           t == SubSeq(s, 1, l - 1)
<1>1. l \in Nat /\ l > 0 /\ l \in 1 .. l /\ \A i \in 1 .. l : s[i] \in S
  OBVIOUS
<1> HIDE DEF l
<1>2. 1 \in Int /\ l - 1 \in Int /\ \A i \in 1 .. l - 1 : s[i] \in S
  BY <1>1
<1>3. /\ t \in Seq(S) /\ Len(t) = IF 1 <= l - 1 THEN (l - 1) - 1 + 1 ELSE 0
      /\ \A i \in 1 .. (l - 1) - 1 + 1 : t[i] = s[1 + i - 1]
  BY <1>2, SubSeqProperties
<1> HIDE DEF t
<1>4. Len(t) = l - 1
  BY <1>1, <1>3
<1>5. ASSUME NEW i \in 1 .. Len(t) PROVE t[i] = s[i]
  <2>1. i \in 1 .. (l - 1) - 1 + 1 /\ 1 + i - 1 = i
    BY <1>1, <1>4
  <2> QED
    BY <1>3, <2>1
<1>6. A!Front(s) = t /\ A!Last(s) = s[l]
  BY DEF A!Front, A!Last, t, l
<1> QED
  BY <1>1, <1>3, <1>4, <1>5, <1>6 DEF l

LEMMA BodyIsOfOneFrame ==
  ASSUME NEW f \in A!Frame, NEW g \in A!Frame, A!Body(f) = A!Body(g)
  PROVE  f.n = g.n
<1> DEFINE b == A!Body(f)
<1>1. /\ f.rpt \in Nat /\ b[f.rpt + 2] = A!Addr(TRUE) /\ b[f.rpt + 4] = A!Byte(f.n)
      /\ \A i \in 1 .. f.rpt + 1 : b[i] = A!Addr(FALSE)
  BY FieldsOfBody
<1>2. /\ g.rpt \in Nat /\ b[g.rpt + 2] = A!Addr(TRUE) /\ b[g.rpt + 4] = A!Byte(g.n)
      /\ \A i \in 1 .. g.rpt + 1 : b[i] = A!Addr(FALSE)
  BY FieldsOfBody
<1> HIDE DEF b
<1>3. A!Addr(TRUE) # A!Addr(FALSE)
  BY AxMarkIsNotPlain
<1>4. ~ (f.rpt < g.rpt)
  <2> SUFFICES ASSUME f.rpt < g.rpt PROVE FALSE
    OBVIOUS
  <2>1. f.rpt + 2 \in 1 .. g.rpt + 1
    BY <1>1, <1>2
  <2> QED
    BY <1>1, <1>2, <1>3, <2>1
<1>5. ~ (g.rpt < f.rpt)
  <2> SUFFICES ASSUME g.rpt < f.rpt PROVE FALSE
    OBVIOUS
  <2>1. g.rpt + 2 \in 1 .. f.rpt + 1
    BY <1>1, <1>2
  <2> QED
    BY <1>1, <1>2, <1>3, <2>1
<1>6. f.rpt = g.rpt
  BY <1>1, <1>2, <1>4, <1>5
<1>7. A!Byte(f.n)[2] = f.n /\ A!Byte(g.n)[2] = g.n
  BY DEF A!Byte
<1> QED
  BY <1>1, <1>2, <1>6, <1>7

(* prviDecode: the fields of a frame are found where iAx25Send put them.   *)
LEMMA DecodedIsTheFrame ==
  ASSUME NEW f \in A!Frame, buf \in Seq(AxSigns), A!Front(buf) = A!Body(f), Len(buf) > 0, A!Decodable
  PROVE  A!Decoded = f
<1> DEFINE b == A!Body(f)
           k == f.rpt
<1>1. /\ b \in Seq(AxPlain) /\ k \in Nat /\ Len(f.info) \in Nat /\ Len(b) = k + 4 + Len(f.info)
      /\ \A i \in 1 .. k + 1 : b[i] = A!Addr(FALSE)
      /\ b[k + 2] = A!Addr(TRUE) /\ b[k + 3] = A!Ctrl(f.ui) /\ b[k + 4] = A!Byte(f.n)
      /\ \A i \in 1 .. Len(f.info) : b[k + 4 + i] = f.info[i]
  BY FieldsOfBody
<1>2. /\ k \in 0 .. MaxRpt /\ f.ui \in BOOLEAN /\ f.info \in Seq(A!Symbol) /\ MaxRpt \in Nat
      /\ f = [n |-> f.n, rpt |-> k, ui |-> f.ui, info |-> f.info]
  BY FramesAreContents, LinkAssumptions DEF A!Ax25Assumption
<1>3. Len(buf) \in Nat /\ Len(buf) = Len(b) + 1 /\ \A i \in 1 .. Len(b) : b[i] = buf[i]
  <2>1. /\ Len(buf) \in Nat /\ Len(b) = Len(buf) - 1
        /\ \A i \in 1 .. Len(b) : b[i] = buf[i]
    BY FrontAndLast
  <2> HIDE DEF b
  <2> QED
    BY <2>1
<1> HIDE DEF b, k
<1>4. /\ \A i \in 1 .. k + 1 : buf[i] = A!Addr(FALSE)
      /\ buf[k + 2] = A!Addr(TRUE) /\ buf[k + 3] = A!Ctrl(f.ui) /\ buf[k + 4] = A!Byte(f.n)
  <2>1. \A i \in 1 .. k + 4 : b[i] = buf[i]
    <3>1. \A i \in 1 .. k + 4 : i \in 1 .. Len(b)
      <4> DEFINE x == Len(b)
                 y == Len(f.info)
      <4>1. k \in Nat /\ y \in Nat /\ x = k + 4 + y
        BY <1>1
      <4> HIDE DEF x, y
      <4>2. \A i \in 1 .. k + 4 : i \in 1 .. x
        BY <4>1
      <4> QED
        BY <4>2 DEF x
    <3> QED
      BY <1>3, <3>1
  <2>2. k + 2 \in 1 .. k + 4 /\ k + 3 \in 1 .. k + 4 /\ k + 4 \in 1 .. k + 4 /\ \A i \in 1 .. k + 1 : i \in 1 .. k + 4
    BY <1>1
  <2> QED
    BY <1>1, <2>1, <2>2
<1>5. A!LastAddr = k + 2
  <2> DEFINE Is(i) == /\ i = MaxRpt + 2 \/ buf[i] = A!Addr(TRUE)
                      /\ \A j \in 2 .. i - 1 : buf[j] # A!Addr(TRUE)
  <2>1. k + 2 \in 2 .. MaxRpt + 2 /\ Is(k + 2)
    <3>1. \A j \in 2 .. (k + 2) - 1 : j \in 1 .. k + 1
      BY <1>1
    <3>2. k + 2 \in 2 .. MaxRpt + 2
      BY <1>2
    <3> QED
      BY <1>4, <3>1, <3>2, AxMarkIsNotPlain
  <2>2. ASSUME NEW i \in 2 .. MaxRpt + 2, Is(i) PROVE i = k + 2
    <3>1. ~ (i < k + 2)
      <4> SUFFICES ASSUME i < k + 2 PROVE FALSE
        OBVIOUS
      <4>1. i \in 1 .. k + 1 /\ i # MaxRpt + 2
        BY <1>2
      <4> QED
        BY <1>4, <2>2, <4>1, AxMarkIsNotPlain
    <3>2. ~ (k + 2 < i)
      <4> SUFFICES ASSUME k + 2 < i PROVE FALSE
        OBVIOUS
      <4>1. k + 2 \in 2 .. i - 1
        BY <1>2
      <4> QED
        BY <1>4, <2>2, <4>1
    <3> QED
      BY <1>2, <3>1, <3>2
  <2>3. A!LastAddr = CHOOSE i \in 2 .. MaxRpt + 2 : Is(i)
    BY DEF A!LastAddr
  <2> HIDE DEF Is
  <2> QED
    BY <2>1, <2>2, <2>3
<1>6. f.ui = TRUE
  <2>1. A!Ctrl(f.ui) = A!Ctrl(TRUE)
    <3>1. (k + 2) + 1 = k + 3
      BY <1>1
    <3> QED
      BY <1>4, <1>5, <3>1 DEF A!Decodable
  <2>2. f.ui = TRUE \/ f.ui = FALSE
    BY <1>2
  <2> QED
    BY <2>1, <2>2, AxMarkIsNotPlain
<1>7. buf[A!LastAddr + 2][2] = f.n
  <2>1. (k + 2) + 2 = k + 4 /\ A!Byte(f.n)[2] = f.n
    BY <1>1 DEF A!Byte
  <2> QED
    BY <1>4, <1>5, <2>1
<1>8. A!LastAddr - 2 = k
  BY <1>1, <1>5
<1>9. SubSeq(buf, A!LastAddr + 3, Len(buf) - 1) = f.info
  <2> DEFINE l == Len(f.info)
  <2>1. A!LastAddr + 3 = k + 5 /\ Len(buf) - 1 = k + 4 + l /\ l \in Nat
    BY <1>1, <1>3, <1>5
  <2> DEFINE m == k + 5
             n == k + 4 + l
             t == SubSeq(buf, m, n)
  <2>2. \A i \in 1 .. l : buf[k + 4 + i] = f.info[i]
    <3> SUFFICES ASSUME NEW i \in 1 .. l PROVE buf[k + 4 + i] = f.info[i]
      OBVIOUS
    <3>1. k + 4 + i \in 1 .. Len(b)
      BY <1>1
    <3> QED
      BY <1>1, <1>3, <3>1
  <2> HIDE DEF l
  <2>3. m \in Int /\ n \in Int /\ n - m + 1 = l /\ (IF m <= n THEN n - m + 1 ELSE 0) = l
    BY <1>1, <2>1
  <2>4. \A i \in m .. n : buf[i] \in AxSigns
    <3> SUFFICES ASSUME NEW i \in m .. n PROVE buf[i] \in AxSigns
      OBVIOUS
    <3>1. i \in 1 .. Len(buf)
      BY <1>1, <1>3, <2>1
    <3> QED
      BY <3>1
  <2> HIDE DEF t
  <2>5. t \in Seq(AxSigns) /\ Len(t) = l /\ \A i \in 1 .. l : t[i] = buf[m + i - 1]
    <3> HIDE DEF m, n
    <3>1. /\ SubSeq(buf, m, n) \in Seq(AxSigns)
          /\ Len(SubSeq(buf, m, n)) = IF m <= n THEN n - m + 1 ELSE 0
          /\ \A i \in 1 .. n - m + 1 : SubSeq(buf, m, n)[i] = buf[m + i - 1]
      BY <2>3, <2>4, SubSeqProperties
    <3> QED
      BY <2>3, <3>1 DEF t
  <2>6. \A i \in 1 .. l : m + i - 1 = k + 4 + i
    BY <1>1, <2>1
  <2>7. f.info \in Seq(A!Symbol) /\ Len(f.info) = l
    BY <1>2 DEF l
  <2>8. \A i \in 1 .. l : t[i] = f.info[i]
    BY <2>2, <2>5, <2>6
  <2>9. t = f.info
    <3> DEFINE U == AxSigns \cup A!Symbol
    <3>1. t \in Seq(U) /\ f.info \in Seq(U)
      BY <2>5, <2>7
    <3> QED
      BY <2>5, <2>7, <2>8, <3>1, SeqEqual
  <2> QED
    BY <2>1, <2>9 DEF t
<1> QED
  BY <1>2, <1>6, <1>7, <1>8, <1>9 DEF A!Decoded

AxWritten == [j \in 1 .. Len(sent) |-> AxMark(sent[j])]

(* What is under way: what was received of a frame, and the line. *)
AxWay == buf \o line

NextGot == IF got = << >> THEN 1 ELSE A!Last(got).n + 1

AxType ==
  /\ line \in Seq(AxSigns) /\ buf \in Seq(AxSigns)
  /\ sent \in Seq(A!Frame) /\ got \in Seq(A!Frame)
  /\ \A j \in 1 .. Len(sent) : sent[j].n = j
  /\ NextGot \in 1 .. Len(sent) + 1

AxFound == frmRecv => Len(buf) >= A!MinLen /\ A!CrcCorrect

AxInv == AxType /\ AxFound /\ InOrder(AxMarks, AxWay, AxWritten, NextGot)

LEMMA MarksOfSent ==
  ASSUME AxType
  PROVE  /\ AxWritten \in Seq(AxMarks) /\ Len(AxWritten) = Len(sent) /\ Len(sent) \in Nat
         /\ \A j \in 1 .. Len(sent) : AxWritten[j] = AxMark(sent[j])
         /\ Distinct(AxWritten) /\ AxWay \in Seq(AxSigns)
<1>1. Len(sent) \in Nat /\ \A j \in 1 .. Len(sent) : sent[j] \in A!Frame /\ sent[j].n = j
  BY DEF AxType
<1>2. \A j \in 1 .. Len(sent) : AxMark(sent[j]) \in AxMarks
  BY <1>1 DEF AxMarks
<1>3. /\ AxWritten \in Seq(AxMarks) /\ Len(AxWritten) = Len(sent)
      /\ \A j \in 1 .. Len(sent) : AxWritten[j] = AxMark(sent[j])
  BY <1>1, <1>2 DEF AxWritten
<1>4. Distinct(AxWritten)
  <2> SUFFICES ASSUME NEW j \in 1 .. Len(sent), NEW k \in 1 .. Len(sent), AxWritten[j] = AxWritten[k]
               PROVE  j = k
    BY <1>3 DEF Distinct
  <2>1. A!Crc(A!Body(sent[j])) = A!Crc(A!Body(sent[k]))
    BY <1>3 DEF AxMark
  <2>2. A!Body(sent[j]) = A!Body(sent[k])
    BY <2>1, AxMarkIsNotPlain
  <2>3. sent[j].n = sent[k].n
    BY <1>1, <2>2, BodyIsOfOneFrame
  <2> QED
    BY <1>1, <2>3
<1>5. line \in Seq(AxSigns) /\ buf \in Seq(AxSigns)
  BY DEF AxType
<1>6. AxWay \in Seq(AxSigns)
  BY <1>5 DEF AxWay
<1> QED
  BY <1>1, <1>3, <1>4, <1>6

LEMMA AxParts ==
  ASSUME AxInv, buf' \in Seq(AxSigns), line' \in Seq(AxSigns), UNCHANGED <<sent, got>>,
         PartOf(AxMarks, buf', buf), PartOf(AxMarks, line', line)
  PROVE  AxType' /\ InOrder(AxMarks, AxWay', AxWritten', NextGot')
<1>1. AxWritten' = AxWritten /\ NextGot' = NextGot
  BY DEF AxWritten, NextGot
<1>2. AxType'
  BY <1>1 DEF AxInv, AxType
<1>3. buf \in Seq(AxSigns) /\ line \in Seq(AxSigns)
  BY DEF AxInv, AxType
<1>4. PartOf(AxMarks, buf' \o line', buf \o line)
  BY <1>3, PartsOfBoth
<1>5. InOrder(AxMarks, AxWay', AxWritten, NextGot)
  BY <1>4, MarksOfSent, PartInOrder DEF AxInv, AxWay
<1> QED
  BY <1>1, <1>2, <1>5

LEMMA AxInit == A!Init => AxInv /\ A!Link!Init
<1> SUFFICES ASSUME A!Init PROVE AxInv /\ A!Link!Init
  OBVIOUS
<1>1. line = << >> /\ buf = << >> /\ sent = << >> /\ got = << >> /\ frmRecv = FALSE
  BY DEF A!Init
<1>2. NextGot = 1
  BY <1>1 DEF NextGot
<1>3. AxType /\ AxFound
  BY <1>1, <1>2 DEF AxType, AxFound
<1>4. AxWay = << >> /\ Len(AxWay) = 0
  BY <1>1 DEF AxWay
<1>5. InOrder(AxMarks, AxWay, AxWritten, NextGot)
  BY <1>4 DEF InOrder
<1>6. A!Link!Init
  BY <1>1 DEF A!Link!Init
<1> QED
  BY <1>3, <1>5, <1>6 DEF AxInv

LEMMA CutInTwo ==
  ASSUME NEW S, NEW s \in Seq(S), NEW i \in 1 .. Len(s) + 1
  PROVE  LET t == SubSeq(s, 1, i - 1)
             u == SubSeq(s, i, Len(s))
         IN  /\ t \in Seq(S) /\ u \in Seq(S) /\ s = t \o u
             /\ i <= Len(s) => u # << >> /\ SubSeq(s, i + 1, Len(s)) = Tail(u)
<1> DEFINE l == Len(s)
           t == SubSeq(s, 1, i - 1)
           u == SubSeq(s, i, l)
           v == SubSeq(s, i + 1, l)
<1>1. l \in Nat /\ i \in Nat /\ 1 <= i /\ i <= l + 1 /\ \A k \in 1 .. l : s[k] \in S
  OBVIOUS
<1> HIDE DEF l
<1>2. t \in Seq(S) /\ Len(t) = i - 1 /\ \A k \in 1 .. i - 1 : t[k] = s[k]
  <2>1. 1 \in Int /\ i - 1 \in Int /\ \A k \in 1 .. i - 1 : s[k] \in S
    BY <1>1
  <2>2. /\ t \in Seq(S) /\ Len(t) = IF 1 <= i - 1 THEN (i - 1) - 1 + 1 ELSE 0
        /\ \A k \in 1 .. (i - 1) - 1 + 1 : t[k] = s[1 + k - 1]
    BY <2>1, SubSeqProperties
  <2>3. \A k \in 1 .. i - 1 : k \in 1 .. (i - 1) - 1 + 1 /\ 1 + k - 1 = k
    BY <1>1
  <2> HIDE DEF t
  <2>4. \A k \in 1 .. i - 1 : t[k] = s[k]
    BY <2>2, <2>3
  <2> QED
    BY <1>1, <2>2, <2>4
<1>3. u \in Seq(S) /\ Len(u) = l - i + 1 /\ \A k \in 1 .. l - i + 1 : u[k] = s[i + k - 1]
  <2>1. i \in Int /\ l \in Int /\ \A k \in i .. l : s[k] \in S
    BY <1>1
  <2>2. /\ u \in Seq(S) /\ Len(u) = IF i <= l THEN l - i + 1 ELSE 0
        /\ \A k \in 1 .. l - i + 1 : u[k] = s[i + k - 1]
    BY <2>1, SubSeqProperties
  <2> HIDE DEF u
  <2> QED
    BY <1>1, <2>2
<1>4. v \in Seq(S) /\ (i <= l => Len(v) = l - i) /\ \A k \in 1 .. l - i : v[k] = s[i + k]
  <2>1. i + 1 \in Int /\ l \in Int /\ \A k \in i + 1 .. l : s[k] \in S
    BY <1>1
  <2>2. /\ v \in Seq(S) /\ Len(v) = IF i + 1 <= l THEN l - (i + 1) + 1 ELSE 0
        /\ \A k \in 1 .. l - (i + 1) + 1 : v[k] = s[i + 1 + k - 1]
    BY <2>1, SubSeqProperties
  <2>3. \A k \in 1 .. l - i : k \in 1 .. l - (i + 1) + 1 /\ i + 1 + k - 1 = i + k
    BY <1>1
  <2> HIDE DEF v
  <2>4. \A k \in 1 .. l - i : v[k] = s[i + k]
    BY <2>2, <2>3
  <2> QED
    BY <1>1, <2>2, <2>4
<1> HIDE DEF t, u, v
<1> DEFINE p == t \o u
<1>5. p \in Seq(S) /\ Len(p) = Len(t) + Len(u)
      /\ (\A k \in 1 .. Len(t) : p[k] = t[k])
      /\ (\A k \in 1 .. Len(u) : p[Len(t) + k] = u[k])
  <2>1. t \in Seq(S) /\ u \in Seq(S)
    BY <1>2, <1>3
  <2> QED
    BY <2>1
<1> HIDE DEF p
<1>6. ASSUME NEW k \in 1 .. l PROVE s[k] = p[k]
  <2>1. CASE k \in 1 .. i - 1
    BY <1>2, <1>5, <2>1
  <2>2. CASE k \notin 1 .. i - 1
    <3> DEFINE j == k - (i - 1)
    <3>1. j \in 1 .. l - i + 1 /\ i + j - 1 = k /\ (i - 1) + j = k
      BY <1>1, <2>2
    <3> HIDE DEF j
    <3>2. p[(i - 1) + j] = u[j]
      BY <1>2, <1>3, <1>5, <3>1
    <3> QED
      BY <1>3, <3>1, <3>2
  <2> QED
    BY <2>1, <2>2
<1>7. s = p
  <2>1. Len(p) = Len(s)
    BY <1>1, <1>2, <1>3, <1>5 DEF l
  <2> QED
    BY <1>5, <1>6, <2>1, SeqEqual DEF l
<1>8. ASSUME i <= l PROVE u # << >> /\ v = Tail(u)
  <2>1. Len(u) > 0
    BY <1>1, <1>3, <1>8
  <2>2. u # << >>
    BY <2>1
  <2> DEFINE w == Tail(u)
             m == Len(u)
  <2>3. w \in Seq(S) /\ Len(w) = m - 1 /\ \A k \in 1 .. m - 1 : w[k] = u[k + 1]
    BY <1>3, <2>1, <2>2
  <2>4. m = l - i + 1
    BY <1>3
  <2> HIDE DEF w, m
  <2>5. Len(w) = l - i /\ Len(v) = l - i
    BY <1>1, <1>4, <1>8, <2>3, <2>4
  <2>6. ASSUME NEW k \in 1 .. l - i PROVE v[k] = w[k]
    <3>1. k \in 1 .. m - 1 /\ k + 1 \in 1 .. l - i + 1 /\ i + (k + 1) - 1 = i + k
      BY <1>1, <2>4
    <3> QED
      BY <1>3, <1>4, <2>3, <3>1
  <2>7. v = w
    BY <1>4, <2>3, <2>5, <2>6, SeqEqual
  <2> QED
    BY <2>2, <2>7 DEF w
<1> QED
  BY <1>2, <1>3, <1>7, <1>8 DEF l, p, t, u, v

(* The line: a sign is lost, or one that is no mark is added. *)
LEMMA LineSuffers ==
  ASSUME NEW s \in Seq(AxSigns)
  PROVE  /\ \A i \in 1 .. Len(s) : /\ A!RemoveAt(s, i) \in Seq(AxSigns)
                                   /\ PartOf(AxMarks, A!RemoveAt(s, i), s)
         /\ \A x \in AxPlain : \A i \in 1 .. Len(s) + 1 : /\ A!InsertAt(s, i, x) \in Seq(AxSigns)
                                                          /\ PartOf(AxMarks, A!InsertAt(s, i, x), s)
<1>1. Len(s) \in Nat
  OBVIOUS
<1>2. ASSUME NEW i \in 1 .. Len(s)
      PROVE  A!RemoveAt(s, i) \in Seq(AxSigns) /\ PartOf(AxMarks, A!RemoveAt(s, i), s)
  <2> DEFINE t == SubSeq(s, 1, i - 1)
             u == SubSeq(s, i, Len(s))
  <2>1. i \in 1 .. Len(s) + 1 /\ i <= Len(s)
    BY <1>1
  <2>2. t \in Seq(AxSigns) /\ u \in Seq(AxSigns) /\ s = t \o u /\ u # << >> /\ SubSeq(s, i + 1, Len(s)) = Tail(u)
    BY <2>1, CutInTwo
  <2>3. A!RemoveAt(s, i) = t \o Tail(u)
    BY <2>2 DEF A!RemoveAt
  <2> HIDE DEF t, u
  <2>4. Tail(u) \in Seq(AxSigns) /\ PartOf(AxMarks, Tail(u), u) /\ PartOf(AxMarks, t, t)
    BY <2>2, FirstOfQueue, PartOfItself
  <2> DEFINE v == Tail(u)
  <2>5. v \in Seq(AxSigns) /\ PartOf(AxMarks, v, u)
    BY <2>4
  <2> HIDE DEF v
  <2>6. PartOf(AxMarks, t \o v, t \o u) /\ t \o v \in Seq(AxSigns)
    BY <2>2, <2>4, <2>5, PartsOfBoth
  <2> QED
    BY <2>2, <2>3, <2>6 DEF v
<1>3. ASSUME NEW x \in AxPlain, NEW i \in 1 .. Len(s) + 1
      PROVE  A!InsertAt(s, i, x) \in Seq(AxSigns) /\ PartOf(AxMarks, A!InsertAt(s, i, x), s)
  <2> DEFINE t == SubSeq(s, 1, i - 1)
             u == SubSeq(s, i, Len(s))
             o == <<x>>
  <2>1. t \in Seq(AxSigns) /\ u \in Seq(AxSigns) /\ s = t \o u
    BY CutInTwo
  <2>2. A!InsertAt(s, i, x) = (t \o o) \o u
    BY DEF A!InsertAt
  <2> HIDE DEF t, u
  <2>3. o \in Seq(AxSigns) /\ x \notin AxMarks
    BY AxMarkIsNotPlain DEF AxSigns, AxMarks, AxMark
  <2>4. NoMark(AxMarks, o)
    BY <2>3 DEF NoMark
  <2>5. PartOf(AxMarks, o, << >>) /\ PartOf(AxMarks, t, t) /\ PartOf(AxMarks, u, u)
    BY <2>1, <2>4, NoMarkIsPart, PartOfItself
  <2>6. t \o o \in Seq(AxSigns) /\ t \o << >> = t /\ << >> \in Seq(AxSigns)
    BY <2>1, <2>3
  <2>7. PartOf(AxMarks, t \o o, t)
    <3>1. PartOf(AxMarks, t \o o, t \o << >>)
      BY <2>1, <2>3, <2>5, <2>6, PartsOfBoth
    <3> QED
      BY <2>6, <3>1
  <2> DEFINE q == t \o o
  <2>8. q \in Seq(AxSigns) /\ PartOf(AxMarks, q, t)
    BY <2>6, <2>7
  <2> HIDE DEF q
  <2>9. PartOf(AxMarks, q \o u, t \o u) /\ q \o u \in Seq(AxSigns)
    BY <2>1, <2>5, <2>8, PartsOfBoth
  <2> QED
    BY <2>1, <2>2, <2>9 DEF q
<1> QED
  BY <1>2, <1>3

(* The line, the illegal frames and the receiver, a frame handed over      *)
(* excepted.                                                               *)
AxMoves ==
  \/ \E n \in 0 .. MaxRpt + 1 : A!SendIllegal(n)
  \/ A!Lose \/ A!Add
  \/ A!PollFlag \/ A!PollReset \/ A!PollEsc \/ A!PollByte \/ A!ReadInvalid

LEMMA AxMovesKeep ==
  ASSUME AxInv, AxMoves
  PROVE  AxInv' /\ UNCHANGED <<sent, got>>
<1> USE DEF A!lineVars, A!rxVars, A!histVars
<1>1. line \in Seq(AxSigns) /\ buf \in Seq(AxSigns) /\ AxFound
  BY DEF AxInv, AxType
<1>2. /\ \A s \in Seq(AxSigns) : PartOf(AxMarks, s, s) /\ PartOf(AxMarks, << >>, s)
      /\ << >> \in Seq(AxSigns)
  BY PartOfItself
<1>3. \A s \in Seq(AxSigns) : s # << >> =>
        /\ Tail(s) \in Seq(AxSigns) /\ Head(s) \in AxSigns /\ s = <<Head(s)>> \o Tail(s)
        /\ PartOf(AxMarks, Tail(s), s)
  BY FirstOfQueue
<1>4. ASSUME AxFound', buf' \in Seq(AxSigns), line' \in Seq(AxSigns), UNCHANGED <<sent, got>>,
             PartOf(AxMarks, buf', buf), PartOf(AxMarks, line', line)
      PROVE  AxInv' /\ UNCHANGED <<sent, got>>
  BY <1>4, AxParts DEF AxInv
<1>5. ASSUME UNCHANGED <<buf, frmRecv>> \/ frmRecv' = FALSE PROVE AxFound'
  BY <1>1, <1>5 DEF AxFound, A!CrcCorrect
<1>6. ASSUME NEW n \in 0 .. MaxRpt + 1, A!SendIllegal(n) PROVE AxInv' /\ UNCHANGED <<sent, got>>
  <2> DEFINE o == <<A!Flag>>
             p == [i \in 1 .. n |-> A!Addr(FALSE)]
  <2>1. line' = (line \o o) \o p /\ UNCHANGED <<buf, frmRecv, sent, got>>
    BY <1>6 DEF A!SendIllegal
  <2>2. A!Flag \in AxSigns /\ A!Addr(FALSE) \in AxSigns /\ A!Flag \notin AxMarks /\ A!Addr(FALSE) \notin AxMarks
    <3>1. A!Flag \in AxPlain /\ A!Addr(FALSE) \in AxPlain
      BY DEF AxPlain, A!Special
    <3> QED
      BY <3>1, AxMarkIsNotPlain DEF AxSigns, AxMarks, AxMark
  <2>3. n \in Nat
    BY LinkAssumptions DEF A!Ax25Assumption
  <2>4. o \in Seq(AxSigns) /\ p \in Seq(AxSigns) /\ NoMark(AxMarks, o) /\ NoMark(AxMarks, p)
    <3>1. o \in Seq(AxSigns) /\ NoMark(AxMarks, o)
      BY <2>2 DEF NoMark
    <3>2. /\ p \in Seq(AxSigns) /\ Len(p) = n
          /\ \A i \in 1 .. n : p[i] = A!Addr(FALSE)
      <4> DEFINE a == A!Addr(FALSE)
      <4>1. p = [i \in 1 .. n |-> a] /\ a \in AxSigns
        BY <2>2
      <4> HIDE DEF a, p
      <4>2. p \in [1 .. n -> AxSigns] /\ \A i \in 1 .. n : p[i] = a
        BY <4>1
      <4>3. p \in Seq(AxSigns) /\ Len(p) = n
        BY <2>3, <4>2
      <4> QED
        BY <4>2, <4>3 DEF a
    <3> HIDE DEF p
    <3>3. NoMark(AxMarks, p)
      BY <2>2, <3>2 DEF NoMark
    <3> QED
      BY <3>1, <3>2, <3>3
  <2> HIDE DEF o, p
  <2> DEFINE q == o \o p
  <2>5. q \in Seq(AxSigns) /\ NoMark(AxMarks, q)
    BY <2>4, OneMarkBetween
  <2>6. line' = line \o q /\ line = line \o << >>
    <3>1. (line \o o) \o p = line \o (o \o p)
      <4>1. line \in Seq(AxSigns) /\ o \in Seq(AxSigns) /\ p \in Seq(AxSigns)
        BY <1>1, <2>4
      <4> QED
        BY <4>1, ConcatAssociative
    <3>2. line = line \o << >>
      BY <1>1
    <3> QED
      BY <2>1, <3>1, <3>2 DEF q
  <2> HIDE DEF q
  <2>7. PartOf(AxMarks, q, << >>) /\ PartOf(AxMarks, line, line)
    BY <1>1, <1>2, <2>5, NoMarkIsPart
  <2>8. PartOf(AxMarks, line \o q, line \o << >>) /\ line \o q \in Seq(AxSigns)
    <3>1. line \in Seq(AxSigns) /\ << >> \in Seq(AxSigns) /\ q \in Seq(AxSigns)
      BY <1>1, <1>2, <2>5
    <3>2. PartOf(AxMarks, line \o q, line \o << >>)
      BY <2>7, <3>1, PartsOfBoth
    <3> QED
      BY <3>1, <3>2
  <2>9. PartOf(AxMarks, line', line) /\ line' \in Seq(AxSigns)
    BY <2>6, <2>8
  <2> QED
    BY <1>1, <1>2, <1>4, <1>5, <2>1, <2>9
<1>7. CASE A!Lose
  <2>1. PICK i \in 1 .. Len(line) : line' = A!RemoveAt(line, i)
    BY <1>7 DEF A!Lose
  <2>2. UNCHANGED <<buf, frmRecv, sent, got>>
    BY <1>7 DEF A!Lose, A!Fault
  <2>3. line' \in Seq(AxSigns) /\ PartOf(AxMarks, line', line)
    BY <1>1, <2>1, LineSuffers
  <2> QED
    BY <1>1, <1>2, <1>4, <1>5, <2>2, <2>3
<1>8. CASE A!Add
  <2>1. PICK x \in Noise, i \in 1 .. Len(line) + 1 : line' = A!InsertAt(line, i, x)
    BY <1>8 DEF A!Add
  <2>2. x \in AxPlain
    BY LinkAssumptions, AxMarkIsNotPlain DEF A!Ax25Assumption
  <2>3. UNCHANGED <<buf, frmRecv, sent, got>>
    BY <1>8 DEF A!Add, A!Fault
  <2>4. line' \in Seq(AxSigns) /\ PartOf(AxMarks, line', line)
    BY <1>1, <2>1, <2>2, LineSuffers
  <2> QED
    BY <1>1, <1>2, <1>4, <1>5, <2>3, <2>4
<1>9. ASSUME A!Poll PROVE ~ frmRecv /\ line' = Tail(line) /\ line' \in Seq(AxSigns) /\ PartOf(AxMarks, line', line)
  BY <1>1, <1>3, <1>9 DEF A!Poll
<1>10. CASE A!PollFlag
  <2>1. A!Poll /\ UNCHANGED <<sent, got>>
    BY <1>10 DEF A!PollFlag
  <2>2. CASE Len(buf) >= A!MinLen /\ A!CrcCorrect
    <3>1. frmRecv' = TRUE /\ UNCHANGED buf
      BY <1>10, <2>2 DEF A!PollFlag
    <3>2. AxFound'
      BY <2>2, <3>1 DEF AxFound, A!CrcCorrect, A!MinLen
    <3> QED
      BY <1>1, <1>2, <1>4, <1>9, <2>1, <3>1, <3>2
  <2>3. CASE ~ (Len(buf) >= A!MinLen /\ A!CrcCorrect)
    <3>1. buf' = << >> /\ frmRecv' = frmRecv
      BY <1>10, <2>3 DEF A!PollFlag
    <3>2. AxFound'
      BY <1>9, <2>1, <3>1 DEF AxFound
    <3> QED
      BY <1>1, <1>2, <1>4, <1>9, <2>1, <3>1, <3>2
  <2> QED
    BY <2>2, <2>3
<1>11. CASE A!PollReset \/ A!PollEsc
  <2>1. A!Poll /\ UNCHANGED <<buf, frmRecv, sent, got>>
    BY <1>11 DEF A!PollReset, A!PollEsc
  <2> QED
    BY <1>1, <1>2, <1>4, <1>5, <1>9, <2>1
<1>12. CASE A!ReadInvalid
  <2>1. buf' = << >> /\ frmRecv' = FALSE /\ UNCHANGED <<line, sent, got>>
    BY <1>12 DEF A!ReadInvalid, A!Forget
  <2> QED
    BY <1>1, <1>2, <1>4, <1>5, <2>1
<1>13. CASE A!PollByte
  <2>1. A!Poll /\ UNCHANGED <<frmRecv, sent, got>>
    BY <1>13 DEF A!PollByte
  <2>2. AxFound'
    BY <1>9, <2>1 DEF AxFound
  <2>3. CASE ~ (sync /\ Len(buf) < BufLen)
    <3>1. UNCHANGED buf
      BY <1>13, <2>3 DEF A!PollByte
    <3> QED
      BY <1>1, <1>2, <1>4, <1>9, <2>1, <2>2, <3>1
  <2>4. CASE sync /\ Len(buf) < BufLen
    <3>1. buf' = Append(buf, Head(line)) /\ line # << >> /\ line' = Tail(line)
      BY <1>13, <2>4 DEF A!PollByte, A!Poll
    <3> DEFINE h == Head(line)
               r == Tail(line)
    <3>2. h \in AxSigns /\ r \in Seq(AxSigns) /\ line = <<h>> \o r /\ buf' = Append(buf, h) /\ line' = r
      BY <1>1, <1>3, <3>1
    <3> HIDE DEF h, r
    <3>3. /\ <<h>> \in Seq(AxSigns) /\ Append(buf, h) = buf \o <<h>> /\ buf \o <<h>> \in Seq(AxSigns)
          /\ (buf \o <<h>>) \o r = buf \o (<<h>> \o r)
      BY <1>1, <3>2
    <3>4. buf' \in Seq(AxSigns) /\ line' \in Seq(AxSigns) /\ AxWay' = AxWay
      BY <3>2, <3>3 DEF AxWay
    <3>5. AxWritten' = AxWritten /\ NextGot' = NextGot
      BY <2>1 DEF AxWritten, NextGot
    <3>6. AxType'
      BY <2>1, <3>4, <3>5 DEF AxInv, AxType
    <3> QED
      BY <2>1, <2>2, <3>4, <3>5, <3>6 DEF AxInv
  <2> QED
    BY <2>3, <2>4
<1> QED
  BY <1>6, <1>7, <1>8, <1>10, <1>11, <1>12, <1>13 DEF AxMoves

(* iAx25Send: a frame is sent. *)
LEMMA AxSends ==
  ASSUME AxInv, NEW c \in Contents, A!Send(c)
  PROVE  AxInv' /\ A!Link!Next
<1> USE DEF A!lineVars, A!rxVars
<1> DEFINE j == Len(sent) + 1
           f == A!Numbered(j, c)
           e == A!Encode(f)
<1>1. /\ Len(sent) \in Nat /\ sent \in Seq(A!Frame) /\ got \in Seq(A!Frame)
      /\ line \in Seq(AxSigns) /\ buf \in Seq(AxSigns) /\ NextGot \in 1 .. Len(sent) + 1
      /\ \A k \in 1 .. Len(sent) : sent[k].n = k
  BY DEF AxInv, AxType
<1>2. /\ Len(sent) < MaxFrames /\ MaxFrames \in Nat
      /\ line' = line \o e /\ sent' = Append(sent, f) /\ UNCHANGED <<buf, frmRecv, got>>
  BY LinkAssumptions DEF A!Send, A!Room, A!Ax25Assumption
<1>3. j \in 1 .. MaxFrames /\ f \in A!Frame /\ f.n = j
  <2>1. j \in 1 .. MaxFrames
    BY <1>1, <1>2
  <2>2. f = [n |-> j, rpt |-> c.rpt, ui |-> c.ui, info |-> c.info]
    BY DEF A!Numbered
  <2>3. f \in A!Frame
    BY <2>1 DEF A!Frame
  <2> QED
    BY <2>1, <2>2, <2>3
<1>4. e \in Seq(AxSigns) /\ OneMark(AxMarks, e, AxMark(f))
  BY <1>3, FrameHasItsMark
<1> DEFINE x == f
<1>5. x \in A!Frame /\ x.n = j /\ sent' = Append(sent, x) /\ j = Len(sent) + 1
  BY <1>2, <1>3
<1>6. A!Link!Next
  BY <1>2, <1>3 DEF A!Link!Next, A!Link!Send
<1> HIDE DEF e, f, j
<1>7. /\ sent' \in Seq(A!Frame) /\ Len(sent') = j /\ sent'[j] = x
      /\ \A k \in 1 .. Len(sent) : sent'[k] = sent[k]
      /\ \A k \in 1 .. Len(sent') : k \in 1 .. Len(sent) \/ k = j
  BY <1>1, <1>5
<1>8. \A k \in 1 .. Len(sent') : sent'[k].n = k
  BY <1>1, <1>5, <1>7
<1>9. NextGot' = NextGot /\ AxFound'
  BY <1>2 DEF NextGot, AxFound, A!CrcCorrect, AxInv
<1>10. line' \in Seq(AxSigns) /\ AxWay' = AxWay \o e /\ AxWay \in Seq(AxSigns)
  <2>1. line \o e \in Seq(AxSigns) /\ buf \o line \in Seq(AxSigns)
    BY <1>1, <1>4
  <2>2. buf \o (line \o e) = (buf \o line) \o e
    <3>1. buf \in Seq(AxSigns) /\ line \in Seq(AxSigns) /\ e \in Seq(AxSigns)
      BY <1>1, <1>4
    <3> QED
      BY <3>1, ConcatAssociative
  <2> QED
    BY <1>2, <2>1, <2>2 DEF AxWay
<1>11. AxType'
  <2>1. NextGot' \in 1 .. Len(sent') + 1
    BY <1>1, <1>5, <1>7, <1>9
  <2> QED
    BY <1>1, <1>2, <1>7, <1>8, <1>10, <2>1 DEF AxType
<1>12. /\ AxWritten \in Seq(AxMarks) /\ Len(AxWritten) = Len(sent)
       /\ \A k \in 1 .. Len(sent) : AxWritten[k] = AxMark(sent[k])
       /\ InOrder(AxMarks, AxWay, AxWritten, NextGot)
  BY MarksOfSent DEF AxInv
<1>13. AxMark(x) \in AxMarks /\ \A k \in 1 .. Len(AxWritten) : AxWritten[k] # AxMark(x)
  <2>1. AxMark(x) \in AxMarks
    BY <1>5 DEF AxMarks
  <2>2. ASSUME NEW k \in 1 .. Len(AxWritten), AxWritten[k] = AxMark(x) PROVE FALSE
    <3>1. A!Crc(A!Body(sent[k])) = A!Crc(A!Body(x)) /\ sent[k] \in A!Frame
      BY <1>1, <1>12, <2>2 DEF AxMark
    <3>2. A!Body(sent[k]) = A!Body(x)
      BY <3>1, AxMarkIsNotPlain
    <3>3. sent[k].n = x.n
      BY <1>5, <3>1, <3>2, BodyIsOfOneFrame
    <3> QED
      BY <1>1, <1>5, <1>12, <3>3
  <2> QED
    BY <2>1, <2>2
<1>14. AxWritten' = Append(AxWritten, AxMark(x))
  <2> DEFINE v == Append(AxWritten, AxMark(x))
  <2>1. v = [k \in 1 .. j |-> IF k \in 1 .. Len(sent) THEN AxWritten[k] ELSE AxMark(x)]
    <3> DEFINE y == AxMark(x)
               l == Len(sent)
    <3>1. AxWritten \in Seq(AxMarks) /\ y \in AxMarks /\ Len(AxWritten) = l /\ j = l + 1 /\ l \in Nat
      BY <1>1, <1>5, <1>12, <1>13
    <3> HIDE DEF l, y, v
    <3> DEFINE u == Append(AxWritten, y)
    <3>2. /\ u \in Seq(AxMarks) /\ Len(u) = l + 1 /\ u[l + 1] = y
          /\ \A k \in 1 .. l : u[k] = AxWritten[k]
      BY <3>1
    <3> HIDE DEF u
    <3>3. u = [k \in 1 .. l + 1 |-> u[k]]
      BY <3>1, <3>2
    <3>4. ASSUME NEW k \in 1 .. l + 1 PROVE u[k] = IF k \in 1 .. l THEN AxWritten[k] ELSE y
      BY <3>1, <3>2
    <3>5. Append(AxWritten, y) = [k \in 1 .. j |-> IF k \in 1 .. l THEN AxWritten[k] ELSE y]
      BY <3>1, <3>3, <3>4 DEF u
    <3> QED
      BY <3>5 DEF v, y, l
  <2>2. AxWritten' = [k \in 1 .. j |-> AxMark(sent'[k])]
    BY <1>7 DEF AxWritten
  <2>3. ASSUME NEW k \in 1 .. j
        PROVE  AxMark(sent'[k]) = IF k \in 1 .. Len(sent) THEN AxWritten[k] ELSE AxMark(x)
    BY <1>7, <1>12
  <2> HIDE DEF v
  <2> QED
    BY <2>1, <2>2, <2>3 DEF v
<1>15. NextGot \in Nat /\ NextGot <= Len(AxWritten) + 1
  BY <1>1, <1>12
<1>16. InOrder(AxMarks, AxWay', AxWritten', NextGot')
  <2>1. OneMark(AxMarks, e, AxMark(x))
    BY <1>4
  <2>2. InOrder(AxMarks, AxWay \o e, Append(AxWritten, AxMark(x)), NextGot)
    BY <1>4, <1>10, <1>12, <1>13, <1>15, <2>1, SentLast
  <2> QED
    BY <1>9, <1>10, <1>14, <2>2
<1> QED
  BY <1>6, <1>9, <1>11, <1>16 DEF AxInv

(* iAx25Read: a frame is handed over. *)
LEMMA AxReads ==
  ASSUME AxInv, A!Read
  PROVE  AxInv' /\ A!Link!Next
<1>1. /\ frmRecv /\ A!Decodable /\ got' = Append(got, A!Decoded) /\ UNCHANGED <<line, sent>>
      /\ buf' = << >> /\ frmRecv' = FALSE
  BY DEF A!Read, A!Forget, A!lineVars
<1>2. /\ AxType /\ Len(sent) \in Nat /\ sent \in Seq(A!Frame) /\ got \in Seq(A!Frame)
      /\ line \in Seq(AxSigns) /\ buf \in Seq(AxSigns) /\ NextGot \in 1 .. Len(sent) + 1
      /\ \A k \in 1 .. Len(sent) : sent[k] \in A!Frame /\ sent[k].n = k
      /\ InOrder(AxMarks, AxWay, AxWritten, NextGot)
  BY DEF AxInv, AxType
<1>3. Len(buf) >= 5 /\ A!Last(buf) = A!Crc(A!Front(buf))
  BY <1>1 DEF AxInv, AxFound, A!MinLen, A!CrcCorrect
<1>4. /\ Len(buf) \in 1 .. Len(buf) /\ Len(buf) > 0 /\ A!Last(buf) = buf[Len(buf)] /\ A!Last(buf) \in AxSigns
  <2>1. Len(buf) > 0
    BY <1>2, <1>3
  <2> QED
    BY <1>2, <2>1, FrontAndLast
<1>5. buf[Len(buf)] \in AxMarks
  BY <1>3, <1>4, AxMarkIsNotPlain DEF AxSigns
<1>6. /\ AxWritten \in Seq(AxMarks) /\ Len(AxWritten) = Len(sent) /\ Distinct(AxWritten)
      /\ \A k \in 1 .. Len(sent) : AxWritten[k] = AxMark(sent[k])
  BY <1>2, MarksOfSent
<1>7. PICK j \in 1 .. Len(AxWritten) :
        AxWritten[j] = buf[Len(buf)] /\ NextGot <= j /\ InOrder(AxMarks, line, AxWritten, j + 1)
  <2>1. NextGot \in Nat /\ InOrder(AxMarks, buf \o line, AxWritten, NextGot)
    BY <1>2 DEF AxWay
  <2>2. PICK k : k = Len(buf)
    OBVIOUS
  <2>3. k \in 1 .. Len(buf) /\ buf[k] \in AxMarks
    BY <1>4, <1>5, <2>2
  <2>4. buf \in Seq(AxSigns) /\ line \in Seq(AxSigns) /\ AxWritten \in Seq(AxMarks) /\ Distinct(AxWritten)
    BY <1>2, <1>6
  <2>5. \E j \in 1 .. Len(AxWritten) :
          AxWritten[j] = buf[k] /\ NextGot <= j /\ InOrder(AxMarks, line, AxWritten, j + 1)
    BY <2>1, <2>3, <2>4, AfterTheMark
  <2> QED
    BY <2>2, <2>5
<1>8. j \in 1 .. Len(sent) /\ sent[j] \in A!Frame /\ sent[j].n = j /\ A!Front(buf) = A!Body(sent[j])
  <2>1. j \in 1 .. Len(sent) /\ sent[j] \in A!Frame /\ sent[j].n = j
    BY <1>2, <1>6, <1>7
  <2>2. A!Crc(A!Body(sent[j])) = A!Crc(A!Front(buf))
    BY <1>3, <1>4, <1>6, <1>7, <2>1 DEF AxMark
  <2> QED
    BY <2>1, <2>2, AxMarkIsNotPlain
<1>9. A!Decoded = sent[j]
  BY <1>1, <1>2, <1>4, <1>8, DecodedIsTheFrame
<1>10. /\ got' \in Seq(A!Frame) /\ NextGot' = j + 1 /\ NextGot' \in 1 .. Len(sent) + 1
  <2> DEFINE x == sent[j]
  <2>1. x \in A!Frame /\ x.n = j /\ got' = Append(got, x) /\ got \in Seq(A!Frame)
    BY <1>1, <1>2, <1>8, <1>9
  <2> HIDE DEF x
  <2>2. Append(got, x) \in Seq(A!Frame) /\ Append(got, x) # << >> /\ Append(got, x)[Len(Append(got, x))] = x
    BY <2>1
  <2>3. A!Last(got') = x
    BY <2>1, <2>2 DEF A!Last
  <2>4. got' \in Seq(A!Frame) /\ got' # << >>
    BY <2>1, <2>2
  <2>5. NextGot' = A!Last(got').n + 1
    BY <2>4 DEF NextGot
  <2>6. NextGot' = j + 1
    BY <2>1, <2>3, <2>5
  <2>7. j + 1 \in 1 .. Len(sent) + 1
    BY <1>2, <1>8
  <2> QED
    BY <2>4, <2>6, <2>7
<1>11. AxType' /\ AxFound'
  BY <1>1, <1>2, <1>10 DEF AxType, AxFound
<1>12. A!Link!Next
  <2>1. j \in NextGot .. Len(sent)
    BY <1>2, <1>7, <1>8
  <2>2. A!Link!Deliver(j)
    BY <1>1, <1>9, <1>10 DEF A!Link!Deliver, NextGot
  <2> QED
    BY <2>1, <2>2 DEF A!Link!Next, NextGot
<1>13. AxWay' = line /\ AxWritten' = AxWritten
  <2>1. << >> \o line = line
    BY <1>2
  <2> QED
    BY <1>1, <2>1 DEF AxWay, AxWritten
<1>14. InOrder(AxMarks, AxWay', AxWritten', NextGot')
  BY <1>7, <1>10, <1>13
<1> QED
  BY <1>11, <1>12, <1>14 DEF AxInv

LEMMA AxStep == AxInv /\ [A!Next]_(A!vars) => AxInv' /\ [A!Link!Next]_<<sent, got, NextGot>>
<1> SUFFICES ASSUME AxInv, [A!Next]_(A!vars)
             PROVE  AxInv' /\ [A!Link!Next]_<<sent, got, NextGot>>
  OBVIOUS
<1>1. CASE \E c \in Contents : A!Send(c)
  BY <1>1, AxSends
<1>2. CASE AxMoves
  BY <1>2, AxMovesKeep DEF NextGot
<1>3. CASE A!Read
  BY <1>3, AxReads
<1>4. CASE UNCHANGED A!vars
  BY <1>4 DEF A!vars, A!lineVars, A!rxVars, A!histVars, AxInv, AxType, AxFound, AxWay, AxWritten, NextGot, A!CrcCorrect
<1> QED
  BY <1>1, <1>2, <1>3, <1>4 DEF A!Next, A!Receive, AxMoves

(* AX.25: what iAx25Read hands over was sent by iAx25Send, unaltered, in   *)
(* order and once, whatever the line loses and adds.                       *)
THEOREM Ax25KeepsLink == A!Spec => A!LinkSpec
<1>1. A!Init => AxInv /\ A!Link!Init
  BY AxInit
<1>2. AxInv /\ [A!Next]_(A!vars) => AxInv'
  BY AxStep
<1>3. AxInv /\ [A!Next]_(A!vars) => [A!Link!Next]_<<sent, got, NextGot>>
  BY AxStep
<1>4. A!Spec => A!Link!Init /\ [][A!Link!Next]_<<sent, got, NextGot>>
  BY <1>1, <1>2, <1>3, PTL DEF A!Spec
<1> QED
  BY <1>4 DEF A!LinkSpec, A!Link!Spec, NextGot

(* LinksKept: both links of libsysio-radio hand over what was sent,        *)
(* unaltered, in order and once (bAx25Poll and iAx25Read, iTncPoll).       *)
THEOREM LinksAreKept == A!Spec /\ T!Spec => LinksKept
  BY Ax25KeepsLink, TncKeepsLink DEF LinksKept
=============================================================================
