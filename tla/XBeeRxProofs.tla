---------------------------- MODULE XBeeRxProofs ----------------------------
(***************************************************************************)
(* Whatever the line delivers and whatever fails (every set of faults, any *)
(* base, any size of packet), vXBeeIn stores no byte outside the packet    *)
(* under construction.  The invariant that makes it inductive, BuildInv,   *)
(* relates the two counters of the receive context to the size of the      *)
(* block that was allocated.                                               *)
(*                                                                         *)
(* When the lengths are good and malloc does not fail, the packet that is  *)
(* checked is its own (PacketInv); with noise and bad check sums only, the *)
(* packets are handed over as they were sent, in order (StreamInv).        *)
(***************************************************************************)
EXTENDS XBeeRx, TLAPS

(* Between two bytes of the body the block holds what was received and has *)
(* room for exactly what is left.                                          *)
BuildInv ==
  pc \in {"idle", "in"} /\ rcvd >= 3 /\ left > 0 =>
    packet \in live /\ rcvd + left = cap[packet]

(* vXBeeIn takes a byte only while its argument len is not 0. *)
LenInv == pc = "in" => len # 0


(* A sum below the base is not reduced; a reduced one is a byte. *)
LEMMA ModFacts ==
  /\ \A x \in Nat : x % Base \in Byte
  /\ \A x \in Nat : x < Base => x % Base = x
BY ByteAssumption DEF Byte

(* What a poll reads, and the sizes that a length byte leads to. *)
LEMMA ByteFacts ==
  /\ 0 \in Byte /\ 1 \in Byte /\ 2 \in Byte /\ 3 \in Byte /\ Base - 1 \in Byte
  /\ \A b \in Byte : b \in Nat /\ b < Base
  /\ \A b \in Byte : b <= MaxData => b + 1 \in Byte /\ b + 4 \in 0 .. MaxData + 4
BY ByteAssumption DEF Byte

(* Every step keeps the types. *)
LEMMA TypeStep ==
  TypeOK /\ LenInv /\ [Next]_vars => TypeOK'
<1> SUFFICES ASSUME TypeOK, LenInv, [Next]_vars
             PROVE  TypeOK'
  OBVIOUS
<1> USE ByteFacts DEF TypeOK, LenInv, vars, inVars, heapVars
<1>1. CASE \E p \in Payload : SendPacket(p)
  BY <1>1 DEF SendPacket, Put
<1>2. CASE Corrupt
  BY <1>2 DEF Corrupt, Put
<1>3. CASE \E n \in 1 .. MaxChunk : iXBeePoll(n)
  BY <1>3 DEF iXBeePoll
<1>4. CASE InStart
  BY <1>4 DEF InStart, Consume, Data
<1>5. CASE InLengthHigh
  BY <1>5 DEF InLengthHigh, Consume, Data
<1>6. CASE InLengthLow
  BY <1>6 DEF InLengthLow, Consume, Data
<1>7. CASE InLengthRejected
  BY <1>7 DEF InLengthRejected, Data
<1>8. CASE InBody
  <2>1. rcvd + 1 \in Nat
    BY <1>8, ByteAssumption DEF InBody, Byte
  <2>2. rcvd' \in Byte
    BY <1>8, <2>1, ModFacts DEF InBody
  <2>3. left' \in Byte
    BY <1>8, ByteAssumption DEF InBody, Byte
  <2> QED BY <1>8, <2>2, <2>3 DEF InBody
<1>9. CASE InNoBody
  BY <1>9 DEF InNoBody
<1>10. CASE CheckFailed
  BY <1>10 DEF CheckFailed, Resume
<1>11. CASE CheckPassed
  BY <1>11 DEF CheckPassed
<1>12. CASE HandlerReturn
  BY <1>12 DEF HandlerReturn, Resume
<1>13. CASE Drop
  BY <1>13 DEF Drop, Resume
<1>14. CASE UNCHANGED vars
  BY <1>14 DEF vars
<1> QED
  BY <1>1, <1>2, <1>3, <1>4, <1>5, <1>6, <1>7, <1>8, <1>9, <1>10, <1>11, <1>12, <1>13, <1>14
  DEF Next, vXBeeIn

(* Every step that goes on has a byte left to take. *)
LEMMA LenStep ==
  TypeOK /\ LenInv /\ [Next]_vars => LenInv'
<1> SUFFICES ASSUME TypeOK, LenInv, [Next]_vars
             PROVE  LenInv'
  OBVIOUS
<1> USE ByteFacts DEF TypeOK, LenInv, vars, inVars, heapVars
<1>1. CASE \E p \in Payload : SendPacket(p)
  BY <1>1 DEF SendPacket, Put
<1>2. CASE Corrupt
  BY <1>2 DEF Corrupt, Put
<1>3. CASE \E n \in 1 .. MaxChunk : iXBeePoll(n)
  BY <1>3 DEF iXBeePoll
<1>4. CASE InStart
  BY <1>4 DEF InStart, Consume, Data
<1>5. CASE InLengthHigh
  BY <1>5 DEF InLengthHigh, Consume, Data
<1>6. CASE InLengthLow
  BY <1>6 DEF InLengthLow, Consume, Data
<1>7. CASE InLengthRejected
  BY <1>7 DEF InLengthRejected, Data
<1>8. CASE InBody
  BY <1>8 DEF InBody
<1>9. CASE InNoBody
  BY <1>9 DEF InNoBody
<1>10. CASE CheckFailed
  BY <1>10 DEF CheckFailed, Resume
<1>11. CASE CheckPassed
  BY <1>11 DEF CheckPassed
<1>12. CASE HandlerReturn
  BY <1>12 DEF HandlerReturn, Resume
<1>13. CASE Drop
  BY <1>13 DEF Drop, Resume
<1>14. CASE UNCHANGED vars
  BY <1>14 DEF vars
<1> QED
  BY <1>1, <1>2, <1>3, <1>4, <1>5, <1>6, <1>7, <1>8, <1>9, <1>10, <1>11, <1>12, <1>13, <1>14
  DEF Next, vXBeeIn

(* Every step keeps the counters and the block in agreement. *)
LEMMA BuildStep ==
  TypeOK /\ BuildInv /\ [Next]_vars => BuildInv'
<1> SUFFICES ASSUME TypeOK, BuildInv, [Next]_vars
             PROVE  BuildInv'
  OBVIOUS
<1> USE ByteFacts DEF TypeOK, BuildInv, vars, inVars, heapVars
<1>1. CASE \E p \in Payload : SendPacket(p)
  BY <1>1 DEF SendPacket, Put
<1>2. CASE Corrupt
  <2>1. UNCHANGED <<inVars, heapVars, pc>>
    BY <1>2 DEF Corrupt, Put
  <2> QED BY <2>1
<1>3. CASE \E n \in 1 .. MaxChunk : iXBeePoll(n)
  BY <1>3 DEF iXBeePoll
<1>4. CASE InStart
  BY <1>4 DEF InStart, Consume, Data
<1>5. CASE InLengthHigh
  BY <1>5 DEF InLengthHigh, Consume, Data
<1>6. CASE InLengthLow
  BY <1>6 DEF InLengthLow, Consume, Data
<1>7. CASE InLengthRejected
  BY <1>7 DEF InLengthRejected, Data
<1>8. CASE InBody
  <2>1. CASE left = 1
    BY <1>8, <2>1 DEF InBody
  <2>2. CASE left # 1
    <3>1. left > 1 /\ packet \in live /\ rcvd + left = cap[packet] /\ cap[packet] \in 0 .. MaxData + 4
      BY <1>8, <2>2 DEF InBody
    <3>2. rcvd + 1 \in Nat /\ rcvd + 1 < Base /\ left - 1 \in Nat /\ left - 1 < Base
      BY <3>1, ByteAssumption
    <3>3. rcvd' = rcvd + 1 /\ left' = left - 1
      BY <1>8, <2>2, <3>2, ModFacts DEF InBody
    <3> QED BY <1>8, <3>1, <3>3 DEF InBody
  <2> QED BY <2>1, <2>2
<1>9. CASE InNoBody
  BY <1>9 DEF InNoBody
<1>10. CASE CheckFailed
  BY <1>10 DEF CheckFailed, Resume
<1>11. CASE CheckPassed
  BY <1>11 DEF CheckPassed
<1>12. CASE HandlerReturn
  BY <1>12 DEF HandlerReturn, Resume
<1>13. CASE Drop
  BY <1>13 DEF Drop, Resume
<1>14. CASE UNCHANGED vars
  BY <1>14 DEF vars
<1> QED
  BY <1>1, <1>2, <1>3, <1>4, <1>5, <1>6, <1>7, <1>8, <1>9, <1>10, <1>11, <1>12, <1>13, <1>14
  DEF Next, vXBeeIn

(* While a handler runs, the packet that it took is not allocated, and     *)
(* outside the body every block is the one of a bad packet.                *)
OwnInv == (pc = "handler" => packet \notin live) /\ NoLeak

(* Every step keeps the ownership of blocks. *)
LEMMA OwnStep ==
  TypeOK /\ BuildInv /\ OwnInv /\ [Next]_vars => OwnInv'
<1> SUFFICES ASSUME TypeOK, BuildInv, OwnInv, [Next]_vars
             PROVE  OwnInv'
  OBVIOUS
<1> USE DEF TypeOK, OwnInv, NoLeak, vars, inVars, heapVars
<1>1. CASE \E p \in Payload : SendPacket(p)
  BY <1>1 DEF SendPacket, Put
<1>2. CASE Corrupt
  <2>1. UNCHANGED <<inVars, heapVars, pc>>
    BY <1>2 DEF Corrupt, Put
  <2> QED BY <2>1
<1>3. CASE \E n \in 1 .. MaxChunk : iXBeePoll(n)
  BY <1>3 DEF iXBeePoll
<1>4. CASE InStart
  BY <1>4, ByteFacts DEF InStart, Consume, Data
<1>5. CASE InLengthHigh
  BY <1>5 DEF InLengthHigh, Consume, Data
<1>6. CASE InLengthLow
  BY <1>6 DEF InLengthLow, Consume, Data
<1>7. CASE InLengthRejected
  BY <1>7 DEF InLengthRejected, Data
<1>8. CASE InBody
  <2>1. packet \in live /\ rcvd + left = cap[packet] /\ cap[packet] \in 0 .. MaxData + 4 /\ rcvd >= 3 /\ left > 0
    BY <1>8 DEF InBody, BuildInv
  <2>2. rcvd \in Nat /\ left \in Nat
    BY ByteFacts
  <2>3. rcvd + 1 \in Nat /\ rcvd + 1 < Base
    BY <2>1, <2>2, ByteAssumption
  <2>4. rcvd' = rcvd + 1
    BY <1>8, <2>3, ModFacts DEF InBody
  <2>5. UNCHANGED <<packet, live, bad>> /\ pc' # "handler"
    BY <1>8 DEF InBody
  <2>6. rcvd' >= 3
    BY <2>1, <2>2, <2>4
  <2> QED BY <2>1, <2>5, <2>6
<1>9. CASE InNoBody
  BY <1>9 DEF InNoBody
<1>10. CASE CheckFailed
  BY <1>10, ByteFacts DEF CheckFailed, Resume
<1>11. CASE CheckPassed
  BY <1>11 DEF CheckPassed
<1>12. CASE HandlerReturn
  BY <1>12 DEF HandlerReturn, Resume
<1>13. CASE Drop
  BY <1>13 DEF Drop, Resume
<1>14. CASE UNCHANGED vars
  BY <1>14 DEF vars
<1> QED
  BY <1>1, <1>2, <1>3, <1>4, <1>5, <1>6, <1>7, <1>8, <1>9, <1>10, <1>11, <1>12, <1>13, <1>14
  DEF Next, vXBeeIn

-----------------------------------------------------------------------------
(* What the line holds.  Without a wrong length, the bytes that were sent  *)
(* and not yet taken lead the receiver from the state it is in to the one  *)
(* where it waits for a start byte, through legal states only, and past    *)
(* the packets that were sent for a handler, in order.                     *)

(* What may be on the line; ucXBeeCrc is not looked into. *)
Mark == Byte \cup {ucXBeeCrc(p) : p \in Payload} \cup {(ucXBeeCrc(p) + 1) % Base : p \in Payload}

(* The states of a reception: "at" is 0, 1 and 2 as bytes_rcvd, then 2     *)
(* more than what is left; p and c are the payload and the check sum of    *)
(* the packet that comes; n counts the packets for a handler.              *)
Label == [at : Nat, p : Seq(Byte), c : Mark, n : Nat]
Home(n) == [at |-> 0, p |-> << >>, c |-> 0, n |-> n]

(* The packet is for a handler. *)
Good(p, c) == c = ucXBeeCrc(p) /\ p[1] \in Handled

(* With the byte b, from s to t, the packets for a handler being those of  *)
(* snt.                                                                    *)
Moves(snt, s, b, t) ==
  \/ s.at = 0 /\ b # Start /\ t = s
  \/ s.at = 0 /\ b = Start /\ t.at = 1 /\ t.n = s.n
  \/ s.at = 1 /\ b = 0 /\ t = [s EXCEPT !.at = 2]
  \/ s.at = 2 /\ b = Len(s.p) /\ b \in 1 .. MaxData /\ t = [s EXCEPT !.at = b + 3]
  \/ s.at > 3 /\ b = s.p[Len(s.p) + 4 - s.at] /\ t = [s EXCEPT !.at = s.at - 1]
  \/ s.at = 3 /\ b = s.c /\ IF Good(s.p, s.c) THEN s.n \in 1 .. Len(snt) /\ snt[s.n] = s.p /\ t = Home(s.n + 1)
                                              ELSE t = Home(s.n)

(* From its i-th byte on, q leads from s to t. *)
Leads(snt, q, i, s, t) ==
  \E lab \in [i .. Len(q) + 1 -> Label] :
    /\ lab[i] = s /\ lab[Len(q) + 1] = t
    /\ \A k \in i .. Len(q) : Moves(snt, lab[k], q[k], lab[k + 1])

(* No byte, no move. *)
LEMMA LeadsNowhere ==
  ASSUME NEW snt, NEW q \in Seq(Mark), NEW s \in Label
  PROVE  Leads(snt, q, Len(q) + 1, s, s)
<1> DEFINE lab == [k \in Len(q) + 1 .. Len(q) + 1 |-> s]
<1>1. lab \in [Len(q) + 1 .. Len(q) + 1 -> Label]
  OBVIOUS
<1>2. lab[Len(q) + 1] = s /\ \A k \in Len(q) + 1 .. Len(q) : FALSE
  OBVIOUS
<1> QED BY <1>1, <1>2 DEF Leads

(* ... and no move without a byte. *)
LEMMA LeadsStays ==
  ASSUME NEW snt, NEW q \in Seq(Mark), NEW s, NEW t, Leads(snt, q, Len(q) + 1, s, t)
  PROVE  s = t
BY DEF Leads

(* The first byte, then the others. *)
LEMMA LeadsStep ==
  ASSUME NEW snt, NEW q \in Seq(Mark), NEW i \in 1 .. Len(q), NEW s, NEW t, Leads(snt, q, i, s, t)
  PROVE  \E u \in Label : Moves(snt, s, q[i], u) /\ Leads(snt, q, i + 1, u, t)
<1>1. PICK lab \in [i .. Len(q) + 1 -> Label] :
        /\ lab[i] = s /\ lab[Len(q) + 1] = t
        /\ \A k \in i .. Len(q) : Moves(snt, lab[k], q[k], lab[k + 1])
  BY DEF Leads
<1> DEFINE rest == [k \in i + 1 .. Len(q) + 1 |-> lab[k]]
<1>2. rest \in [i + 1 .. Len(q) + 1 -> Label] /\ rest[i + 1] = lab[i + 1] /\ rest[Len(q) + 1] = t
  BY <1>1
<1>3. \A k \in i + 1 .. Len(q) : Moves(snt, rest[k], q[k], rest[k + 1])
  BY <1>1
<1>4. Leads(snt, q, i + 1, lab[i + 1], t)
  BY <1>2, <1>3 DEF Leads
<1>5. lab[i + 1] \in Label /\ Moves(snt, s, q[i], lab[i + 1])
  BY <1>1
<1> QED BY <1>4, <1>5

(* What is read by a poll, then what stays on the line. *)
LEMMA LeadsSplit ==
  ASSUME NEW snt, NEW q \in Seq(Mark), NEW n \in 1 .. Len(q), NEW s, NEW t, Leads(snt, q, 1, s, t)
  PROVE  \E m \in Label : /\ Leads(snt, SubSeq(q, 1, n), 1, s, m)
                        /\ Leads(snt, SubSeq(q, n + 1, Len(q)), 1, m, t)
<1>1. PICK lab \in [1 .. Len(q) + 1 -> Label] :
        /\ lab[1] = s /\ lab[Len(q) + 1] = t
        /\ \A k \in 1 .. Len(q) : Moves(snt, lab[k], q[k], lab[k + 1])
  BY DEF Leads
<1> DEFINE a == SubSeq(q, 1, n)
           b == SubSeq(q, n + 1, Len(q))
           la == [k \in 1 .. n + 1 |-> lab[k]]
           lb == [k \in 1 .. Len(q) - n + 1 |-> lab[k + n]]
<1>2. Len(a) = n /\ \A k \in 1 .. n : a[k] = q[k]
  OBVIOUS
<1>3. Len(b) = Len(q) - n /\ \A k \in 1 .. Len(q) - n : b[k] = q[k + n]
  OBVIOUS
<1>4. la \in [1 .. n + 1 -> Label] /\ la[1] = s /\ la[n + 1] = lab[n + 1]
      /\ \A k \in 1 .. n : la[k] = lab[k] /\ la[k + 1] = lab[k + 1]
  <2>1. 1 .. n + 1 \subseteq 1 .. Len(q) + 1
    OBVIOUS
  <2>2. la \in [1 .. n + 1 -> Label]
    BY <2>1
  <2>3. la[1] = s /\ la[n + 1] = lab[n + 1]
    BY <1>1
  <2> QED BY <2>2, <2>3
<1>5. lb \in [1 .. Len(q) - n + 1 -> Label] /\ lb[1] = lab[n + 1] /\ lb[Len(q) - n + 1] = t
      /\ \A k \in 1 .. Len(q) - n : lb[k] = lab[k + n] /\ lb[k + 1] = lab[(k + n) + 1]
  BY <1>1
<1> HIDE DEF a, b, la, lb
<1>6. Leads(snt, a, 1, s, lab[n + 1])
  <2>1. ASSUME NEW k \in 1 .. Len(a) PROVE Moves(snt, la[k], a[k], la[k + 1])
    <3>1. k \in 1 .. Len(q) /\ k \in 1 .. n
      BY <1>2
    <3>2. la[k] = lab[k] /\ la[k + 1] = lab[k + 1] /\ a[k] = q[k]
      BY <1>2, <1>4, <3>1
    <3> QED BY <1>1, <3>1, <3>2
  <2> QED BY <2>1, <1>2, <1>4 DEF Leads
<1>7. Leads(snt, b, 1, lab[n + 1], t)
  <2>1. ASSUME NEW k \in 1 .. Len(b) PROVE Moves(snt, lb[k], b[k], lb[k + 1])
    <3>1. k + n \in 1 .. Len(q) /\ k \in 1 .. Len(q) - n
      BY <1>3
    <3>2. lb[k] = lab[k + n] /\ lb[k + 1] = lab[(k + n) + 1] /\ b[k] = q[k + n]
      BY <1>3, <1>5, <3>1
    <3> QED BY <1>1, <3>1, <3>2
  <2> QED BY <2>1, <1>3, <1>5 DEF Leads
<1>8. n + 1 \in 1 .. Len(q) + 1
  OBVIOUS
<1>9. lab[n + 1] \in Label
  BY <1>8
<1> QED BY <1>6, <1>7, <1>9 DEF a, b

(* Bytes that are added to the line. *)
LEMMA LeadsJoin ==
  ASSUME NEW snt, NEW q \in Seq(Mark), NEW r \in Seq(Mark), NEW s, NEW m, NEW t,
         Leads(snt, q, 1, s, m), Leads(snt, r, 1, m, t)
  PROVE  Leads(snt, q \o r, 1, s, t)
<1>1. PICK la \in [1 .. Len(q) + 1 -> Label] :
        /\ la[1] = s /\ la[Len(q) + 1] = m
        /\ \A k \in 1 .. Len(q) : Moves(snt, la[k], q[k], la[k + 1])
  BY DEF Leads
<1>2. PICK lb \in [1 .. Len(r) + 1 -> Label] :
        /\ lb[1] = m /\ lb[Len(r) + 1] = t
        /\ \A k \in 1 .. Len(r) : Moves(snt, lb[k], r[k], lb[k + 1])
  BY DEF Leads
<1> DEFINE c == q \o r
           lab == [k \in 1 .. Len(q) + Len(r) + 1 |-> IF k <= Len(q) THEN la[k] ELSE lb[k - Len(q)]]
<1>3. Len(c) = Len(q) + Len(r) /\ (\A k \in 1 .. Len(q) : c[k] = q[k])
      /\ \A k \in Len(q) + 1 .. Len(q) + Len(r) : c[k] = r[k - Len(q)]
  OBVIOUS
<1>4. lab \in [1 .. Len(c) + 1 -> Label] /\ lab[1] = s /\ lab[Len(c) + 1] = t
  BY <1>1, <1>2, <1>3
<1>5. ASSUME NEW k \in 1 .. Len(c) PROVE Moves(snt, lab[k], c[k], lab[k + 1])
  <2>1. CASE k < Len(q)
    <3>1. lab[k] = la[k] /\ lab[k + 1] = la[k + 1] /\ c[k] = q[k] /\ k \in 1 .. Len(q)
      BY <2>1, <1>3
    <3> QED BY <3>1, <1>1
  <2>2. CASE k = Len(q)
    <3>1. lab[k] = la[k] /\ lab[k + 1] = lb[1] /\ c[k] = q[k] /\ k \in 1 .. Len(q)
      BY <2>2, <1>3
    <3> QED BY <3>1, <1>1, <1>2, <2>2
  <2>3. CASE k > Len(q)
    <3>1. lab[k] = lb[k - Len(q)] /\ lab[k + 1] = lb[k - Len(q) + 1] /\ c[k] = r[k - Len(q)]
          /\ k - Len(q) \in 1 .. Len(r)
      BY <2>3, <1>3
    <3> QED BY <3>1, <1>2
  <2> QED BY <2>1, <2>2, <2>3
<1> QED BY <1>4, <1>5 DEF Leads

(* More is sent: what was on the line means the same. *)
LEMMA LeadsMore ==
  ASSUME NEW snt \in Seq(Seq(Byte)), NEW f \in Seq(Byte), NEW q \in Seq(Mark), NEW i \in Nat,
         NEW s, NEW t, Leads(snt, q, i, s, t)
  PROVE  Leads(Append(snt, f), q, i, s, t)
<1>1. PICK lab \in [i .. Len(q) + 1 -> Label] :
        /\ lab[i] = s /\ lab[Len(q) + 1] = t
        /\ \A k \in i .. Len(q) : Moves(snt, lab[k], q[k], lab[k + 1])
  BY DEF Leads
<1>2. ASSUME NEW u, NEW b, NEW v, Moves(snt, u, b, v) PROVE Moves(Append(snt, f), u, b, v)
  <2>1. \A n \in 1 .. Len(snt) : n \in 1 .. Len(Append(snt, f)) /\ Append(snt, f)[n] = snt[n]
    OBVIOUS
  <2> QED BY <1>2, <2>1 DEF Moves
<1> QED BY <1>1, <1>2 DEF Leads


(* What the modem sends: a packet with a right check sum, that is the n-th *)
(* one for a handler if its type has one.                                  *)
LEMMA PacketLeads ==
  ASSUME NEW snt, NEW n \in Nat, NEW m \in Nat, NEW p \in Payload, NEW c \in Mark,
         IF Good(p, c) THEN n \in 1 .. Len(snt) /\ snt[n] = p /\ m = n + 1 ELSE m = n
  PROVE  Packet(p, c) \in Seq(Mark) /\ Leads(snt, Packet(p, c), 1, Home(n), Home(m))
<1> DEFINE l == Len(p)
           q == Packet(p, c)
           At(k) == IF k <= 3 THEN k - 1 ELSE l + 7 - k
           lab == [k \in 1 .. l + 5 |-> IF k = 1 THEN Home(n) ELSE IF k = l + 5 THEN Home(m)
                                        ELSE [at |-> At(k), p |-> p, c |-> c, n |-> n]]
<1>1. p \in Seq(Byte) /\ l \in 1 .. MaxData /\ l \in Nat
  BY EnvAssumption, ByteAssumption
<1>2. l \div Base = 0 /\ l % Base = l
  BY <1>1, ByteAssumption
<1>3. q = <<Start, 0, l>> \o p \o <<c>>
  BY <1>2 DEF Packet, Header
<1>4. p \in Seq(Mark) /\ Start \in Mark /\ 0 \in Mark /\ l \in Mark
  BY <1>1, ByteAssumption DEF Mark, Byte
<1> HIDE DEF l
<1>5. q \in Seq(Mark) /\ Len(q) = l + 4
  BY <1>1, <1>3, <1>4 DEF l
<1>6. q[1] = Start /\ q[2] = 0 /\ q[3] = l /\ q[l + 4] = c
  BY <1>1, <1>3, <1>4 DEF l
<1>7. \A k \in 4 .. l + 3 : q[k] = p[k - 3]
  BY <1>1, <1>3, <1>4 DEF l
<1> HIDE DEF q
<1>8. lab \in [1 .. l + 5 -> Label] /\ lab[1] = Home(n) /\ lab[l + 5] = Home(m)
  <2>1. \A k \in 2 .. l + 4 : At(k) \in Nat
    BY <1>1
  <2>2. Home(n) \in Label /\ Home(m) \in Label
    BY <1>4 DEF Home, Label
  <2>3. \A k \in 2 .. l + 4 : [at |-> At(k), p |-> p, c |-> c, n |-> n] \in Label
    BY <1>1, <2>1 DEF Label
  <2> HIDE DEF At
  <2> QED BY <1>1, <2>2, <2>3
<1>9. \A k \in 2 .. l + 4 : lab[k] = [at |-> At(k), p |-> p, c |-> c, n |-> n]
  BY <1>1
<1> HIDE DEF lab
<1>10. ASSUME NEW k \in 1 .. l + 4 PROVE Moves(snt, lab[k], q[k], lab[k + 1])
  <2>1. CASE k = 1
    <3>1. 2 \in 2 .. l + 4 /\ At(2) = 1
      BY <1>1
    <3>2. lab[1] = Home(n) /\ lab[2] = [at |-> 1, p |-> p, c |-> c, n |-> n]
      BY <1>8, <1>9, <3>1
    <3> QED BY <2>1, <3>2, <1>6 DEF Moves, Home
  <2>2. CASE k = 2
    <3>1. 2 \in 2 .. l + 4 /\ 3 \in 2 .. l + 4 /\ At(2) = 1 /\ At(3) = 2
      BY <1>1
    <3>2. lab[2] = [at |-> 1, p |-> p, c |-> c, n |-> n] /\ lab[3] = [at |-> 2, p |-> p, c |-> c, n |-> n]
      BY <1>9, <3>1
    <3> QED BY <2>2, <3>2, <1>6 DEF Moves
  <2>3. CASE k = 3
    <3>1. 3 \in 2 .. l + 4 /\ 4 \in 2 .. l + 4 /\ At(3) = 2 /\ At(4) = l + 3
      BY <1>1
    <3>2. lab[3] = [at |-> 2, p |-> p, c |-> c, n |-> n] /\ lab[4] = [at |-> l + 3, p |-> p, c |-> c, n |-> n]
      BY <1>9, <3>1
    <3> QED BY <2>3, <3>2, <1>1, <1>6 DEF Moves, l
  <2>4. CASE k = l + 4
    <3>1. k \in 2 .. l + 4 /\ At(k) = 3 /\ k + 1 = l + 5
      BY <1>1, <2>4
    <3>2. lab[k] = [at |-> 3, p |-> p, c |-> c, n |-> n] /\ lab[k + 1] = Home(m)
      BY <1>8, <1>9, <3>1
    <3> QED BY <2>4, <3>2, <1>6 DEF Moves
  <2>5. CASE k > 3 /\ k < l + 4
    <3>1. k \in 4 .. l + 3 /\ k \in 2 .. l + 4 /\ k + 1 \in 2 .. l + 4
      BY <2>5, <1>1
    <3>2. At(k) = l + 7 - k /\ At(k + 1) = (l + 7 - k) - 1 /\ l + 7 - k > 3 /\ l + 4 - (l + 7 - k) = k - 3
      BY <1>1, <3>1
    <3>3. /\ lab[k] = [at |-> l + 7 - k, p |-> p, c |-> c, n |-> n]
          /\ lab[k + 1] = [at |-> (l + 7 - k) - 1, p |-> p, c |-> c, n |-> n]
      BY <1>9, <3>1, <3>2
    <3>4. q[k] = p[l + 4 - (l + 7 - k)]
      BY <1>7, <3>1, <3>2
    <3> DEFINE s == lab[k]
               t == lab[k + 1]
    <3>5. s.at > 3 /\ q[k] = s.p[Len(s.p) + 4 - s.at]
      BY <3>2, <3>3, <3>4 DEF l
    <3>6. t = [s EXCEPT !.at = s.at - 1]
      BY <3>3
    <3> HIDE DEF s, t
    <3>7. Moves(snt, s, q[k], t)
      BY <3>5, <3>6 DEF Moves
    <3> QED BY <3>7 DEF s, t
  <2> QED BY <1>1, <2>1, <2>2, <2>3, <2>4, <2>5
<1>11. Leads(snt, q, 1, Home(n), Home(m))
  <2>1. Len(q) + 1 = l + 5 /\ 1 .. Len(q) = 1 .. l + 4
    BY <1>1, <1>5
  <2> QED BY <2>1, <1>8, <1>10 DEF Leads
<1> QED BY <1>5, <1>11 DEF q

LEMMA NoiseLeads ==
  ASSUME NEW snt, NEW n \in Nat, NEW b \in Byte \ {Start}
  PROVE  <<b>> \in Seq(Mark) /\ Leads(snt, <<b>>, 1, Home(n), Home(n))
<1> DEFINE lab == [k \in 1 .. 2 |-> Home(n)]
<1>1. b \in Mark /\ Len(<<b>>) = 1
  BY DEF Mark
<1>2. lab \in [1 .. 2 -> Label] /\ lab[1] = Home(n) /\ lab[2] = Home(n)
  BY ByteAssumption DEF Home, Label, Mark, Byte
<1>3. \A k \in 1 .. 1 : Moves(snt, lab[k], <<b>>[k], lab[k + 1])
  BY DEF Moves, Home
<1> HIDE DEF lab
<1> QED BY <1>1, <1>2, <1>3 DEF Leads

(* The state vXBeeIn is in: while a packet is checked or handled, the next *)
(* byte is awaited as the first one of a packet.                           *)
State == IF pc \notin {"idle", "in"} THEN 0 ELSE IF rcvd < 3 THEN rcvd ELSE left + 2

(* The packet p with the check sum c was received, all of it; the next is  *)
(* that of the label s.                                                    *)
Complete(p, c, s) ==
  /\ body = Append(p, c) /\ Len(p) = hdr[2] /\ Len(p) >= 1
  /\ IF Good(p, c) THEN Len(got) + 1 \in 1 .. Len(sent) /\ sent[Len(got) + 1] = p /\ s = Home(Len(got) + 2)
                   ELSE s = Home(Len(got) + 1)

(* The receiver is as the label s has it. *)
Agrees(s) ==
  /\ s.at = State
  /\ State = 0 /\ pc # "check" => s = Home(Len(got) + 1)
  /\ State # 0 => s.n = Len(got) + 1
  /\ State >= 3 => Len(s.p) = hdr[2] /\ Len(s.p) >= 1 /\ left <= Len(s.p) + 1
                   /\ body = SubSeq(s.p, 1, Len(s.p) + 1 - left)
  /\ pc = "check" => \E p \in Seq(Byte), c \in Mark : Complete(p, c, s)

(* The bytes that are left of the chunk, then those of the line.           *)
StreamInv ==
  Allocated =>
    /\ line \in Seq(Mark) /\ chunk \in Seq(Mark)
    /\ got \in Seq(Seq(Byte)) /\ sent \in Seq(Seq(Byte))
    /\ pos >= 1 /\ len + pos = Len(chunk) + 1 /\ (pc = "idle" => len = 0)
    /\ \E s, m \in Label : /\ Agrees(s) /\ Leads(sent, chunk, pos, s, m)
                           /\ Leads(sent, line, 1, m, Home(Len(sent) + 1))

(* The length of a packet is that of its block, from the low byte of the   *)
(* length on; the block stays allocated until it is handed over.           *)
PacketInv ==
  Allocated =>
    /\ pc \in {"idle", "in"} =>
         /\ rcvd = 2 => hdr[1] = 0
         /\ rcvd >= 3 => hdr[1] = 0 /\ left > 0 /\ hdr[2] + 4 = cap[packet]
    /\ pc = "check" => packet \in live /\ hdr[1] = 0 /\ hdr[2] + 4 = cap[packet]
    /\ pc = "drop" /\ "refused" \notin faults => packet \in live

(* A byte is taken: the next one is read from the state that it leads to.  *)
LEMMA StreamTaken ==
  ASSUME TypeOK, StreamInv, Allocated, len > 0
  PROVE  \E s, u \in Label :
           /\ Agrees(s) /\ \A b \in Data : Moves(sent, s, b, u)
           /\ \E m \in Label : /\ Leads(sent, chunk, pos + 1, u, m)
                               /\ Leads(sent, line, 1, m, Home(Len(sent) + 1))
<1>1. pos \in 1 .. Len(chunk) /\ chunk \in Seq(Mark)
  BY DEF StreamInv, TypeOK
<1>2. \A b \in Data : b = chunk[pos]
  BY <1>1 DEF Data
<1>3. PICK s, m \in Label : /\ Agrees(s) /\ Leads(sent, chunk, pos, s, m)
                            /\ Leads(sent, line, 1, m, Home(Len(sent) + 1))
  BY DEF StreamInv
<1>4. PICK u \in Label : Moves(sent, s, chunk[pos], u) /\ Leads(sent, chunk, pos + 1, u, m)
  BY <1>1, <1>3, LeadsStep
<1> QED BY <1>2, <1>3, <1>4

(* What is put on the line follows what is there. *)
LEMMA StreamPut ==
  ASSUME StreamInv, Allocated, NEW bytes \in Seq(Mark), Put(bytes),
         sent' \in Seq(Seq(Byte)), sent' = sent \/ \E p \in Seq(Byte) : sent' = Append(sent, p),
         TypeOK, Leads(sent', bytes, 1, Home(Len(sent) + 1), Home(Len(sent') + 1))
  PROVE  StreamInv'
<1>0. line \in Seq(Mark) /\ chunk \in Seq(Mark) /\ got \in Seq(Seq(Byte)) /\ sent \in Seq(Seq(Byte))
  BY DEF StreamInv
<1>1. PICK s, m \in Label : /\ Agrees(s) /\ Leads(sent, chunk, pos, s, m)
                            /\ Leads(sent, line, 1, m, Home(Len(sent) + 1))
  BY DEF StreamInv
<1>2. line' = line \o bytes /\ UNCHANGED <<got, chunk, pos, len, State, pc, left, hdr, body>>
  BY DEF Put, State, inVars, heapVars
<1>3. Leads(sent', chunk, pos, s, m) /\ Leads(sent', line, 1, m, Home(Len(sent) + 1))
  BY <1>0, <1>1, LeadsMore DEF TypeOK
<1>4. Leads(sent', line', 1, m, Home(Len(sent') + 1))
  BY <1>0, <1>2, <1>3, LeadsJoin
<1>5. \A n \in 1 .. Len(sent) : n \in 1 .. Len(sent') /\ sent'[n] = sent[n]
  <2>1. CASE sent' = sent
    BY <2>1
  <2>2. ASSUME NEW p \in Seq(Byte), sent' = Append(sent, p)
        PROVE  \A n \in 1 .. Len(sent) : n \in 1 .. Len(sent') /\ sent'[n] = sent[n]
    BY <1>0, <2>2
  <2> QED BY <2>1, <2>2
<1>6. Agrees(s)'
  <2>1. \A p \in Seq(Byte), c \in Mark : Complete(p, c, s) => Complete(p, c, s)'
    BY <1>2, <1>5 DEF Complete, Good
  <2> QED BY <1>1, <1>2, <2>1 DEF Agrees
<1>7. line' \in Seq(Mark)
  BY <1>0, <1>2
<1>8. Leads(sent', chunk', pos', s, m)
  BY <1>2, <1>3
<1>9. /\ chunk' \in Seq(Mark) /\ got' \in Seq(Seq(Byte))
      /\ pos' >= 1 /\ len' + pos' = Len(chunk') + 1 /\ (pc' = "idle" => len' = 0)
  BY <1>2 DEF StreamInv
<1> QED BY <1>4, <1>6, <1>7, <1>8, <1>9 DEF StreamInv

(* A byte that leads to the state of the receiver was taken. *)
LEMMA StreamConsume ==
  ASSUME TypeOK, StreamInv, Allocated, len > 0, UNCHANGED <<line, chunk, got, sent>>,
         pos' = pos + 1, len' = len - 1, pc' = "idle" => len' = 0,
         \E b \in Data : \A s, u \in Label : Agrees(s) /\ Moves(sent, s, b, u) => Agrees(u)'
  PROVE  StreamInv'
<1>1. PICK b \in Data : \A s, u \in Label : Agrees(s) /\ Moves(sent, s, b, u) => Agrees(u)'
  OBVIOUS
<1>2. PICK s, u \in Label :
        /\ Agrees(s) /\ Moves(sent, s, b, u)
        /\ \E m \in Label : /\ Leads(sent, chunk, pos + 1, u, m)
                            /\ Leads(sent, line, 1, m, Home(Len(sent) + 1))
  BY StreamTaken
<1>3. Agrees(u)'
  BY <1>1, <1>2
<1>4. \E m \in Label : Leads(sent', chunk', pos', u, m) /\ Leads(sent', line', 1, m, Home(Len(sent') + 1))
  BY <1>2
<1>5. /\ pos >= 1 /\ len + pos = Len(chunk) + 1 /\ line \in Seq(Mark) /\ chunk \in Seq(Mark)
      /\ got \in Seq(Seq(Byte)) /\ sent \in Seq(Seq(Byte))
  BY DEF StreamInv
<1>6. pos' >= 1 /\ len' + pos' = len + pos
  BY <1>5 DEF TypeOK
<1>7. /\ line' \in Seq(Mark) /\ chunk' \in Seq(Mark) /\ len' + pos' = Len(chunk') + 1
      /\ got' \in Seq(Seq(Byte)) /\ sent' \in Seq(Seq(Byte))
  BY <1>5, <1>6
<1> QED BY <1>3, <1>4, <1>6, <1>7 DEF StreamInv

(* Nothing was taken. *)
LEMMA StreamKept ==
  ASSUME StreamInv, UNCHANGED <<faults, line, chunk, pos, len, sent>>, pc' = "idle" => len = 0,
         Allocated => got' \in Seq(Seq(Byte)), Allocated => \A s \in Label : Agrees(s) => Agrees(s)'
  PROVE  StreamInv'
<1> SUFFICES ASSUME Allocated PROVE StreamInv'
  BY DEF StreamInv, Allocated
<1>1. PICK s, m \in Label : /\ Agrees(s) /\ Leads(sent, chunk, pos, s, m)
                            /\ Leads(sent, line, 1, m, Home(Len(sent) + 1))
  BY DEF StreamInv
<1>2. Leads(sent', chunk', pos', s, m) /\ Leads(sent', line', 1, m, Home(Len(sent') + 1)) /\ Agrees(s)'
  BY <1>1
<1>3. /\ line' \in Seq(Mark) /\ chunk' \in Seq(Mark) /\ got' \in Seq(Seq(Byte)) /\ sent' \in Seq(Seq(Byte))
      /\ pos' >= 1 /\ len' + pos' = Len(chunk') + 1 /\ (pc' = "idle" => len' = 0)
  BY DEF StreamInv
<1> QED BY <1>2, <1>3 DEF StreamInv

(* A packet that is checked is all there, and holds a payload, then a      *)
(* check sum.                                                              *)
LEMMA CheckFacts ==
  ASSUME TypeOK, PacketInv, Allocated, pc = "check", NEW s \in Label, Agrees(s)
  PROVE  /\ Sound
         /\ \E p \in Seq(Byte), c \in Mark :
              Complete(p, c, s) /\ Front(body) = p /\ Last(body) = c /\ body[1] = p[1]
<1>1. PICK p \in Seq(Byte), c \in Mark : Complete(p, c, s)
  BY DEF Agrees
<1>2. p \in Seq(Mark) /\ body = Append(p, c) /\ Len(p) = hdr[2] /\ Len(p) >= 1
  BY <1>1 DEF Complete, Mark
<1>3. Len(body) = Len(p) + 1 /\ body[1] = p[1] /\ body[Len(p) + 1] = c /\ SubSeq(body, 1, Len(p)) = p
  BY <1>2
<1>4. Front(body) = p /\ Last(body) = c
  BY <1>2, <1>3 DEF Front, Last
<1>5. packet \in live /\ hdr[1] = 0 /\ hdr[2] + 4 = cap[packet] /\ hdr[2] \in Nat /\ Base \in Nat
  BY ByteFacts, ByteAssumption DEF PacketInv, TypeOK
<1>6. Length = hdr[2]
  BY <1>5 DEF Length
<1>7. Sound
  BY <1>2, <1>3, <1>5, <1>6 DEF Sound
<1> QED BY <1>1, <1>3, <1>4, <1>7

(* Every length is legal and gets a block. *)
LEMMA LengthLegal ==
  ASSUME TypeOK, LenInv, StreamInv, Allocated
  PROVE  ~ InLengthRejected
<1> SUFFICES ASSUME InLengthRejected PROVE FALSE
  OBVIOUS
<1>1. PICK b \in Data : b > MaxData
  BY ByteFacts, ByteAssumption DEF InLengthRejected, Allocated, Data
<1>2. b \in Nat /\ State = 2 /\ len > 0
  BY ByteFacts DEF InLengthRejected, State, Data, LenInv, TypeOK
<1>3. PICK s, u \in Label : Agrees(s) /\ Moves(sent, s, b, u)
  BY <1>2, StreamTaken
<1>4. s.at = 2
  BY <1>2, <1>3 DEF Agrees
<1> QED BY <1>1, <1>2, <1>3, <1>4, ByteAssumption DEF Moves

(* Inside a body. *)
LEMMA BodyFacts ==
  ASSUME TypeOK, BuildInv, InBody
  PROVE  /\ State = left + 2 /\ left \in Nat /\ left > 0
         /\ left = 1 => pc' = "check"
         /\ left # 1 => pc' \in {"idle", "in"} /\ State' = left + 1 /\ left' = left - 1 /\ rcvd' >= 3
<1>1. State = left + 2 /\ left > 0 /\ left \in Nat /\ left < Base
  BY ByteFacts DEF InBody, State, TypeOK
<1>2. ASSUME left # 1
      PROVE  pc' \in {"idle", "in"} /\ State' = left + 1 /\ left' = left - 1 /\ rcvd' >= 3
  <2>1. rcvd + left = cap[packet] /\ cap[packet] \in 0 .. MaxData + 4 /\ rcvd >= 3 /\ rcvd \in Nat
    BY ByteFacts DEF InBody, BuildInv, TypeOK
  <2>2. rcvd + 1 \in Nat /\ rcvd + 1 < Base /\ left - 1 \in Nat /\ left - 1 < Base
    BY <1>1, <1>2, <2>1, ByteAssumption
  <2>3. rcvd' = rcvd + 1 /\ left' = left - 1 /\ pc' \in {"idle", "in"}
    BY <1>2, <2>2, ModFacts DEF InBody
  <2> QED BY <1>1, <2>1, <2>3 DEF State
<1> QED BY <1>1, <1>2 DEF InBody

(* Faults are chosen once. *)
LEMMA FaultsKept == [Next]_vars => UNCHANGED faults
BY DEF Next, SendPacket, Corrupt, Put, iXBeePoll, vXBeeIn, InStart, InLengthHigh, InLengthLow,
       InLengthRejected, InBody, InNoBody, CheckFailed, CheckPassed, HandlerReturn, Drop, vars

(* Bytes that are taken outside of a check. *)
LEMMA StreamBytes ==
  ASSUME TypeOK, LenInv, BuildInv, StreamInv, PacketInv, Allocated,
         InStart \/ InLengthHigh \/ InLengthLow \/ InBody
  PROVE  StreamInv'
<1>0. len > 0 /\ UNCHANGED <<line, chunk, got, sent>> /\ pos' = pos + 1 /\ len' = len - 1 /\ (pc' = "idle" => len' = 0)
  BY DEF InStart, InLengthHigh, InLengthLow, InBody, Consume, LenInv, TypeOK
<1>1. CASE InStart
  <2>1. PICK b \in Data : rcvd' = IF b = Start THEN 1 ELSE 0
    BY <1>1 DEF InStart
  <2>2. State = 0 /\ State' = rcvd' /\ pc # "check" /\ pc' # "check"
    BY <1>1, <2>1 DEF InStart, Consume, State
  <2>3. \A s, u \in Label : Agrees(s) /\ Moves(sent, s, b, u) => Agrees(u)'
    BY <1>0, <2>1, <2>2 DEF Moves, Agrees, Home
  <2> QED BY <1>0, <2>3, StreamConsume
<1>2. CASE InLengthHigh
  <2>1. PICK b \in Data : hdr' = <<b, hdr[2]>>
    BY <1>2 DEF InLengthHigh
  <2>2. State = 1 /\ State' = 2 /\ pc' # "check"
    BY <1>2 DEF InLengthHigh, Consume, State
  <2>3. \A s, u \in Label : Agrees(s) /\ Moves(sent, s, b, u) => u = [s EXCEPT !.at = 2]
    BY <2>2 DEF Moves, Agrees
  <2>4. \A s, u \in Label : Agrees(s) /\ Moves(sent, s, b, u) => Agrees(u)'
    BY <1>0, <2>2, <2>3 DEF Agrees, Label
  <2> QED BY <1>0, <2>4, StreamConsume
<1>3. CASE InLengthLow
  <2>1. PICK b \in Data : b <= MaxData /\ left' = b + 1 /\ hdr' = <<hdr[1], b>>
    BY <1>3 DEF InLengthLow
  <2>2. b \in Nat /\ State = 2 /\ State' = b + 3 /\ pc' # "check" /\ body' = << >>
    BY <1>3, <2>1, ByteFacts DEF InLengthLow, Consume, State, Data
  <2>3. ASSUME NEW s \in Label, NEW u \in Label, Agrees(s), Moves(sent, s, b, u)
        PROVE  Agrees(u)'
    <3>1. b = Len(s.p) /\ b \in 1 .. MaxData /\ u = [s EXCEPT !.at = b + 3]
      BY <2>2, <2>3 DEF Moves, Agrees
    <3>2. u.at = b + 3 /\ u.p = s.p /\ u.n = s.n /\ s.p \in Seq(Byte)
      BY <3>1 DEF Label
    <3>3. Len(u.p) = b /\ left' = Len(u.p) + 1 /\ Len(u.p) + 1 - left' = 0 /\ Len(u.p) >= 1
      BY <2>1, <2>2, <3>1, <3>2
    <3>4. hdr'[2] = Len(u.p) /\ left' <= Len(u.p) + 1
      BY <2>1, <2>2, <3>3
    <3>5. body' = SubSeq(u.p, 1, Len(u.p) + 1 - left')
      BY <2>2, <3>2, <3>3
    <3>6. u.n = Len(got') + 1
      BY <1>0, <2>2, <2>3, <3>2 DEF Agrees
    <3>7. State' = u.at /\ State' # 0
      BY <2>2, <3>2
    <3> QED BY <2>2, <3>3, <3>4, <3>5, <3>6, <3>7 DEF Agrees
  <2> QED BY <1>0, <2>3, StreamConsume
<1>4. CASE InBody
  <2>1. PICK b \in Data : body' = Append(body, b)
    BY <1>4 DEF InBody
  <2>2. UNCHANGED hdr /\ pc # "check"
    BY <1>4 DEF InBody, inVars
  <2>3. /\ State = left + 2 /\ left \in Nat /\ left > 0
        /\ left = 1 => pc' = "check"
        /\ left # 1 => pc' \in {"idle", "in"} /\ State' = left + 1 /\ left' = left - 1 /\ rcvd' >= 3
    BY <1>4, BodyFacts
  <2>4. ASSUME NEW s \in Label, NEW u \in Label, Agrees(s), Moves(sent, s, b, u)
        PROVE  Agrees(u)'
    <3> DEFINE p == s.p
    <3>1. /\ s.at = left + 2 /\ s.n = Len(got) + 1 /\ p \in Seq(Byte) /\ Len(p) \in Nat /\ Len(p) >= 1 /\ Len(p) = hdr[2]
          /\ left <= Len(p) + 1 /\ body = SubSeq(p, 1, Len(p) + 1 - left) /\ s.c \in Mark
      BY <2>3, <2>4 DEF Agrees, Label
    <3>2. CASE left = 1
      <4>1. b = s.c /\ IF Good(p, s.c) THEN s.n \in 1 .. Len(sent) /\ sent[s.n] = p /\ u = Home(s.n + 1)
                                       ELSE u = Home(s.n)
        BY <2>4, <3>1, <3>2 DEF Moves
      <4>2. body = p
        BY <3>1, <3>2
      <4>3. Complete(p, s.c, u)'
        <5>1. body' = Append(p, s.c) /\ Len(p) = hdr'[2]
          BY <2>1, <2>2, <3>1, <4>1, <4>2
        <5>2. Len(got) \in Nat
          BY DEF StreamInv
        <5>3. Len(got) + 1 + 1 = Len(got) + 2 /\ UNCHANGED <<got, sent>>
          BY <1>0, <5>2
        <5> QED BY <3>1, <4>1, <5>1, <5>3 DEF Complete
      <4>4. pc' = "check" /\ State' = 0 /\ u.at = 0
        BY <2>3, <3>2, <4>1 DEF State, Home
      <4> QED BY <3>1, <4>3, <4>4 DEF Agrees
    <3>3. CASE left # 1
      <4>1. b = p[Len(p) + 4 - s.at] /\ u = [s EXCEPT !.at = s.at - 1]
        <5>1. s.at = left + 2 /\ left \in Nat /\ left > 0 /\ left # 1
          BY <2>3, <3>1, <3>3
        <5>2. s.at # 0 /\ s.at # 1 /\ s.at # 2 /\ s.at # 3
          BY <5>1
        <5> QED
          BY <2>4, <5>2 DEF Moves
      <4>2. u.at = left + 1 /\ u.p = p /\ u.n = s.n
        BY <2>3, <3>1, <4>1 DEF Label
      <4>3. /\ Len(p) + 1 - left + 1 = Len(p) + 4 - s.at /\ Len(p) + 1 - left + 1 = Len(p) + 1 - left'
            /\ Len(p) + 1 - left \in Nat /\ Len(p) + 1 - left + 1 <= Len(p)
        <5> HIDE DEF p
        <5>1. left' = left - 1 /\ s.at = left + 2 /\ Len(p) \in Nat /\ left \in Nat /\ left >= 2 /\ left <= Len(p) + 1
          BY <2>3, <3>1, <3>3
        <5> QED BY <5>1
      <4>4. \A k \in Nat : k + 1 <= Len(p) => Append(SubSeq(p, 1, k), p[k + 1]) = SubSeq(p, 1, k + 1)
        BY <3>1
      <4>5. body' = SubSeq(p, 1, Len(p) + 1 - left')
        <5> DEFINE k == Len(p) + 1 - left
        <5>1. k \in Nat /\ k + 1 <= Len(p) /\ b = p[k + 1] /\ body = SubSeq(p, 1, k) /\ k + 1 = Len(p) + 1 - left'
          BY <3>1, <4>1, <4>3
        <5> HIDE DEF k
        <5>2. Append(SubSeq(p, 1, k), p[k + 1]) = SubSeq(p, 1, k + 1)
          BY <4>4, <5>1
        <5> QED BY <2>1, <5>1, <5>2
      <4>6. left' <= Len(p) + 1 /\ hdr' = hdr /\ UNCHANGED got
        BY <1>0, <2>2, <2>3, <3>1, <3>3
      <4>7. State' = left + 1 /\ State' # 0 /\ pc' # "check"
        BY <2>3, <3>3
      <4> QED BY <3>1, <4>2, <4>5, <4>6, <4>7 DEF Agrees
    <3> QED BY <3>2, <3>3
  <2> QED BY <1>0, <2>1, <2>4, StreamConsume
<1> QED BY <1>1, <1>2, <1>3, <1>4

(* Every step leaves bytes that lead to the next packet. *)
LEMMA StreamStep ==
  TypeOK /\ LenInv /\ BuildInv /\ StreamInv /\ PacketInv /\ [Next]_vars => StreamInv'
<1> SUFFICES ASSUME TypeOK, LenInv, BuildInv, StreamInv, PacketInv, [Next]_vars, Allocated'
             PROVE  StreamInv'
  BY DEF StreamInv
<1>0. UNCHANGED faults /\ Allocated
  BY FaultsKept DEF Allocated
<1>a. /\ line \in Seq(Mark) /\ chunk \in Seq(Mark) /\ got \in Seq(Seq(Byte)) /\ sent \in Seq(Seq(Byte))
      /\ Len(sent) \in Nat /\ Len(got) \in Nat
  BY <1>0 DEF StreamInv
<1> USE <1>0
<1>1. ASSUME NEW p \in Payload, SendPacket(p) PROVE StreamInv'
  <2> DEFINE c == ucXBeeCrc(p)
  <2>1. c \in Mark /\ p \in Seq(Byte) /\ Put(Packet(p, c))
    BY <1>1, EnvAssumption DEF SendPacket, Mark
  <2>2. sent' = IF Good(p, c) THEN Append(sent, p) ELSE sent
    BY <1>1 DEF SendPacket, Good
  <2> HIDE DEF c
  <2>3. sent' \in Seq(Seq(Byte)) /\ (sent' = sent \/ \E f \in Seq(Byte) : sent' = Append(sent, f))
    BY <1>a, <2>1, <2>2
  <2>4. /\ Len(sent) + 1 \in Nat /\ Len(sent') + 1 \in Nat
        /\ IF Good(p, c) THEN /\ Len(sent) + 1 \in 1 .. Len(sent') /\ sent'[Len(sent) + 1] = p
                              /\ Len(sent') + 1 = Len(sent) + 1 + 1
                         ELSE Len(sent') + 1 = Len(sent) + 1
    BY <1>a, <2>1, <2>2
  <2>5. Packet(p, c) \in Seq(Mark) /\ Leads(sent', Packet(p, c), 1, Home(Len(sent) + 1), Home(Len(sent') + 1))
    BY <2>1, <2>4, PacketLeads
  <2> QED BY <2>1, <2>3, <2>5, StreamPut
<1>2. CASE Corrupt
  <2>1. UNCHANGED sent /\ Len(sent) + 1 \in Nat
    BY <1>2, <1>a DEF Corrupt
  <2>2. ASSUME NEW b \in {0, Base - 1} \ {Start}, Put(<<b>>) PROVE StreamInv'
    <3>1. b \in Byte \ {Start}
      BY ByteFacts
    <3>2. <<b>> \in Seq(Mark) /\ Leads(sent', <<b>>, 1, Home(Len(sent) + 1), Home(Len(sent') + 1))
      BY <2>1, <3>1, NoiseLeads
    <3> QED BY <1>a, <2>1, <2>2, <3>2, StreamPut
  <2>3. ASSUME NEW p \in Payload, NEW c \in {(ucXBeeCrc(p) + 1) % Base} \ {ucXBeeCrc(p)}, Put(Packet(p, c))
        PROVE  StreamInv'
    <3>1. c \in Mark /\ ~ Good(p, c)
      BY DEF Mark, Good
    <3>2. Packet(p, c) \in Seq(Mark) /\ Leads(sent', Packet(p, c), 1, Home(Len(sent) + 1), Home(Len(sent') + 1))
      BY <2>1, <3>1, PacketLeads
    <3> QED BY <1>a, <2>1, <2>3, <3>2, StreamPut
  <2> QED BY <1>2, <2>2, <2>3 DEF Corrupt, Allocated
<1>3. ASSUME NEW n \in 1 .. MaxChunk, iXBeePoll(n) PROVE StreamInv'
  <2>1. PICK s, m \in Label : /\ Agrees(s) /\ Leads(sent, chunk, pos, s, m)
                              /\ Leads(sent, line, 1, m, Home(Len(sent) + 1))
    BY DEF StreamInv
  <2>2. pos = Len(chunk) + 1
    BY <1>3, <1>a DEF StreamInv, iXBeePoll, TypeOK
  <2>3. Leads(sent, line, 1, s, Home(Len(sent) + 1))
    BY <1>a, <2>1, <2>2, LeadsStays
  <2>4. n \in 1 .. Len(line)
    BY <1>3, <1>a, EnvAssumption DEF iXBeePoll
  <2>5. chunk' = SubSeq(line, 1, n) /\ line' = SubSeq(line, n + 1, Len(line)) /\ UNCHANGED <<sent, got, inVars, body>>
    BY <1>3 DEF iXBeePoll, heapVars
  <2>6. PICK u \in Label : /\ Leads(sent', chunk', 1, s, u)
                           /\ Leads(sent', line', 1, u, Home(Len(sent') + 1))
    BY <1>a, <2>3, <2>4, <2>5, LeadsSplit
  <2>7. Agrees(s)'
    <3>1. State' = State /\ pc # "check" /\ pc' # "check"
      BY <1>3 DEF iXBeePoll, State, inVars
    <3> QED BY <2>1, <2>5, <3>1 DEF Agrees, inVars
  <2>8. chunk' \in Seq(Mark) /\ line' \in Seq(Mark) /\ Len(chunk') = n
    BY <1>a, <2>4, <2>5
  <2>9. pos' = 1 /\ len' = n /\ pc' = "in"
    BY <1>3 DEF iXBeePoll
  <2>10. /\ got' \in Seq(Seq(Byte)) /\ sent' \in Seq(Seq(Byte)) /\ Leads(sent', chunk', pos', s, u)
         /\ pos' >= 1 /\ len' + pos' = Len(chunk') + 1
    BY <1>a, <2>4, <2>5, <2>6, <2>8, <2>9
  <2> QED BY <2>6, <2>7, <2>8, <2>9, <2>10 DEF StreamInv
<1>4. CASE InStart \/ InLengthHigh \/ InLengthLow \/ InBody
  BY <1>4, StreamBytes
<1>5. CASE InLengthRejected
  BY <1>5, LengthLegal
<1>6. CASE InNoBody
  BY <1>6 DEF InNoBody, PacketInv
<1>7. CASE CheckFailed
  <2>1. pc = "check" /\ State' = 0 /\ pc' # "check" /\ UNCHANGED <<got, sent>> /\ (Sound => ~ CrcOk)
    BY <1>7 DEF CheckFailed, State, Resume
  <2>2. ASSUME NEW s \in Label, Agrees(s) PROVE Agrees(s)'
    <3>1. Sound /\ \E p \in Seq(Byte), c \in Mark :
                     Complete(p, c, s) /\ Front(body) = p /\ Last(body) = c /\ body[1] = p[1]
      BY <2>1, <2>2, CheckFacts
    <3>2. s = Home(Len(got) + 1)
      BY <2>1, <3>1 DEF CrcOk, Complete, Good
    <3> QED BY <2>1, <3>2 DEF Agrees, Home
  <2> QED BY <1>7, <1>a, <2>1, <2>2, StreamKept DEF CheckFailed, Resume
<1>8. CASE CheckPassed
  <2>1. pc = "check" /\ State' = 0 /\ pc' # "check" /\ UNCHANGED sent /\ (Sound => CrcOk)
    BY <1>8 DEF CheckPassed, State
  <2>2. ASSUME NEW s \in Label, Agrees(s) PROVE Agrees(s)' /\ got' \in Seq(Seq(Byte))
    <3>1. Sound
      BY <2>1, <2>2, CheckFacts
    <3>2. PICK p \in Seq(Byte), c \in Mark :
            Complete(p, c, s) /\ Front(body) = p /\ Last(body) = c /\ body[1] = p[1]
      BY <2>1, <2>2, CheckFacts
    <3>3. c = ucXBeeCrc(p)
      BY <2>1, <3>1, <3>2 DEF CrcOk
    <3>4. CASE p[1] \in Handled
      <4>1. got' = Append(got, p)
        BY <1>8, <3>1, <3>2, <3>4 DEF CheckPassed
      <4>2. s = Home(Len(got) + 2)
        BY <3>2, <3>3, <3>4 DEF Complete, Good
      <4>3. Len(got') + 1 = Len(got) + 2 /\ got' \in Seq(Seq(Byte))
        BY <1>a, <4>1
      <4> QED BY <2>1, <4>2, <4>3 DEF Agrees, Home
    <3>5. CASE p[1] \notin Handled
      <4>1. got' = got
        BY <1>8, <3>1, <3>2, <3>5 DEF CheckPassed
      <4>2. s = Home(Len(got) + 1)
        BY <3>2, <3>3, <3>5 DEF Complete, Good
      <4> QED BY <1>a, <2>1, <4>1, <4>2 DEF Agrees, Home
    <3> QED BY <3>4, <3>5
  <2>3. got' \in Seq(Seq(Byte)) /\ (\A s \in Label : Agrees(s) => Agrees(s)')
    BY <2>2 DEF StreamInv
  <2> QED BY <1>8, <2>3, StreamKept DEF CheckPassed
<1>9. CASE HandlerReturn \/ Drop
  <2>1. State = 0 /\ State' = 0 /\ pc # "check" /\ pc' # "check" /\ UNCHANGED <<got, sent>>
    BY <1>9 DEF HandlerReturn, Drop, State, Resume
  <2>2. \A s \in Label : Agrees(s) => Agrees(s)'
    BY <2>1 DEF Agrees, Home
  <2> QED BY <1>9, <1>a, <2>1, <2>2, StreamKept DEF HandlerReturn, Drop, Resume
<1>10. CASE UNCHANGED vars
  <2>1. \A s \in Label : Agrees(s) => Agrees(s)'
    BY <1>10 DEF vars, inVars, heapVars, Agrees, State, Complete
  <2> QED BY <1>10, <1>a, <2>1, StreamKept DEF vars, StreamInv
<1> QED
  BY <1>1, <1>2, <1>3, <1>4, <1>5, <1>6, <1>7, <1>8, <1>9, <1>10 DEF Next, vXBeeIn

(* Every step keeps the length and the block of a packet together. *)
LEMMA PacketStep ==
  TypeOK /\ LenInv /\ BuildInv /\ StreamInv /\ PacketInv /\ [Next]_vars => PacketInv'
<1> SUFFICES ASSUME TypeOK, LenInv, BuildInv, StreamInv, PacketInv, [Next]_vars, Allocated'
             PROVE  PacketInv'
  BY DEF PacketInv
<1>0. UNCHANGED faults /\ Allocated
  BY FaultsKept DEF Allocated
<1> USE <1>0, ByteFacts DEF TypeOK, PacketInv, inVars, heapVars
<1>1. CASE \E p \in Payload : SendPacket(p)
  BY <1>1 DEF SendPacket, Put
<1>2. CASE Corrupt
  <2>1. UNCHANGED <<inVars, heapVars, pc>>
    BY <1>2 DEF Corrupt, Put
  <2> QED BY <2>1
<1>3. CASE \E n \in 1 .. MaxChunk : iXBeePoll(n)
  BY <1>3 DEF iXBeePoll
<1>4. CASE InStart
  BY <1>4 DEF InStart, Consume, Data
<1>5. CASE InLengthHigh
  <2>1. PICK b \in Data : hdr' = <<b, hdr[2]>>
    BY <1>5 DEF InLengthHigh
  <2>2. State = 1 /\ len > 0
    BY <1>5 DEF InLengthHigh, State, LenInv
  <2>3. b = 0
    <3>1. PICK s, u \in Label : Agrees(s) /\ Moves(sent, s, b, u)
      BY <2>2, StreamTaken
    <3> QED BY <2>2, <3>1 DEF Moves, Agrees
  <2> QED BY <1>5, <2>1, <2>3 DEF InLengthHigh, Consume
<1>6. CASE InLengthLow
  <2>1. PICK b \in Data, a \in Addr \ live :
          /\ b <= MaxData /\ hdr' = <<hdr[1], b>> /\ left' = b + 1
          /\ packet' = a /\ cap' = [cap EXCEPT ![a] = b + 4]
    BY <1>6 DEF InLengthLow
  <2>2. rcvd' = 3 /\ hdr[1] = 0 /\ pc' \in {"idle", "in"} /\ b \in Nat
    BY <1>6, <2>1 DEF InLengthLow, Consume, Data
  <2> QED BY <2>1, <2>2
<1>7. CASE InLengthRejected
  BY <1>7, LengthLegal
<1>8. CASE InBody
  <2>1. packet \in live /\ hdr[1] = 0 /\ hdr[2] + 4 = cap[packet] /\ rcvd >= 3 /\ rcvd \in Nat
        /\ left \in Nat /\ left > 0 /\ left < Base
    BY <1>8 DEF InBody, BuildInv
  <2>2. UNCHANGED <<packet, live, hdr, cap>>
    BY <1>8 DEF InBody
  <2>3. CASE left = 1
    BY <1>8, <2>1, <2>2, <2>3 DEF InBody
  <2>4. CASE left # 1
    <3>1. left - 1 \in Nat /\ left - 1 < Base /\ left - 1 > 0
      BY <2>1, <2>4, ByteAssumption
    <3>2. left' = left - 1 /\ pc' \in {"idle", "in"}
      BY <1>8, <2>4, <3>1, ModFacts DEF InBody
    <3>3. rcvd' # 2
      <4>1. rcvd + 1 \in Nat /\ rcvd + 1 < Base
        BY <1>8, <2>1, <3>1, ByteAssumption DEF InBody, BuildInv
      <4>2. rcvd' = rcvd + 1
        BY <1>8, <4>1, ModFacts DEF InBody
      <4> QED BY <2>1, <4>2
    <3> QED BY <2>1, <2>2, <3>1, <3>2, <3>3
  <2> QED BY <2>3, <2>4
<1>9. CASE InNoBody
  BY <1>9 DEF InNoBody
<1>10. CASE CheckFailed
  BY <1>10 DEF CheckFailed, Resume
<1>11. CASE CheckPassed
  BY <1>11 DEF CheckPassed
<1>12. CASE HandlerReturn
  BY <1>12 DEF HandlerReturn, Resume
<1>13. CASE Drop
  BY <1>13 DEF Drop, Resume
<1>14. CASE UNCHANGED vars
  BY <1>14 DEF vars
<1> QED
  BY <1>1, <1>2, <1>3, <1>4, <1>5, <1>6, <1>7, <1>8, <1>9, <1>10, <1>11, <1>12, <1>13, <1>14
  DEF Next, vXBeeIn

IInv == TypeOK /\ LenInv /\ BuildInv /\ OwnInv /\ StreamInv /\ PacketInv

(* The inductive invariant holds in every reachable state. *)
THEOREM Invariance == Spec => []IInv
<1>1. Init => IInv
  <2> SUFFICES ASSUME Init PROVE IInv
    OBVIOUS
  <2>1. TypeOK /\ LenInv /\ BuildInv /\ OwnInv /\ PacketInv
    BY ByteFacts, ByteAssumption DEF Init, TypeOK, LenInv, BuildInv, OwnInv, NoLeak, PacketInv, Byte
  <2>2. << >> \in Seq(Mark) /\ << >> \in Seq(Seq(Byte)) /\ Len(<< >>) = 0 /\ Home(1) \in Label
    BY ByteAssumption DEF Home, Label, Mark, Byte
  <2>3. Leads(sent, << >>, 1, Home(1), Home(1))
    <3>1. Leads(sent, << >>, Len(<< >>) + 1, Home(1), Home(1))
      BY <2>2, LeadsNowhere
    <3> QED BY <2>2, <3>1
  <2>4. line = << >> /\ chunk = << >> /\ got = << >> /\ sent = << >> /\ pos = 1 /\ len = 0 /\ pc = "idle"
    BY DEF Init
  <2>5. Agrees(Home(1))
    <3>1. State = 0
      BY DEF Init, State
    <3> QED BY <2>4, <3>1 DEF Agrees, Home
  <2>6. Home(Len(sent) + 1) = Home(1)
    BY <2>2, <2>4
  <2>7. StreamInv
    BY <2>2, <2>3, <2>4, <2>5, <2>6 DEF StreamInv
  <2> QED BY <2>1, <2>7 DEF IInv
<1>2. IInv /\ [Next]_vars => IInv'
  BY TypeStep, LenStep, BuildStep, OwnStep, StreamStep, PacketStep DEF IInv
<1> QED
  BY <1>1, <1>2, PTL DEF Spec

(* The counters, the heap and the position keep their types. *)
THEOREM TypeCorrect == Spec => []TypeOK
BY Invariance, PTL DEF IInv

(* No byte of a packet is stored outside the block allocated for it.       *)
THEOREM WritesStayInside == Spec => []WriteInBounds
<1>1. IInv => WriteInBounds
  BY ByteFacts DEF IInv, TypeOK, BuildInv, WriteInBounds
<1> QED
  BY <1>1, Invariance, PTL

(* Whatever fails, no block is lost but those of packets with a wrong      *)
(* check sum.                                                              *)
THEOREM BlocksAreKept == Spec => []NoLeak
BY Invariance, PTL DEF IInv, OwnInv

(* However packets are cut, with noise and bad check sums: if no length is *)
(* wrong and malloc does not fail (Allocated), the packet that vXBeeIn     *)
(* checks was allocated for it and holds all that the check sum reads; if  *)
(* no handler refuses a packet either (Taken), one that vXBeeIn drops is   *)
(* still its own to free.                                                  *)
THEOREM PacketIsOwned == Spec => []PacketOwned
<1>1. IInv => PacketOwned
  <2> SUFFICES ASSUME IInv, Allocated PROVE PacketOwned
    BY DEF PacketOwned, PacketFresh, NoDoubleFree, Taken
  <2>1. pc = "check" => packet \in live /\ hdr[1] = 0 /\ hdr[2] + 4 = cap[packet]
    BY DEF IInv, PacketInv
  <2>2. pc = "check" => packet \in live /\ Length + 4 <= cap[packet]
    <3> SUFFICES ASSUME pc = "check" PROVE Length + 4 <= cap[packet] /\ packet \in live
      OBVIOUS
    <3>1. packet \in live /\ hdr[1] = 0 /\ hdr[2] + 4 = cap[packet] /\ hdr[2] \in Nat /\ Base \in Nat
      BY <2>1, ByteFacts, ByteAssumption DEF IInv, TypeOK
    <3>2. Length = hdr[2]
      BY <3>1 DEF Length
    <3> QED BY <3>1, <3>2
  <2> QED BY <2>2 DEF PacketOwned, PacketFresh, NoDoubleFree, Taken, IInv, PacketInv
<1> QED BY <1>1, Invariance, PTL

(* The safety of LinkSpec: however the packets are cut into chunks and     *)
(* whatever noise and bad check sums come in between, each step of the     *)
(* receiver hands over nothing, or the next packet that was sent for a     *)
(* handler, unaltered.                                                     *)
linkVars == <<IF Taken THEN sent ELSE << >>, IF Taken THEN got ELSE << >>>>

THEOREM PacketsInOrder == Spec => Link!Init /\ [][Link!Next]_linkVars
<1>1. Init => Link!Init
  BY DEF Init, Link!Init
<1>2. IInv /\ [Next]_vars => [Link!Next]_linkVars
  <2> SUFFICES ASSUME IInv, [Next]_vars, Taken, Taken'
               PROVE  [Link!Next]_linkVars
    BY FaultsKept DEF Taken, Allocated, linkVars
  <2>0. Allocated /\ got \in Seq(Seq(Byte)) /\ sent \in Seq(Seq(Byte))
    BY DEF IInv, StreamInv, Taken
  <2>1. ASSUME NEW p \in Payload, SendPacket(p) PROVE [Link!Next]_linkVars
    BY <2>1 DEF SendPacket, Put, linkVars, Link!Next, Link!Send
  <2>2. CASE CheckPassed
    <3>1. pc = "check" /\ UNCHANGED sent /\ (Sound => CrcOk)
      BY <2>2 DEF CheckPassed
    <3>2. PICK s \in Label : Agrees(s)
      BY <2>0 DEF IInv, StreamInv
    <3>3. Sound
      BY <2>0, <3>1, <3>2, CheckFacts DEF IInv
    <3>4. PICK p \in Seq(Byte), c \in Mark :
            Complete(p, c, s) /\ Front(body) = p /\ Last(body) = c /\ body[1] = p[1]
      BY <2>0, <3>1, <3>2, CheckFacts DEF IInv
    <3>5. CASE p[1] \in Handled
      <4>1. got' = Append(got, p)
        BY <2>2, <3>3, <3>4, <3>5 DEF CheckPassed
      <4>2. Len(got) + 1 \in 1 .. Len(sent) /\ sent[Len(got) + 1] = p
        BY <3>1, <3>3, <3>4, <3>5 DEF Complete, Good, CrcOk
      <4>3. Len(got) < Len(sent)
        BY <2>0, <4>2
      <4>4. Link!Deliver
        BY <3>1, <4>1, <4>2, <4>3 DEF Link!Deliver
      <4> QED BY <4>4 DEF Link!Next
    <3>6. CASE p[1] \notin Handled
      BY <2>2, <3>1, <3>3, <3>4, <3>6 DEF CheckPassed, linkVars
    <3> QED BY <3>5, <3>6
  <2>3. CASE Corrupt \/ (\E n \in 1 .. MaxChunk : iXBeePoll(n)) \/ (vXBeeIn /\ ~ CheckPassed) \/ UNCHANGED vars
    <3>1. UNCHANGED <<sent, got>>
      BY <2>3 DEF Corrupt, Put, iXBeePoll, vXBeeIn, InStart, InLengthHigh, InLengthLow, InLengthRejected,
         InBody, InNoBody, CheckFailed, HandlerReturn, Drop, vars
    <3> QED BY <3>1 DEF linkVars
  <2> QED BY <2>1, <2>2, <2>3 DEF Next
<1> QED BY <1>1, <1>2, Invariance, PTL DEF Spec
=============================================================================
