------------------------------- MODULE I2cMem -------------------------------
(***************************************************************************)
(* A memory on the I2C bus (src/i2c/i2c.c, iI2cMemWrite and iI2cMemRead)   *)
(* and the chip: it does not answer while it programs a page, it keeps the *)
(* page of the first byte that is written, and its I2C address holds the   *)
(* bits of the offset that do not fit the bytes of the offset.             *)
(*                                                                         *)
(* A write of "len" bytes past the offset: an access is one message, whose *)
(* bytes the chip takes all, or none when it does not answer.              *)
(***************************************************************************)
EXTENDS Naturals, Sequences

CONSTANTS
  MemSize, PageSize,
  Reach,    \* the offsets that fit the bytes of the offset: 0 .. Reach - 1
  Writes,   \* what the application writes: <<offset, data>>
  Reads,    \* what it reads: <<offset, size>>
  Value,
  TryMax,   \* I2CMEM_TRY_MAX
  MaxCalls  \* bound

I2cMemAssumption ==
  /\ MemSize \in Nat \ {0} /\ PageSize \in Nat \ {0} /\ Reach \in Nat \ {0}
  /\ MemSize % PageSize = 0 /\ MemSize % Reach = 0 /\ Reach % PageSize = 0
  \* What is accessed is in the memory, what is written in a page of it.
  /\ 0 \in Value
  /\ \A w \in Writes :
       /\ w[1] \in 0 .. MemSize - 1 /\ w[2] \in Seq(Value)
       /\ (w[1] % PageSize) + Len(w[2]) <= PageSize
  /\ \A r \in Reads : r[1] \in 0 .. MemSize - 1 /\ r[2] \in Nat /\ r[1] + r[2] <= MemSize

VARIABLES
  mem,              \* the cells of the chip
  call,             \* the call of the application, as FlatMemory has it
  addr, offset,     \* the bits of the offset in the address, m->offset
  p, tries, answer, \* data written, io_try, what was returned last
  calls

vars == <<mem, call, addr, offset, p, tries, answer, calls>>

NoCall == [kind |-> "idle", at |-> 0, data |-> << >>]
Cells == 0 .. MemSize - 1

(* xI2cMemOpen, the memory blank *)
Init ==
  /\ mem = [a \in Cells |-> 0]
  /\ call = NoCall /\ addr = 0 /\ offset = 0 /\ p = 0 /\ tries = 0
  /\ answer = << >> /\ calls = 0

(* Faulty variant: the address does not have the high bits of the offset. *)
prviSetOffsetLow(at) == offset' = at % Reach /\ addr' = 0

prviSetOffset(at) == offset' = at % Reach /\ addr' = (at % MemSize) \div Reach

Begin(kind, at, data) ==
  /\ call = NoCall /\ calls < MaxCalls
  /\ call' = [kind |-> kind, at |-> at, data |-> data]
  /\ prviSetOffset(at)
  /\ p' = 0 /\ tries' = 0 /\ calls' = calls + 1
  /\ UNCHANGED <<mem, answer>>

Answer(a) == call' = NoCall /\ answer' = a
Remaining == Len(call.data) - p
Count == IF PageSize < Remaining THEN PageSize ELSE Remaining
First == addr * Reach + offset

(* The chip wraps at the end of the page. *)
Programmed(data) ==
  LET page == (First \div PageSize) * PageSize IN
  [a \in Cells |->
     LET hits == {k \in 1 .. Len(data) : page + ((First - page + k - 1) % PageSize) = a} IN
     IF hits = {} THEN mem[a] ELSE data[CHOOSE k \in hits : \A j \in hits : j <= k]]

(* ioctl (m->fd, I2C_RDWR) writes a page: the offset is that of the first. *)
WritePage ==
  /\ call.kind = "write" /\ Remaining > 0
  /\ mem' = Programmed(SubSeq(call.data, p + 1, p + Count))
  /\ p' = p + Count /\ tries' = 0
  /\ UNCHANGED <<call, addr, offset, answer, calls>>

iI2cMemWriteReturns ==
  /\ call.kind = "write" /\ Remaining = 0
  /\ Answer(<<"ok">>)
  /\ UNCHANGED <<mem, addr, offset, p, tries, calls>>

ReadCells ==
  /\ call.kind = "read"
  /\ Answer(<<"read", [k \in 1 .. Len(call.data) |-> mem[(First + k - 1) % MemSize]]>>)
  /\ UNCHANGED <<mem, addr, offset, p, tries, calls>>

Accesses == call.kind = "read" \/ (call.kind = "write" /\ Remaining > 0)

(* EIO: the chip programs a page. *)
NotReady ==
  /\ Accesses
  /\ tries' = tries + 1
  /\ IF tries' > TryMax THEN Answer(<<"error">>) ELSE UNCHANGED <<call, answer>>
  /\ UNCHANGED <<mem, addr, offset, p, calls>>

OtherError ==
  /\ Accesses /\ Answer(<<"error">>)
  /\ UNCHANGED <<mem, addr, offset, p, tries, calls>>

Next ==
  \/ \E w \in Writes : Begin("write", w[1], w[2])
  \/ \E r \in Reads : Begin("read", r[1], [k \in 1 .. r[2] |-> 0])
  \/ WritePage \/ iI2cMemWriteReturns \/ ReadCells \/ NotReady \/ OtherError

Spec == Init /\ [][Next]_vars

(* With offsets of two bytes: a write that does not cross the end of a     *)
(* page and any read do what a memory promises, across retries, timeouts   *)
(* and errors.  Writes that are longer do not: the offset stays that of    *)
(* the first page (see the README, section 7).                             *)
MemoryIsFlat ==
  INSTANCE FlatMemory WITH Size <- MemSize, cells <- mem, op <- call, result <- answer
MemorySpec == MemoryIsFlat!Spec
=============================================================================
