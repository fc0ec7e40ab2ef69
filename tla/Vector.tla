------------------------------- MODULE Vector -------------------------------
(***************************************************************************)
(* The vector (src/vector.c): a block of pointers that is allocated by     *)
(* multiples of growth, and the elements, which fdestroy frees.            *)
(***************************************************************************)
EXTENDS Naturals, Sequences, FiniteSets, SequencesExt

CONSTANTS
  Element,
  Growth,
  MaxSize,  \* bound
  Copies    \* subset of BOOLEAN: whether an element may be in the vector more
            \* than once; then the application only appends and clears

VectorAssumption ==
  /\ Growth \in Nat \ {0} /\ MaxSize \in Nat /\ Copies \subseteq BOOLEAN
  /\ "NULL" \notin Element /\ "junk" \notin Element

VARIABLES
  twice,             \* the case of Copies
  data, size, alloc, \* xVector; what lies above size is not initialised
  freed,             \* how often fdestroy had each element
  torn,              \* history: memcpy was called with blocks that overlap
  list, given        \* history: the list that the calls describe, and the
                     \* elements that are for the vector to free

vars == <<twice, data, size, alloc, freed, torn, list, given>>

NULL == "NULL"
Junk == "junk"

(* iVectorInit *)
Init ==
  /\ twice \in Copies
  /\ data = << >> /\ size = 0 /\ alloc = 0
  /\ freed = [e \in Element |-> 0] /\ torn = FALSE /\ list = << >> /\ given = {}

(* realloc: what is kept of the block, and new cells. *)
Realloc(s, n) == [k \in 1 .. n |-> IF k <= Len(s) THEN s[k] ELSE Junk]

Free(s) == freed' = [e \in Element |-> freed[e] + Cardinality({k \in DOMAIN s : s[k] = e})]

RoundUp(n) == ((n + Growth - 1) \div Growth) * Growth

(* iVectorResize without fnew, to n > 0 or from nothing to nothing. *)
Resized(n) ==
  LET block == IF RoundUp(n) = alloc THEN data ELSE Realloc(data, RoundUp(n)) IN
  [k \in DOMAIN block |-> IF k \in size + 1 .. n THEN NULL ELSE block[k]]

iVectorResize(n) ==
  /\ n \in 1 .. MaxSize /\ n # size
  /\ data' = Resized(n) /\ size' = n /\ alloc' = RoundUp(n)
  /\ Free(SubSeq(data, n + 1, size))
  /\ list' = [k \in 1 .. n |-> IF k <= Len(list) THEN list[k] ELSE NULL]
  /\ UNCHANGED <<given, torn, twice>>

iVectorAppend(e) ==
  /\ size < MaxSize
  /\ data' = [Resized(size + 1) EXCEPT ![size + 1] = e]
  /\ size' = size + 1 /\ alloc' = RoundUp(size + 1)
  /\ list' = Append(list, e) /\ given' = given \cup {e}
  /\ UNCHANGED <<freed, torn, twice>>

(* memcpy of what follows, to the left.  Two elements or more are blocks   *)
(* that overlap, which C leaves undefined: a cell may get its neighbour,   *)
(* or one from further on that was copied over it first.  A source gives   *)
(* for each cell the one whose element it gets.                            *)
Overlaps(i) == size - i > 1
Sources(i) ==
  {from \in [i .. size - 1 -> i + 1 .. size] :
     \A k \in i .. size - 1 : from[k] > k /\ (Overlaps(i) \/ from[k] = k + 1)}
Moved(from) == [k \in DOMAIN data |-> IF k \in DOMAIN from THEN data[from[k]] ELSE data[k]]

iVectorRemove(i) ==
  /\ i \in 1 .. size
  /\ Free(<<data[i]>>)
  /\ size' = size - 1
  /\ \E from \in Sources(i) :
       IF alloc - size' >= Growth
       THEN alloc' = size' /\ data' = Realloc(Moved(from), size')
       ELSE data' = Moved(from) /\ UNCHANGED alloc
  /\ torn' = (torn \/ Overlaps(i))
  /\ list' = RemoveAt(list, i)
  /\ UNCHANGED <<given, twice>>

(* The element that was there is for the application to free. *)
iVectorReplace(i, e) ==
  /\ i \in 1 .. size
  /\ data' = [data EXCEPT ![i] = e]
  /\ list' = [list EXCEPT ![i] = e] /\ given' = (given \cup {e}) \ {data[i]}
  /\ UNCHANGED <<size, alloc, freed, torn, twice>>

(* iVectorClear with the search functions, the key of an element being its *)
(* address: the copies of an element that is freed are set to NULL.        *)
iVectorClear ==
  /\ size > 0
  /\ Free(SetToSeq({data[k] : k \in 1 .. size}))
  /\ data' = << >> /\ size' = 0 /\ alloc' = 0 /\ list' = << >>
  /\ UNCHANGED <<given, torn, twice>>

Fresh(e) == freed[e] = 0 /\ e \notin given

(* Nothing is said of what follows an undefined memcpy. *)
Next ==
  /\ ~ torn
  /\ \/ \E e \in Element : (Fresh(e) \/ (twice /\ freed[e] = 0)) /\ iVectorAppend(e)
     \/ \E n \in 1 .. MaxSize : ~ twice /\ iVectorResize(n)
     \/ \E i \in 1 .. MaxSize : ~ twice /\ iVectorRemove(i)
     \/ \E i \in 1 .. MaxSize, e \in Element : ~ twice /\ Fresh(e) /\ iVectorReplace(i, e)
     \/ iVectorClear

Spec == Init /\ [][Next]_vars

-----------------------------------------------------------------------------
(* Whatever it grows and shrinks by, the vector is the list that the calls *)
(* describe, the block holds it, and each element that the vector is given *)
(* is in it or was freed, once: as long as each element that was removed   *)
(* had at most one after it.  With more it depends on memcpy.              *)
VectorIsList ==
  ~ torn =>
    /\ SubSeq(data, 1, size) = list /\ size = Len(list)
    /\ Len(data) = alloc /\ size <= alloc
    /\ \A e \in Element :
         LET there == e \in {list[k] : k \in 1 .. Len(list)} IN
         freed[e] = IF e \in given /\ ~ there THEN 1 ELSE 0
=============================================================================
