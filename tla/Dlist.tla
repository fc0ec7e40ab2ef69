------------------------------- MODULE Dlist -------------------------------
(***************************************************************************)
(* The doubly linked list (src/dlist.c): the cells that malloc returns and *)
(* the pointers between them.  A datum is the cell that holds it; 0 is     *)
(* NULL.  free leaves the content of a cell, which malloc returns again.   *)
(***************************************************************************)
EXTENDS Naturals, Sequences, FiniteSets, SequencesExt

CONSTANT Cell
DlistAssumption == 0 \notin Cell

VARIABLES
  head, tail, size, next, prev, \* xDList and its xDListElmt
  live,                         \* cells allocated
  list                          \* history: the list that the calls describe

vars == <<head, tail, size, next, prev, live, list>>

NULL == 0

(* iDListInit *)
Init ==
  /\ head = NULL /\ tail = NULL /\ size = 0
  /\ next = [c \in Cell |-> NULL] /\ prev = [c \in Cell |-> NULL]
  /\ live = {} /\ list = << >>

Place(e) == CHOOSE k \in 1 .. Len(list) : list[k] = e

(* Either insertion when the list is empty, whatever the element is. *)
InsertFirst(new) ==
  /\ size = 0
  /\ head' = new /\ tail' = new
  /\ next' = [next EXCEPT ![new] = NULL] /\ prev' = [prev EXCEPT ![new] = NULL]
  /\ list' = <<new>>

InsertAfter(e, new) ==
  /\ size # 0
  /\ next' = [next EXCEPT ![new] = next[e], ![e] = new]
  /\ prev' = [c \in Cell |-> IF c = new THEN e
                             ELSE IF c = next[e] THEN new ELSE prev[c]]
  /\ tail' = IF next[e] = NULL THEN new ELSE tail
  /\ list' = InsertAt(list, Place(e) + 1, new)
  /\ UNCHANGED head

InsertBefore(e, new) ==
  /\ size # 0
  /\ prev' = [prev EXCEPT ![new] = prev[e], ![e] = new]
  /\ next' = [c \in Cell |-> IF c = new THEN e
                             ELSE IF c = prev[e] THEN new ELSE next[c]]
  /\ head' = IF prev[e] = NULL THEN new ELSE head
  /\ list' = InsertAt(list, Place(e), new)
  /\ UNCHANGED tail

(* malloc gives any cell that is not allocated. *)
Allocate(new) == new \notin live /\ live' = live \cup {new} /\ size' = size + 1

iDListInsertAfter(e, new) == Allocate(new) /\ (InsertFirst(new) \/ InsertAfter(e, new))
iDListInsertBefore(e, new) == Allocate(new) /\ (InsertFirst(new) \/ InsertBefore(e, new))
iDListAppend(new) == Allocate(new) /\ (InsertFirst(new) \/ InsertAfter(tail, new))
iDListPrepend(new) == Allocate(new) /\ (InsertFirst(new) \/ InsertBefore(head, new))

(* Faulty variant: the tail is left when its element is removed. *)
iDListRemoveTail(e) ==
  /\ e \in live
  /\ head' = IF e = head THEN next[e] ELSE head
  /\ tail' = IF e = head /\ next[e] = NULL THEN NULL ELSE tail
  /\ next' = [c \in Cell |-> IF e # head /\ c = prev[e] THEN next[e] ELSE next[c]]
  /\ prev' = [c \in Cell |-> IF c # next[e] THEN prev[c] ELSE IF e = head THEN NULL ELSE prev[e]]
  /\ live' = live \ {e} /\ size' = size - 1
  /\ list' = RemoveAt(list, Place(e))

iDListRemove(e) ==
  /\ e \in live
  /\ head' = IF e = head THEN next[e] ELSE head
  /\ tail' = IF next[e] # NULL THEN tail ELSE IF e = head THEN NULL ELSE prev[e]
  /\ next' = [c \in Cell |-> IF e # head /\ c = prev[e] THEN next[e] ELSE next[c]]
  /\ prev' = [c \in Cell |-> IF c # next[e] THEN prev[c] ELSE IF e = head THEN NULL ELSE prev[e]]
  /\ live' = live \ {e} /\ size' = size - 1
  /\ list' = RemoveAt(list, Place(e))


(* One turn of iDListDestroy, which ends as iDListInit left the list. *)
iDListDestroy == size # 0 /\ iDListRemove(tail)

Next ==
  \/ \E e \in live, new \in Cell : iDListInsertAfter(e, new)
  \/ \E e \in live, new \in Cell : iDListInsertBefore(e, new)
  \/ \E new \in Cell : iDListAppend(new)
  \/ \E new \in Cell : iDListPrepend(new)
  \/ \E e \in live : iDListRemove(e)
  \/ iDListDestroy

Spec == Init /\ [][Next]_vars

-----------------------------------------------------------------------------
(* Whatever is inserted and removed, and whatever cells malloc gives       *)
(* again, both ways along the list give what the calls describe, and the   *)
(* cells in use are those of the list.                                     *)
ListIsLinked ==
  /\ size = Len(list) /\ live = {list[k] : k \in 1 .. Len(list)} /\ Cardinality(live) = size
  /\ list = << >> => head = NULL /\ tail = NULL
  /\ list # << >> => head = list[1] /\ prev[head] = NULL /\ tail = Last(list) /\ next[tail] = NULL
  /\ \A k \in 1 .. Len(list) - 1 : next[list[k]] = list[k + 1] /\ prev[list[k + 1]] = list[k]
=============================================================================
