----------------------------- MODULE FlatMemory -----------------------------
(***************************************************************************)
(* What a memory promises: a write that succeeds stores all its data where *)
(* it was asked to and nowhere else, one that fails may have stored any    *)
(* part of them; a read that succeeds returns what is there.               *)
(***************************************************************************)
EXTENDS Naturals, Sequences

CONSTANTS Size, Value
VARIABLES cells, op, result

Address == 0 .. Size - 1
Idle == [kind |-> "idle", at |-> 0, data |-> << >>]

Init == cells = [a \in Address |-> 0] /\ op = Idle /\ result = << >>

(* The data of a read have the length that is asked for. *)
Call ==
  /\ op = Idle
  /\ op' \in [kind : {"read", "write"}, at : Address, data : Seq(Value)]
  /\ op'.at + Len(op'.data) <= Size
  /\ UNCHANGED <<cells, result>>

Range == op.at .. op.at + Len(op.data) - 1
Wanted(a) == op.data[a - op.at + 1]

Store(part) ==
  /\ op.kind = "write"
  /\ cells' = [a \in Address |-> IF a \in part THEN Wanted(a) ELSE cells[a]]
  /\ UNCHANGED <<op, result>>

Return(r) == op' = Idle /\ result' = r /\ UNCHANGED cells

WriteReturns == op.kind = "write" /\ (\A a \in Range : cells[a] = Wanted(a)) /\ Return(<<"ok">>)
ReadReturns == op.kind = "read" /\ Return(<<"read", [k \in 1 .. Len(op.data) |-> cells[op.at + k - 1]]>>)
Failure == op # Idle /\ Return(<<"error">>)

Next ==
  \/ Call
  \/ \E part \in SUBSET Range : Store(part)
  \/ WriteReturns \/ ReadReturns \/ Failure

Spec == Init /\ [][Next]_<<cells, op, result>>
=============================================================================
