----------------------------- MODULE FlatVector -----------------------------
(***************************************************************************)
(* The flat vector (flat-vector.h): values packed one behind the other in  *)
(* fields as wide as the largest one needs.  A field may lie across two    *)
(* units.  A value read back is the set of its 1s, as a unit is.           *)
(***************************************************************************)
EXTENDS Words

EmptyFlat == [units |-> << >>, width |-> 0, size |-> 0]

Mask(f) == 0 .. f.width - 1

UnitId(f, i) == (i * f.width) \div UnitBits

UnitOffset(f, i) == (i * f.width) % UnitBits

Straddles(f, i) == UnitOffset(f, i) + f.width > UnitBits

(* operator[]; what is left of a unit above 32 bits the mask cuts off.     *)
FlatAt(f, i) ==
  LET low == ShiftRight(At(f.units, UnitId(f, i)), UnitOffset(f, i))
      high == ShiftLeft(At(f.units, UnitId(f, i) + 1), UnitBits - UnitOffset(f, i))
  IN Mask(f) \cap (IF Straddles(f, i) THEN low \cup high ELSE low)

(* The part of a field that lies in unit u.                                *)
Part(f, i, bits, u) ==
  IF u = UnitId(f, i) THEN ShiftLeft(bits, UnitOffset(f, i))
  ELSE IF u = UnitId(f, i) + 1 /\ Straddles(f, i) THEN ShiftRight(bits, UnitBits - UnitOffset(f, i))
  ELSE {}

(* A slip: only the first of the two units is cleared before it is set.    *)
FieldSetDirty(f, i, value) ==
  [f EXCEPT !.units = [k \in DOMAIN @ |->
     (IF k - 1 = UnitId(f, i) THEN @[k] \ Part(f, i, Mask(f), k - 1) ELSE @[k])
       \cup Part(f, i, value, k - 1)]]

(* set.                                                                    *)
FieldSet(f, i, value) ==
  [f EXCEPT !.units = [k \in DOMAIN @ |->
     (@[k] \ Part(f, i, Mask(f), k - 1)) \cup Part(f, i, value, k - 1)]]

(* Units for so many fields; resize leaves them as memory has them, and    *)
(* the last one is set to zero.                                            *)
NumUnits(width, size) ==
  IF size = 0 THEN 0
  ELSE IF width = 0 THEN 1
  ELSE (width * size + UnitBits - 1) \div UnitBits

Resized(width, size, memory) ==
  LET n == NumUnits(width, size)
  IN [units |-> [k \in 1 .. n |-> IF k = n THEN {} ELSE memory], width |-> width, size |-> size]

(* build_: fields for the largest value, and the values set one by one.    *)
Largest(values) == CHOOSE v \in {0} \cup Range(values) : \A w \in Range(values) : w <= v

FlatBuild(values, memory) ==
  LET resized == Resized(Width(Largest(values)), Len(values), memory)
      built[n \in 0 .. Len(values)] ==
        IF n = 0 THEN resized ELSE FieldSet(built[n - 1], n - 1, Ones(values[n]))
  IN built[Len(values)]

-----------------------------------------------------------------------------
(* Every value reads back, and no bit is set behind the last field: what   *)
(* is written to a file does not depend on what memory held.               *)
ValuesReadBack(f, values) ==
  /\ f.size = Len(values)
  /\ \A i \in 1 .. f.size : FlatAt(f, i - 1) = Ones(values[i])
  /\ \A k \in 1 .. Len(f.units) : \A b \in f.units[k] : (k - 1) * UnitBits + b < f.width * f.size
=============================================================================
