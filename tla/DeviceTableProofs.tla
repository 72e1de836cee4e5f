-------------------------- MODULE DeviceTableProofs --------------------------
(***************************************************************************)
(* Proofs about DeviceTable: no pass writes beyond what the pass before it *)
(* allocated, none leaves a device without a name, and each record is of   *)
(* the device whose row it came from.                                      *)
(*                                                                         *)
(* The argument: both passes over the records meet a new device at the     *)
(* same records, those that begin a run of equal names, so one has counted *)
(* them all when it ends, and the other has entered no more of them than   *)
(* that at any time.                                                       *)
(***************************************************************************)
EXTENDS DeviceTable, FiniteSets, FiniteSetTheorems,
        SequenceTheorems, TLAPS

(* The records, of the first n, that begin a run of equal names. *)
Begins(q) == q = 1 \/ records[q].device # records[q - 1].device
Runs(n) == {q \in 1..n : Begins(q)}

Parsing == pc = "parse" =>
    Len(records) <= row /\ counted = 0 /\ current = Plain /\ devices = <<>>

Counting == pc = "count" =>
    /\ row <= Len(records) /\ devices = <<>>
    /\ counted = Cardinality(Runs(row))
    /\ row = 0 => current = Plain
    /\ row > 0 => current = records[row].device

Entering == pc = "enter" =>
    /\ row <= Len(records)
    /\ counted = Cardinality(Runs(Len(records)))
    /\ Len(devices) = Cardinality(Runs(row))
    /\ row = 0 => devices = <<>>
    /\ row > 0 => devices # <<>> /\ devices[Len(devices)].name = records[row].device

TableInv == TypeOK /\ Parsing /\ Counting /\ Entering /\ CountsAgree

-----------------------------------------------------------------------------
(* One record more begins a run more, or none.                             *)
LEMMA RunsGrow ==
    ASSUME NEW n \in Nat
    PROVE  /\ Runs(0) = {} /\ Cardinality(Runs(0)) = 0
           /\ IsFiniteSet(Runs(n)) /\ Cardinality(Runs(n)) \in 0..n
           /\ Begins(n + 1) => Cardinality(Runs(n + 1)) = Cardinality(Runs(n)) + 1
           /\ ~Begins(n + 1) => Runs(n + 1) = Runs(n)
<1>1. Runs(0) = {}
  BY DEF Runs
<1>2. IsFiniteSet(1..n) /\ Cardinality(1..n) = n
  BY FS_Interval
<1>3. Runs(n) \subseteq 1..n
  BY DEF Runs
<1>4. IsFiniteSet(Runs(n)) /\ Cardinality(Runs(n)) <= n
  BY <1>2, <1>3, FS_Subset
<1>5. Cardinality(Runs(n)) \in Nat
  BY <1>4, FS_CardinalityType
<1>6. ASSUME Begins(n + 1)
      PROVE  Cardinality(Runs(n + 1)) = Cardinality(Runs(n)) + 1
  <2>1. Runs(n + 1) = Runs(n) \cup {n + 1} /\ n + 1 \notin Runs(n)
    BY <1>6 DEF Runs
  <2> QED
    BY <2>1, <1>4, FS_AddElement
<1>7. ASSUME ~Begins(n + 1) PROVE Runs(n + 1) = Runs(n)
  BY <1>7 DEF Runs
<1>8. Cardinality(Runs(0)) = 0
  BY <1>1, FS_EmptySet
<1> QED
  BY <1>1, <1>4, <1>5, <1>6, <1>7, <1>8

(* Fewer records begin no more runs.                                       *)
LEMMA RunsMonotone ==
    ASSUME NEW m \in Nat, NEW n \in Nat, m <= n
    PROVE  Cardinality(Runs(m)) <= Cardinality(Runs(n))
<1>1. Runs(m) \subseteq Runs(n)
  BY DEF Runs
<1> QED
  BY <1>1, RunsGrow, FS_Subset

-----------------------------------------------------------------------------
LEMMA InitTableInv == Init => TableInv
<1> SUFFICES ASSUME Init PROVE TableInv
  OBVIOUS
<1>1. table \in Seq(Rows)
  BY TableAssumption DEF Init
<1>2. TypeOK
  BY <1>1 DEF Init, TypeOK
<1>3. Parsing /\ Counting /\ Entering /\ CountsAgree
  BY DEF Init, Parsing, Counting, Entering, CountsAgree
<1> QED
  BY <1>2, <1>3 DEF TableInv

LEMMA ParseKeeps == TableInv /\ ParseRow => TableInv'
<1> SUFFICES ASSUME TableInv, ParseRow PROVE TableInv'
  OBVIOUS
<1> DEFINE r == table[row + 1]
<1>1. /\ pc = "parse" /\ pc' = "parse" /\ row < Len(table) /\ row' = row + 1
      /\ table' = table /\ counted' = counted /\ current' = current /\ devices' = devices
  BY DEF ParseRow
<1>2. /\ counted = 0 /\ current = Plain /\ devices = <<>> /\ Len(records) <= row
      /\ records \in Seq(Record) /\ table \in Seq(Rows) /\ row \in Nat /\ Len(table) \in Nat
  BY <1>1 DEF TableInv, TypeOK, Parsing
<1>3. r \in Rows /\ last \in Devices \cup {Plain}
  BY <1>1, <1>2 DEF TableInv, TypeOK
<1>4. last' = IF r.name = Short THEN last ELSE NameOf(r)
  BY DEF ParseRow
<1>5. last' \in Devices \cup {Plain}
  BY <1>3, <1>4 DEF Rows, NameOf
<1>6. records' \in Seq(Record) /\ Len(records') <= Len(records) + 1
  <2> DEFINE record == [row |-> row + 1, device |-> NameOf(r)]
  <2>1. CASE Accepted(r)
    <3>1. record \in Record
      BY <1>2, <2>1 DEF Accepted, Record
    <3>2. records' = Append(records, record)
      BY <2>1 DEF ParseRow
    <3> QED
      BY <1>2, <3>1, <3>2
  <2>2. CASE ~Accepted(r)
    BY <1>2, <2>2 DEF ParseRow
  <2> QED
    BY <2>1, <2>2
<1>7. Len(records') \in Nat /\ Len(records) \in Nat
  BY <1>2, <1>6
<1>8. TypeOK'
  BY <1>1, <1>2, <1>5, <1>6, <1>7 DEF TypeOK
<1>9. Parsing' /\ Counting' /\ Entering' /\ CountsAgree'
  BY <1>1, <1>2, <1>6, <1>7 DEF Parsing, Counting, Entering, CountsAgree
<1> QED
  BY <1>8, <1>9 DEF TableInv

LEMMA CountKeeps == TableInv /\ CountRecord => TableInv'
<1> SUFFICES ASSUME TableInv, CountRecord PROVE TableInv'
  OBVIOUS
<1>1. /\ pc = "count" /\ pc' = "count" /\ row < Len(records) /\ row' = row + 1
      /\ table' = table /\ last' = last /\ records' = records /\ devices' = devices
      /\ current' = records[row + 1].device
  BY DEF CountRecord
<1>2. /\ devices = <<>> /\ records \in Seq(Record) /\ row \in Nat /\ Len(records) \in Nat
      /\ Len(records) <= Len(table) /\ Len(table) \in Nat /\ table \in Seq(Rows)
      /\ counted = Cardinality(Runs(row))
  BY <1>1 DEF TableInv, TypeOK, Counting
<1>3. row + 1 \in DOMAIN records /\ records[row + 1].device \in Devices
  <2>1. row + 1 \in 1..Len(records) /\ DOMAIN records = 1..Len(records)
    BY <1>1, <1>2
  <2>2. records[row + 1] \in Record
    BY <2>1, <1>2
  <2> QED
    BY <2>1, <2>2 DEF Record
<1>4. Begins(row + 1) <=> records[row + 1].device # current
  <2>1. CASE row = 0
    BY <2>1, <1>1, <1>3, NameAssumption DEF Begins, TableInv, Counting
  <2>2. CASE row > 0
    BY <2>2, <1>1, <1>2 DEF Begins, TableInv, Counting
  <2> QED
    BY <2>1, <2>2, <1>2
<1>5. counted' = Cardinality(Runs(row + 1))
  BY <1>2, <1>4, RunsGrow DEF CountRecord
<1>6. counted' \in 0..Len(records)
  BY <1>1, <1>2, <1>5, RunsGrow
<1>7. Cardinality(Runs(row))' = Cardinality(Runs(row + 1))
  BY <1>1 DEF Runs, Begins
<1>8. TypeOK'
  BY <1>1, <1>2, <1>3, <1>6 DEF TableInv, TypeOK
<1>9. Counting'
  BY <1>1, <1>2, <1>5, <1>7 DEF Counting
<1>10. Parsing' /\ Entering' /\ CountsAgree'
  BY <1>1 DEF Parsing, Entering, CountsAgree
<1> QED
  BY <1>8, <1>9, <1>10 DEF TableInv

LEMMA EnterKeeps == TableInv /\ EnterRecord => TableInv'
<1> SUFFICES ASSUME TableInv, EnterRecord PROVE TableInv'
  OBVIOUS
<1> DEFINE name == records[row + 1].device
           device == [name |-> name, variables |-> {}]
           Entry == [name : Devices, variables : SUBSET DOMAIN records]
<1>1. /\ pc = "enter" /\ pc' = "enter" /\ row < Len(records) /\ row' = row + 1
      /\ table' = table /\ last' = last /\ records' = records /\ counted' = counted
      /\ current' = current
  BY DEF EnterRecord
<1>2. /\ records \in Seq(Record) /\ row \in Nat /\ Len(records) \in Nat
      /\ Len(records) <= Len(table) /\ Len(table) \in Nat
      /\ devices \in Seq(Entry) /\ Len(devices) = Cardinality(Runs(row))
      /\ counted = Cardinality(Runs(Len(records)))
  BY <1>1 DEF TableInv, TypeOK, Entering
<1>3. row + 1 \in DOMAIN records /\ name \in Devices
  <2>1. row + 1 \in 1..Len(records) /\ DOMAIN records = 1..Len(records)
    BY <1>1, <1>2
  <2>2. records[row + 1] \in Record
    BY <2>1, <1>2
  <2> QED
    BY <2>1, <2>2 DEF Record
<1>4. device \in Entry
  BY <1>3
<1>5. Begins(row + 1) <=> (devices = <<>> \/ name # devices[Len(devices)].name)
  <2>1. CASE row = 0
    BY <2>1, <1>1 DEF Begins, TableInv, Entering
  <2>2. CASE row > 0
    BY <2>2, <1>1, <1>2 DEF Begins, TableInv, Entering
  <2> QED
    BY <2>1, <2>2, <1>2
<1> DEFINE Entered == /\ devices' \in Seq(Entry) /\ devices' # <<>>
                      /\ Len(devices') = Cardinality(Runs(row + 1))
                      /\ devices'[Len(devices')].name = name
<1>6. ASSUME Begins(row + 1) PROVE Entered
  <2> HIDE DEF Entry, device, name
  <2>1. devices' = Append(devices, device)
    BY <1>5, <1>6 DEF EnterRecord, device, name
  <2>2. devices' \in Seq(Entry) /\ Len(devices') = Len(devices) + 1 /\ devices' # <<>>
        /\ devices'[Len(devices')] = device
    BY <2>1, <1>2, <1>4
  <2>3. Len(devices') = Cardinality(Runs(row + 1))
    BY <2>2, <1>2, <1>6, RunsGrow
  <2>4. devices'[Len(devices')].name = name
    BY <2>2 DEF device
  <2> QED
    BY <2>2, <2>3, <2>4
<1>7. ASSUME ~Begins(row + 1) PROVE Entered
  <2>1. devices' = devices /\ devices # <<>> /\ devices[Len(devices)].name = name
    BY <1>5, <1>7 DEF EnterRecord
  <2>2. Len(devices') = Cardinality(Runs(row + 1))
    BY <2>1, <1>2, <1>7, RunsGrow
  <2> QED
    BY <2>1, <2>2, <1>2
<1>8. Entered
  BY <1>6, <1>7
<1>9. Len(devices') <= counted
  BY <1>1, <1>2, <1>8, RunsMonotone
<1>10. Cardinality(Runs(row))' = Cardinality(Runs(row + 1))
       /\ Cardinality(Runs(Len(records)))' = Cardinality(Runs(Len(records)))
  BY <1>1 DEF Runs, Begins
<1>11. TypeOK'
  BY <1>1, <1>2, <1>8, <1>9 DEF TableInv, TypeOK
<1>12. Entering'
  BY <1>1, <1>2, <1>8, <1>10 DEF Entering
<1>13. Parsing' /\ Counting' /\ CountsAgree'
  BY <1>1 DEF Parsing, Counting, CountsAgree
<1> QED
  BY <1>11, <1>12, <1>13 DEF TableInv

LEMMA FillKeeps == TableInv /\ FillDevice => TableInv'
<1> SUFFICES ASSUME TableInv, FillDevice PROVE TableInv'
  OBVIOUS
<1> DEFINE Entry == [name : Devices, variables : SUBSET DOMAIN records]
           chosen == {v \in DOMAIN records : records[v].device = devices[row + 1].name}
<1>1. /\ pc = "fill" /\ pc' = "fill" /\ row < counted /\ row' = row + 1
      /\ UNCHANGED <<table, last, records, counted, current>>
      /\ devices' = [devices EXCEPT ![row + 1].variables = chosen]
  BY DEF FillDevice
<1>2. /\ devices \in Seq(Entry) /\ Len(devices) = counted /\ row \in Nat
      /\ counted \in 0..Len(records) /\ Len(records) <= Len(table)
      /\ Len(records) \in Nat /\ Len(table) \in Nat
  BY <1>1 DEF TableInv, TypeOK, CountsAgree
<1>3. chosen \in SUBSET DOMAIN records
  OBVIOUS
<1> HIDE DEF chosen
<1>4. devices' \in Seq(Entry) /\ Len(devices') = Len(devices)
  <2>1. row + 1 \in 1..Len(devices)
    BY <1>1, <1>2
  <2>2. [devices[row + 1] EXCEPT !.variables = chosen] \in Entry
    <3>1. devices[row + 1] \in Entry
      <4> HIDE DEF Entry
      <4> QED
        BY <2>1, <1>2
    <3> QED
      BY <3>1, <1>3
  <2>3. devices' = [devices EXCEPT ![row + 1] =
                       [devices[row + 1] EXCEPT !.variables = chosen]]
    BY <1>1
  <2> HIDE DEF Entry
  <2> QED
    BY <2>1, <2>2, <2>3, <1>2, ExceptSeq
<1>5. TypeOK'
  BY <1>1, <1>2, <1>4 DEF TableInv, TypeOK
<1>6. Parsing' /\ Counting' /\ Entering' /\ CountsAgree'
  BY <1>1, <1>2, <1>4 DEF Parsing, Counting, Entering, CountsAgree
<1> QED
  BY <1>5, <1>6 DEF TableInv

LEMMA StepTableInv == TableInv /\ [Next]_vars => TableInv'
<1> SUFFICES ASSUME TableInv, [Next]_vars PROVE TableInv'
  OBVIOUS
<1> USE DEF TableInv, TypeOK, Parsing, Counting, Entering, CountsAgree
<1>1. CASE ParseRow
  BY <1>1, ParseKeeps
<1>2. CASE EndParsing
  <2>1. Cardinality(Runs(0)) = 0
    BY RunsGrow
  <2>2. Cardinality(Runs(0))' = Cardinality(Runs(0))
    BY <1>2 DEF EndParsing, Runs, Begins
  <2> QED
    BY <1>2, <2>1, <2>2 DEF EndParsing
<1>3. CASE CountRecord
  BY <1>3, CountKeeps
<1>4. CASE Allocate
  <2>1. Cardinality(Runs(0)) = 0
    BY RunsGrow
  <2>2. Cardinality(Runs(0))' = Cardinality(Runs(0))
        /\ Cardinality(Runs(Len(records)))' = Cardinality(Runs(Len(records)))
    BY <1>4 DEF Allocate, Runs, Begins
  <2> QED
    BY <1>4, <2>1, <2>2 DEF Allocate
<1>5. CASE AllocateFails
  BY <1>5 DEF AllocateFails
<1>6. CASE EnterRecord
  BY <1>6, EnterKeeps
<1>7. CASE EndEntering
  BY <1>7 DEF EndEntering
<1>8. CASE FillDevice
  BY <1>8, FillKeeps
<1>9. CASE EndFilling
  BY <1>9 DEF EndFilling
<1>10. CASE UNCHANGED vars
  <2>1. Cardinality(Runs(row))' = Cardinality(Runs(row))
        /\ Cardinality(Runs(Len(records)))' = Cardinality(Runs(Len(records)))
    BY <1>10 DEF vars, Runs, Begins
  <2> QED
    BY <1>10, <2>1 DEF vars
<1> QED
  BY <1>1, <1>2, <1>3, <1>4, <1>5, <1>6, <1>7, <1>8, <1>9, <1>10 DEF Next

(* The passes over the table keep what they assume of one another.         *)
THEOREM TableInvariant == Spec => []TableInv
<1> QED
  BY InitTableInv, StepTableInv, PTL DEF Spec

(* Whatever the file holds, no pass writes beyond what was allocated for   *)
(* it: no more records than rows, no more devices than were counted.       *)
THEOREM TableWithinBounds == Spec => []TypeOK
<1>1. TableInv => TypeOK
  BY DEF TableInv
<1> QED
  BY <1>1, TableInvariant, PTL

(* Whatever the file holds, each of the devices counted gets its name.     *)
THEOREM EveryDeviceNamed == Spec => []CountsAgree
<1>1. TableInv => CountsAgree
  BY DEF TableInv
<1> QED
  BY <1>1, TableInvariant, PTL

-----------------------------------------------------------------------------
(* Whose row a row is.                                                     *)
(*                                                                         *)
(* lastValidName is the name of the nearest row that has one, and each     *)
(* whole row the parser has behind it is a record of that name, or no      *)
(* device's.  When the parser ends this holds of the file, and no later    *)
(* pass writes a record.                                                   *)
Whole(j) == table[j].whole /\ table[j].name # Short
Passed == IF pc = "parse" THEN row ELSE Len(table)

Remembered == pc = "parse" =>
    \/ last = Plain /\ \A m \in 1..row : ~Named(m)
    \/ \E k \in 1..row : Nearest(row, k) /\ table[k].name = last

Inherits(r) ==
    /\ records[r].row \in 1..Passed
    /\ table[records[r].row].whole
    /\ \E k \in 1..Passed : /\ Nearest(records[r].row, k)
                            /\ table[k].name = records[r].device

Recorded(j) == \A k \in 1..Passed :
    Nearest(j, k) /\ table[k].name \in Devices /\ Whole(j)
    => \E r \in DOMAIN records : records[r].row = j

NamesInv ==
    /\ TableInv
    /\ Remembered
    /\ \A r \in DOMAIN records : Inherits(r)
    /\ \A q, r \in DOMAIN records : q < r => records[q].row < records[r].row
    /\ \A j \in 1..Passed : Recorded(j)

(* One row at most is the nearest with a name. *)
LEMMA NearestOne ==
    ASSUME NEW j \in Nat, NEW k \in Nat, NEW m \in Nat, Nearest(j, k), Nearest(j, m)
    PROVE  k = m
<1>1. ASSUME k < m PROVE FALSE
  <2>1. m \in (k + 1)..j
    BY <1>1 DEF Nearest
  <2> QED
    BY <2>1 DEF Nearest
<1>2. ASSUME m < k PROVE FALSE
  <2>1. k \in (m + 1)..j
    BY <1>2 DEF Nearest
  <2> QED
    BY <2>1 DEF Nearest
<1> QED
  BY <1>1, <1>2

(* A row with a name is its own nearest; one without has that of the row   *)
(* above.                                                                  *)
LEMMA NearestNext ==
    ASSUME NEW n \in Nat, NEW k \in Nat
    PROVE  /\ Named(n + 1) => (Nearest(n + 1, k) <=> k = n + 1)
           /\ ~Named(n + 1) => (Nearest(n + 1, k) <=> Nearest(n, k))
<1>1. ASSUME Named(n + 1), Nearest(n + 1, k) PROVE k = n + 1
  <2>1. k <= n + 1 /\ (k # n + 1 => n + 1 \in (k + 1)..(n + 1))
    BY <1>1 DEF Nearest
  <2> QED
    BY <2>1, <1>1 DEF Nearest
<1>2. Named(n + 1) => Nearest(n + 1, n + 1)
  BY DEF Nearest
<1>3. ASSUME ~Named(n + 1), Nearest(n + 1, k) PROVE Nearest(n, k)
  <2>1. k # n + 1
    BY <1>3 DEF Nearest
  <2> QED
    BY <2>1, <1>3 DEF Nearest
<1>4. ASSUME ~Named(n + 1), Nearest(n, k) PROVE Nearest(n + 1, k)
  <2>1. ASSUME NEW m \in (k + 1)..(n + 1) PROVE ~Named(m)
    <3>1. m = n + 1 \/ m \in (k + 1)..n
      OBVIOUS
    <3> QED
      BY <3>1, <1>4 DEF Nearest
  <2>2. k <= n + 1 /\ Named(k)
    BY <1>4 DEF Nearest
  <2> QED
    BY <2>1, <2>2 DEF Nearest
<1> QED
  BY <1>1, <1>2, <1>3, <1>4

(* The parser accepts a row if it is whole and its nearest name is that of *)
(* a device, which is then the name it gives the record.                   *)
LEMMA AcceptedRow ==
    ASSUME NamesInv, pc = "parse", row < Len(table),
           NEW n, n = row + 1, NEW r, r = table[n]
    PROVE  /\ r.name # Short =>
                  \/ NameOf(r) = Plain /\ \A m \in 1..n : ~Named(m)
                  \/ \E k \in 1..n : Nearest(n, k) /\ table[k].name = NameOf(r)
           /\ Accepted(r) =>
                  \E k \in 1..n : Nearest(n, k) /\ table[k].name = NameOf(r)
           /\ \A k \in 1..n : Nearest(n, k) /\ table[k].name \in Devices /\ Whole(n)
                  => Accepted(r)
<1>1. row \in Nat /\ n \in Nat /\ n \in 1..n /\ r \in Rows
  BY DEF NamesInv, TableInv, TypeOK
<1>2. \/ last = Plain /\ \A m \in 1..row : ~Named(m)
      \/ \E k \in 1..row : Nearest(row, k) /\ table[k].name = last
  BY DEF NamesInv, Remembered
<1>3. Named(n) <=> r.name \notin {Null, Short}
  BY DEF Named
<1>4. ASSUME r.name # Short
      PROVE  \/ NameOf(r) = Plain /\ \A m \in 1..n : ~Named(m)
             \/ \E k \in 1..n : Nearest(n, k) /\ table[k].name = NameOf(r)
  <2>1. CASE Named(n)
    BY <2>1, <1>1, <1>3, NearestNext DEF NameOf
  <2>2. CASE ~Named(n)
    <3>1. NameOf(r) = last
      BY <2>2, <1>3, <1>4 DEF NameOf
    <3>2. ASSUME NEW k \in 1..row, Nearest(row, k) PROVE k \in 1..n /\ Nearest(n, k)
      BY <3>2, <2>2, <1>1, NearestNext
    <3>3. (\A m \in 1..row : ~Named(m)) => \A m \in 1..n : ~Named(m)
      BY <2>2, <1>1
    <3> QED
      BY <3>1, <3>2, <3>3, <1>2
  <2> QED
    BY <2>1, <2>2
<1>5. ASSUME Accepted(r)
      PROVE  \E k \in 1..n : Nearest(n, k) /\ table[k].name = NameOf(r)
  BY <1>4, <1>5, NameAssumption DEF Accepted
<1>6. ASSUME NEW k \in 1..n, Nearest(n, k), table[k].name \in Devices, Whole(n)
      PROVE  Accepted(r)
  <2>1. Named(k) /\ r.name # Short
    BY <1>6 DEF Nearest, Whole
  <2>2. PICK m \in 1..n : Nearest(n, m) /\ table[m].name = NameOf(r)
    BY <2>1, <1>4
  <2>3. k = m
    BY <2>2, <1>1, <1>6, NearestOne
  <2> QED
    BY <2>1, <2>2, <2>3, <1>6 DEF Accepted, Whole
<1> QED
  BY <1>4, <1>5, <1>6

LEMMA ParseKeepsNames == NamesInv /\ ParseRow => NamesInv'
<1> SUFFICES ASSUME NamesInv, ParseRow PROVE NamesInv'
  OBVIOUS
<1> DEFINE n == row + 1
           r == table[n]
           record == [row |-> n, device |-> NameOf(r)]
<1>1. /\ pc = "parse" /\ pc' = "parse" /\ row < Len(table) /\ row' = n /\ table' = table
      /\ last' = IF r.name = Short THEN last ELSE NameOf(r)
      /\ records' = IF Accepted(r) THEN Append(records, record) ELSE records
  BY DEF ParseRow
<1>2. /\ row \in Nat /\ n \in Nat /\ records \in Seq(Record) /\ Len(records) \in Nat
      /\ r \in Rows /\ Len(table) \in Nat
  BY <1>1 DEF NamesInv, TableInv, TypeOK
<1>3. TableInv'
  BY ParseKeeps DEF NamesInv
<1>4. /\ \A j : Named(j)' <=> Named(j)
      /\ \A j, k : Nearest(j, k)' <=> Nearest(j, k)
      /\ \A j : Whole(j)' <=> Whole(j)
      /\ Passed = row /\ Passed' = n
  BY <1>1 DEF Named, Nearest, Whole, Passed
<1> DEFINE Kin(name) == \E k \in 1..n : Nearest(n, k) /\ table[k].name = name
<1>5. /\ r.name # Short => (NameOf(r) = Plain /\ \A m \in 1..n : ~Named(m)) \/ Kin(NameOf(r))
      /\ Accepted(r) => Kin(NameOf(r))
      /\ \A k \in 1..n : Nearest(n, k) /\ table[k].name \in Devices /\ Whole(n) => Accepted(r)
  BY <1>1, AcceptedRow
<1>6. Remembered'
  <2>1. CASE r.name # Short
    BY <2>1, <1>1, <1>4, <1>5 DEF Remembered
  <2>2. CASE r.name = Short
    <3>1. ~Named(n)
      BY <2>2 DEF Named
    <3>2. \/ last = Plain /\ \A m \in 1..row : ~Named(m)
          \/ \E k \in 1..row : Nearest(row, k) /\ table[k].name = last
      BY <1>1 DEF NamesInv, Remembered
    <3>3. ASSUME NEW k \in 1..row, Nearest(row, k) PROVE k \in 1..n /\ Nearest(n, k)
      BY <3>3, <3>1, <1>2, NearestNext
    <3>4. (\A m \in 1..row : ~Named(m)) => \A m \in 1..n : ~Named(m)
      BY <3>1, <1>2
    <3>5. (last = Plain /\ \A m \in 1..n : ~Named(m)) \/ Kin(last)
      BY <3>2, <3>3, <3>4
    <3> QED
      BY <3>5, <2>2, <1>1, <1>4 DEF Remembered
  <2> QED
    BY <2>1, <2>2
<1> HIDE DEF r, record
<1>7. ASSUME NEW q \in DOMAIN records
      PROVE  /\ records[q].row \in 1..row /\ table[records[q].row].whole
             /\ \E k \in 1..n : /\ Nearest(records[q].row, k)
                                /\ table[k].name = records[q].device
  BY <1>2, <1>4 DEF NamesInv, Inherits
<1>8. /\ DOMAIN records \subseteq DOMAIN records'
      /\ \A q \in DOMAIN records : records'[q] = records[q]
      /\ ~Accepted(r) => DOMAIN records' = DOMAIN records
      /\ Accepted(r) => /\ DOMAIN records' = DOMAIN records \cup {Len(records) + 1}
                        /\ records'[Len(records) + 1] = record
      /\ \A q \in DOMAIN records : q < Len(records) + 1
  BY <1>1, <1>2
<1>9. record.row = n /\ record.device = NameOf(r)
  BY DEF record
<1>10. ASSUME NEW q \in DOMAIN records' PROVE Inherits(q)'
  <2>1. CASE q \in DOMAIN records
    <3>1. records'[q] = records[q] /\ records[q].row \in 1..n
      BY <2>1, <1>2, <1>7, <1>8
    <3>2. table[records[q].row].whole
      BY <2>1, <1>7
    <3>3. \E k \in 1..n :
              /\ k <= records[q].row /\ table[k].name \notin {Null, Short}
              /\ \A m \in (k + 1)..records[q].row : table[m].name \in {Null, Short}
              /\ table[k].name = records[q].device
      BY <2>1, <1>7 DEF Nearest, Named
    <3> QED
      BY <3>1, <3>2, <3>3, <1>1, <1>4 DEF Inherits, Nearest, Named
  <2>2. CASE q \notin DOMAIN records
    <3>1. Accepted(r) /\ records'[q] = record
      BY <2>2, <1>8
    <3>2. r.whole /\ n \in 1..n
      BY <3>1, <1>2 DEF Accepted
    <3> QED
      BY <3>1, <3>2, <1>1, <1>4, <1>5, <1>9 DEF Inherits, r
  <2> QED
    BY <2>1, <2>2
<1>11. ASSUME NEW p \in DOMAIN records', NEW q \in DOMAIN records', p < q
       PROVE  records'[p].row < records'[q].row
  <2>1. CASE q \in DOMAIN records
    <3>1. p \in DOMAIN records
      BY <2>1, <1>2, <1>8, <1>11
    <3> QED
      BY <3>1, <2>1, <1>8, <1>11 DEF NamesInv
  <2>2. CASE q \notin DOMAIN records
    <3>1. records'[q] = record /\ p \in DOMAIN records
      BY <2>2, <1>2, <1>8, <1>11
    <3> QED
      BY <3>1, <1>2, <1>7, <1>8, <1>9
  <2> QED
    BY <2>1, <2>2
<1>12. ASSUME NEW j \in 1..n, NEW k \in 1..n,
              Nearest(j, k), table[k].name \in Devices, Whole(j)
       PROVE  \E q \in DOMAIN records' : records'[q].row = j
  <2>1. CASE j = n
    <3>1. Accepted(r)
      BY <2>1, <1>5, <1>12
    <3> QED
      BY <3>1, <2>1, <1>8, <1>9
  <2>2. CASE j # n
    <3>1. j \in 1..row /\ k \in 1..row
      BY <2>2, <1>2, <1>12 DEF Nearest
    <3>2. \E q \in DOMAIN records : records[q].row = j
      BY <3>1, <1>4, <1>12 DEF NamesInv, Recorded
    <3> QED
      BY <3>2, <1>8
  <2> QED
    BY <2>1, <2>2
<1>13. \A j \in 1..Passed' : Recorded(j)'
  BY <1>1, <1>4, <1>12 DEF Recorded
<1> QED
  BY <1>3, <1>6, <1>10, <1>11, <1>13 DEF NamesInv

(* The passes that follow leave the file and the records alone. *)
LEMMA LaterKeepsNames ==
    ASSUME NamesInv, TableInv', pc' # "parse", records' = records, table' = table,
           pc = "parse" => row = Len(table)
    PROVE  NamesInv'
<1>1. Passed = Len(table) /\ Passed' = Len(table)
  BY DEF Passed
<1>2. /\ \A j, k : Nearest(j, k)' <=> Nearest(j, k)
      /\ \A j : Whole(j)' <=> Whole(j)
  BY DEF Nearest, Named, Whole
<1>3. Remembered'
  BY DEF Remembered
<1>4. \A r \in DOMAIN records : Inherits(r)'
  BY <1>1, <1>2 DEF NamesInv, Inherits
<1>5. \A j \in 1..Passed : Recorded(j)'
  BY <1>1, <1>2 DEF NamesInv, Recorded
<1> QED
  BY <1>1, <1>3, <1>4, <1>5 DEF NamesInv

LEMMA StepNames == NamesInv /\ [Next]_vars => NamesInv'
<1> SUFFICES ASSUME NamesInv, [Next]_vars PROVE NamesInv'
  OBVIOUS
<1>1. TableInv'
  BY StepTableInv DEF NamesInv
<1>2. CASE ParseRow
  BY <1>2, ParseKeepsNames
<1>3. CASE UNCHANGED vars
  <2>1. Passed' = Passed /\ table' = table /\ records' = records
        /\ pc' = pc /\ row' = row /\ last' = last
    BY <1>3 DEF vars, Passed
  <2>2. /\ \A j, k : Nearest(j, k)' <=> Nearest(j, k)
        /\ \A j : Named(j)' <=> Named(j)
        /\ \A j : Whole(j)' <=> Whole(j)
    BY <2>1 DEF Nearest, Named, Whole
  <2>3. Remembered'
    BY <2>1, <2>2 DEF NamesInv, Remembered
  <2>4. \A r \in DOMAIN records : Inherits(r)'
    BY <2>1, <2>2 DEF NamesInv, Inherits
  <2>5. \A j \in 1..Passed : Recorded(j)'
    BY <2>1, <2>2 DEF NamesInv, Recorded
  <2> QED
    BY <2>1, <2>3, <2>4, <2>5, <1>1 DEF NamesInv
<1>4. ASSUME Next, ~ParseRow
      PROVE  /\ pc' # "parse" /\ records' = records /\ table' = table
             /\ pc = "parse" => row = Len(table)
  BY <1>4 DEF Next, EndParsing, CountRecord, Allocate, AllocateFails,
              EnterRecord, EndEntering, FillDevice, EndFilling
<1> QED
  BY <1>1, <1>2, <1>3, <1>4, LaterKeepsNames

LEMMA InitNames == Init => NamesInv
<1> SUFFICES ASSUME Init PROVE NamesInv
  OBVIOUS
<1>1. TableInv /\ Remembered
  BY InitTableInv DEF Init, Remembered
<1>2. DOMAIN records = {} /\ 1..Passed = {}
  BY DEF Init, Passed
<1> QED
  BY <1>1, <1>2 DEF NamesInv

LEMMA NamesInvariant == Spec => []NamesInv
BY InitNames, StepNames, PTL DEF Spec

(* Whatever the file holds, each record is of the device of the nearest    *)
(* row above it that has a name, in the order of the file, and no whole    *)
(* row of a device is without its record.                                  *)
THEOREM RecordsInheritNames == Spec => []NamesInherited
<1>1. ASSUME NamesInv PROVE NamesInherited
  <2>1. /\ DOMAIN table = 1..Len(table) /\ Passed \in 0..Len(table)
        /\ DOMAIN records = 1..Len(records) /\ Len(records) \in Nat
    BY <1>1 DEF NamesInv, TableInv, TypeOK, Passed
  <2>2. ASSUME NEW r \in DOMAIN records
        PROVE  /\ table[records[r].row].whole
               /\ \E k \in DOMAIN table : /\ Nearest(records[r].row, k)
                                          /\ table[k].name = records[r].device
               /\ \A q \in 1..(r - 1) : records[q].row < records[r].row
    <3>1. Inherits(r) /\ 1..Passed \subseteq DOMAIN table
      BY <1>1, <2>1 DEF NamesInv
    <3>2. \A q \in 1..(r - 1) : q \in DOMAIN records /\ q < r
      BY <2>1
    <3> QED
      BY <3>1, <3>2, <1>1 DEF NamesInv, Inherits
  <2>3. ASSUME pc # "parse", NEW j \in DOMAIN table, NEW k \in DOMAIN table,
               Nearest(j, k), table[k].name \in Devices,
               table[j].whole, table[j].name # Short
        PROVE  \E r \in DOMAIN records : records[r].row = j
    <3>1. Passed = Len(table)
      BY <2>3 DEF Passed
    <3> QED
      BY <3>1, <2>1, <2>3, <1>1 DEF NamesInv, Recorded, Whole
  <2> QED
    BY <2>2, <2>3 DEF NamesInherited
<1> QED
  BY <1>1, NamesInvariant, PTL

-----------------------------------------------------------------------------
(* Whose variable a record is.                                             *)
(*                                                                         *)
(* The names entered are those of the records behind the pass, and before  *)
(* a later device entered begins a run after a record of the earlier one:  *)
(* where the rows of a device are together the two have not one name.      *)
Behind == IF pc = "enter" THEN row ELSE Len(records)

Entered(q) == \E d \in DOMAIN devices : devices[d].name = records[q].device
Sourced(d) == \E q \in 1..Behind : records[q].device = devices[d].name
Parted(d, e) == \E q, r \in 1..Behind :
    /\ q < r /\ Begins(r)
    /\ records[q].device = devices[d].name
    /\ records[r].device = devices[e].name

Met == pc \in {"enter", "fill", "done"} =>
    /\ \A q \in 1..Behind : Entered(q)
    /\ \A d \in DOMAIN devices : Sourced(d)
    /\ \A d, e \in DOMAIN devices : d < e => Parted(d, e)

Filled == pc \in {"fill", "done"} =>
    /\ pc = "done" => row = counted
    /\ \A d \in DOMAIN devices : d <= row =>
           devices[d].variables =
               {v \in DOMAIN records : records[v].device = devices[d].name}

PlacedInv == TableInv /\ Met /\ Filled

LEMMA EnterKeepsPlaced == PlacedInv /\ EnterRecord => PlacedInv'
<1> SUFFICES ASSUME PlacedInv, EnterRecord PROVE PlacedInv'
  OBVIOUS
<1> DEFINE n == row + 1
           name == records[n].device
           device == [name |-> name, variables |-> {}]
<1>1. /\ pc = "enter" /\ pc' = "enter" /\ row < Len(records) /\ row' = n /\ records' = records
      /\ devices' = IF devices = <<>> \/ name # devices[Len(devices)].name
                    THEN Append(devices, device) ELSE devices
  BY DEF EnterRecord
<1>2. /\ row \in Nat /\ n \in Nat /\ Len(records) \in Nat /\ n \in 1..n
      /\ 1..row \subseteq 1..n
      /\ devices \in Seq([name : Devices, variables : SUBSET DOMAIN records])
      /\ row = 0 => devices = <<>>
      /\ row > 0 => devices # <<>> /\ devices[Len(devices)].name = records[row].device
  BY <1>1 DEF PlacedInv, TableInv, TypeOK, Entering
<1>3. /\ \A q \in 1..row : Entered(q)
      /\ \A d \in DOMAIN devices : Sourced(d)
      /\ \A d, e \in DOMAIN devices : d < e => Parted(d, e)
      /\ Behind = row /\ Behind' = n
      /\ \A q : Begins(q)' <=> Begins(q)
  BY <1>1 DEF PlacedInv, Met, Behind, Begins
<1> HIDE DEF device
<1>4. TableInv'
  BY EnterKeeps DEF PlacedInv
<1>5. device.name = name
  BY DEF device
<1>6. CASE devices' = devices
  <2>1. devices # <<>> /\ name = devices[Len(devices)].name
    <3>1. ASSUME devices' = Append(devices, device) PROVE FALSE
      <4>1. Len(devices') = Len(devices) + 1 /\ Len(devices) \in Nat
        BY <3>1, <1>2
      <4> QED
        BY <4>1, <1>6
    <3> QED
      BY <3>1, <1>1
  <2>2. Len(devices) \in DOMAIN devices
    BY <2>1, <1>2
  <2>3. ASSUME NEW q \in 1..n PROVE Entered(q)'
    <3>1. q = n \/ q \in 1..row
      BY <1>2
    <3>2. Entered(q)
      BY <3>1, <2>1, <2>2, <1>3 DEF Entered
    <3> QED
      BY <3>2, <1>1, <1>6 DEF Entered
  <2>4. ASSUME NEW d \in DOMAIN devices PROVE Sourced(d)'
    BY <1>1, <1>2, <1>3, <1>6 DEF Sourced
  <2>5. ASSUME NEW d \in DOMAIN devices, NEW e \in DOMAIN devices, d < e
        PROVE  Parted(d, e)'
    <3>1. PICK q \in 1..row, r \in 1..row :
              /\ q < r /\ Begins(r)
              /\ records[q].device = devices[d].name
              /\ records[r].device = devices[e].name
      BY <2>5, <1>3 DEF Parted
    <3>2. q \in 1..n /\ r \in 1..n
      BY <1>2
    <3> QED
      BY <3>1, <3>2, <1>1, <1>3, <1>6 DEF Parted
  <2>6. Met'
    BY <2>3, <2>4, <2>5, <1>3, <1>6 DEF Met
  <2> QED
    BY <2>6, <1>1, <1>4 DEF PlacedInv, Filled
<1>7. ASSUME devices' # devices PROVE PlacedInv'
  <2> DEFINE new == Len(devices) + 1
  <2>1. devices' = Append(devices, device) /\ (devices = <<>> \/ name # devices[Len(devices)].name)
    BY <1>1, <1>7
  <2>2. /\ DOMAIN devices' = DOMAIN devices \cup {new}
        /\ devices'[new].name = name
        /\ \A d \in DOMAIN devices : devices'[d] = devices[d] /\ d < new /\ d \in Nat
        /\ new \in Nat
    BY <2>1, <1>2, <1>5
  <2>3. Begins(n)
    <3>1. row = 0 \/ (row > 0 /\ n - 1 = row)
      BY <1>2
    <3> QED
      BY <3>1, <2>1, <1>2 DEF Begins
  <2> HIDE DEF new
  <2>4. ASSUME NEW q \in 1..n PROVE Entered(q)'
    <3>1. q = n \/ q \in 1..row
      BY <1>2
    <3> QED
      BY <3>1, <2>2, <1>1, <1>3 DEF Entered
  <2>5. ASSUME NEW d \in DOMAIN devices' PROVE Sourced(d)'
    <3>1. CASE d \in DOMAIN devices
      BY <3>1, <2>2, <1>1, <1>2, <1>3 DEF Sourced
    <3>2. CASE d = new
      BY <3>2, <2>2, <1>1, <1>2, <1>3 DEF Sourced
    <3> QED
      BY <3>1, <3>2, <2>2
  <2>6. ASSUME NEW d \in DOMAIN devices', NEW e \in DOMAIN devices', d < e
        PROVE  Parted(d, e)'
    <3>1. d \in DOMAIN devices /\ devices'[d].name = devices[d].name
      BY <2>2, <2>6
    <3>2. CASE e \in DOMAIN devices
      <4>1. PICK q \in 1..row, r \in 1..row :
                /\ q < r /\ Begins(r)
                /\ records[q].device = devices[d].name
                /\ records[r].device = devices[e].name
        BY <3>1, <3>2, <2>6, <1>3 DEF Parted
      <4>2. q \in 1..n /\ r \in 1..n /\ devices'[e].name = devices[e].name
        BY <3>2, <2>2, <1>2
      <4> QED
        BY <4>1, <4>2, <3>1, <1>1, <1>3 DEF Parted
    <3>3. CASE e \notin DOMAIN devices
      <4>1. PICK q \in 1..row : records[q].device = devices[d].name
        BY <3>1, <1>3 DEF Sourced
      <4>2. q < n /\ q \in 1..n /\ n \in 1..n /\ devices'[e].name = name
        BY <3>3, <2>2, <1>2
      <4> QED
        BY <4>1, <4>2, <3>1, <2>3, <1>1, <1>3 DEF Parted
    <3> QED
      BY <3>2, <3>3
  <2>7. Met'
    BY <2>4, <2>5, <2>6, <1>3 DEF Met
  <2> QED
    BY <2>7, <1>1, <1>4 DEF PlacedInv, Filled
<1> QED
  BY <1>6, <1>7

LEMMA FillKeepsPlaced == PlacedInv /\ FillDevice => PlacedInv'
<1> SUFFICES ASSUME PlacedInv, FillDevice PROVE PlacedInv'
  OBVIOUS
<1> DEFINE Of(name) == {v \in DOMAIN records : records[v].device = name}
           chosen == Of(devices[row + 1].name)
<1>1. /\ pc = "fill" /\ pc' = "fill" /\ row' = row + 1 /\ records' = records
      /\ devices' = [devices EXCEPT ![row + 1].variables = chosen]
  BY DEF FillDevice
<1>2. /\ row \in Nat
      /\ devices \in Seq([name : Devices, variables : SUBSET DOMAIN records])
  BY <1>1 DEF PlacedInv, TableInv, TypeOK
<1>3. TableInv'
  BY FillKeeps DEF PlacedInv
<1> HIDE DEF Of
<1>4. /\ DOMAIN devices' = DOMAIN devices
      /\ \A d \in DOMAIN devices : d # row + 1 => devices'[d] = devices[d]
      /\ row + 1 \in DOMAIN devices =>
             devices'[row + 1] = [devices[row + 1] EXCEPT !.variables = chosen]
  BY <1>1, <1>2
<1>5. ASSUME NEW d \in DOMAIN devices
      PROVE  /\ devices'[d].name = devices[d].name
             /\ d = row + 1 => devices'[d].variables = chosen
             /\ d # row + 1 => devices'[d].variables = devices[d].variables
  <2>1. devices[d] \in [name : Devices, variables : SUBSET DOMAIN records]
    <3> DEFINE Entry == [name : Devices, variables : SUBSET DOMAIN records]
    <3>1. devices \in Seq(Entry)
      BY <1>2
    <3> HIDE DEF Entry
    <3>2. devices[d] \in Entry
      BY <3>1
    <3> QED
      BY <3>2 DEF Entry
  <2>2. CASE d = row + 1
    <3>1. devices'[d] = [devices[d] EXCEPT !.variables = chosen]
      BY <2>2, <1>4
    <3> QED
      BY <3>1, <2>1, <2>2
  <2>3. CASE d # row + 1
    BY <2>3, <1>4
  <2> QED
    BY <2>2, <2>3
<1>6. Met'
  <2>1. /\ \A q \in 1..Behind : Entered(q)
        /\ \A d \in DOMAIN devices : Sourced(d)
        /\ \A d, e \in DOMAIN devices : d < e => Parted(d, e)
    BY <1>1 DEF PlacedInv, Met
  <2>2. Behind' = Behind /\ \A q : Begins(q)' <=> Begins(q)
    BY <1>1 DEF Behind, Begins
  <2>3. \A q \in 1..Behind : Entered(q)'
    BY <2>1, <1>1, <1>4, <1>5 DEF Entered
  <2>4. \A d \in DOMAIN devices : Sourced(d)'
    BY <2>1, <2>2, <1>1, <1>5 DEF Sourced
  <2>5. \A d, e \in DOMAIN devices : d < e => Parted(d, e)'
    BY <2>1, <2>2, <1>1, <1>5 DEF Parted
  <2> QED
    BY <2>2, <2>3, <2>4, <2>5, <1>4 DEF Met
<1>7. ASSUME NEW d \in DOMAIN devices, d <= row + 1
      PROVE  devices'[d].variables = Of(devices'[d].name)
  <2>1. CASE d = row + 1
    BY <2>1, <1>5
  <2>2. CASE d # row + 1
    <3>1. d <= row
      BY <2>2, <1>2, <1>7
    <3> QED
      BY <3>1, <2>2, <1>1, <1>5 DEF PlacedInv, Filled, Of
  <2> QED
    BY <2>1, <2>2
<1>8. Filled'
  BY <1>1, <1>4, <1>7 DEF Filled, Of
<1> QED
  BY <1>3, <1>6, <1>8 DEF PlacedInv

LEMMA SameMet ==
    ASSUME Met, pc \in {"enter", "fill", "done"}, Behind' = Behind,
           devices' = devices, records' = records
    PROVE  Met'
<1>1. \A q : Begins(q)' <=> Begins(q)
  BY DEF Begins
<1>2. /\ \A q : Entered(q)' <=> Entered(q)
      /\ \A d : Sourced(d)' <=> Sourced(d)
      /\ \A d, e : Parted(d, e)' <=> Parted(d, e)
  BY <1>1 DEF Entered, Sourced, Parted
<1> QED
  BY <1>2 DEF Met

LEMMA StepPlaced == PlacedInv /\ [Next]_vars => PlacedInv'
<1> SUFFICES ASSUME PlacedInv, [Next]_vars PROVE PlacedInv'
  OBVIOUS
<1>1. TableInv'
  BY StepTableInv DEF PlacedInv
<1>2. CASE EnterRecord
  BY <1>2, EnterKeepsPlaced
<1>3. CASE FillDevice
  BY <1>3, FillKeepsPlaced
<1>4. ASSUME Allocate PROVE Met' /\ Filled'
  <2>1. devices' = <<>> /\ row' = 0 /\ pc' = "enter"
    BY <1>4 DEF Allocate, PlacedInv, TableInv, Counting
  <2>2. DOMAIN devices' = {} /\ 1..Behind' = {}
    BY <2>1 DEF Behind
  <2> QED
    BY <2>1, <2>2 DEF Met, Filled
<1>5. ASSUME EndEntering PROVE Met' /\ Filled'
  <2>1. /\ pc = "enter" /\ row = Len(records) /\ pc' = "fill" /\ row' = 0
        /\ devices' = devices /\ records' = records
    BY <1>5 DEF EndEntering
  <2>2. Behind' = Behind
    BY <2>1 DEF Behind
  <2>3. Met'
    BY <2>1, <2>2, SameMet DEF PlacedInv
  <2>4. \A d \in DOMAIN devices : d \in Nat /\ d >= 1
    BY DEF PlacedInv, TableInv, TypeOK
  <2>5. Filled'
    BY <2>1, <2>4 DEF Filled
  <2> QED
    BY <2>3, <2>5
<1>6. ASSUME EndFilling PROVE Met' /\ Filled'
  <2>1. /\ pc = "fill" /\ pc' = "done" /\ row = counted
        /\ UNCHANGED <<row, counted, records, devices>>
    BY <1>6 DEF EndFilling
  <2>2. Met'
    BY <2>1, SameMet DEF PlacedInv, Behind
  <2>3. Filled'
    BY <2>1 DEF PlacedInv, Filled
  <2> QED
    BY <2>2, <2>3
<1>7. ASSUME ParseRow \/ EndParsing \/ CountRecord \/ AllocateFails PROVE Met' /\ Filled'
  BY <1>7 DEF ParseRow, EndParsing, CountRecord, AllocateFails, Met, Filled
<1>8. ASSUME UNCHANGED vars PROVE Met' /\ Filled'
  <2>1. UNCHANGED <<pc, row, counted, records, devices>>
    BY <1>8 DEF vars
  <2>2. CASE pc \in {"enter", "fill", "done"}
    BY <2>1, <2>2, SameMet DEF PlacedInv, Behind, Filled
  <2>3. CASE pc \notin {"enter", "fill", "done"}
    BY <2>1, <2>3 DEF Met, Filled
  <2> QED
    BY <2>2, <2>3
<1> QED
  BY <1>1, <1>2, <1>3, <1>4, <1>5, <1>6, <1>7, <1>8 DEF Next, PlacedInv

LEMMA PlacedInvariant == Spec => []PlacedInv
<1>1. Init => PlacedInv
  BY InitTableInv DEF Init, PlacedInv, Met, Filled
<1> QED
  BY <1>1, StepPlaced, PTL DEF Spec

(* Whatever the file holds, each record is a variable of a device and of   *)
(* none but those of its name; where the rows of each device are together, *)
(* of one only.                                                            *)
THEOREM RecordsFindDevice == Spec => []RecordsPlaced
<1>1. ASSUME PlacedInv PROVE RecordsPlaced
  <2> SUFFICES ASSUME pc = "done" PROVE RecordsPlaced
    BY DEF RecordsPlaced
  <2>1. /\ DOMAIN records = 1..Len(records) /\ Len(records) \in Nat
        /\ DOMAIN devices = 1..Len(devices) /\ Len(devices) \in Nat /\ Behind = Len(records)
    BY <1>1 DEF PlacedInv, TableInv, TypeOK, Behind
  <2>2. \A d \in DOMAIN devices : d <= row
    BY <1>1, <2>1 DEF PlacedInv, TableInv, CountsAgree, Filled
  <2>3. \A d \in DOMAIN devices :
            devices[d].variables = {v \in DOMAIN records : records[v].device = devices[d].name}
    BY <2>2, <1>1 DEF PlacedInv, Filled
  <2>4. \A r \in DOMAIN records : \E d \in DOMAIN devices : r \in devices[d].variables
    BY <2>1, <2>3, <1>1 DEF PlacedInv, Met, Entered
  <2>5. \A d \in DOMAIN devices : \A r \in devices[d].variables :
            records[r].device = devices[d].name
    BY <2>3
  <2>6. ASSUME Together, NEW d \in DOMAIN devices, NEW e \in DOMAIN devices, d < e
        PROVE  devices[d].variables \cap devices[e].variables = {}
    <3>1. PICK q \in 1..Len(records), r \in 1..Len(records) :
              /\ q < r /\ Begins(r)
              /\ records[q].device = devices[d].name
              /\ records[r].device = devices[e].name
      <4>1. Parted(d, e)
        BY <2>6, <1>1 DEF PlacedInv, Met
      <4> QED
        BY <4>1, <2>1 DEF Parted
    <3>2. r # 1 /\ r - 1 \in q..r
      BY <3>1, <2>1
    <3>3. records[q].device # records[r].device
      BY <3>1, <3>2, <2>1, <2>6 DEF Together, Begins
    <3> QED
      BY <3>1, <3>3, <2>5
  <2>7. \A d, e \in DOMAIN devices : d < e \/ e < d \/ d = e
    BY <2>1
  <2> QED
    BY <2>4, <2>5, <2>6, <2>7 DEF RecordsPlaced
<1> QED
  BY <1>1, PlacedInvariant, PTL
=============================================================================
