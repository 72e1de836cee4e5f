----------------------------- MODULE DeviceTable -----------------------------
(***************************************************************************)
(* From uploadtable.csv to the table of devices: parseCSV and parseCSVLine *)
(* of src/csv_parser.c, createDeviceNodes of src/opcua_server.c.           *)
(*                                                                         *)
(* Of a row only matters who it belongs to and whether it has all its      *)
(* fields.  Two buffers are sized by one pass and filled by another, and   *)
(* each pass recognises a device by rules of its own: by the lines of the  *)
(* file, by a change from the record before, by a change from the device   *)
(* entered last, by equal names anywhere.                                  *)
(***************************************************************************)
EXTENDS Integers, Sequences

CONSTANTS
    Devices,    \* the device names
    Plain,      \* a variable name without a dot: it names no device
    Null,       \* "null.null": the name is that of a row before
    Short,      \* the row ends before its name
    Tables      \* the files, as sequences of rows

Rows == [name : Devices \cup {Plain, Null, Short}, whole : BOOLEAN]

ASSUME TableAssumption == Tables \subseteq Seq(Rows)
ASSUME NameAssumption ==
    /\ Plain \notin Devices /\ Null \notin Devices /\ Short \notin Devices
    /\ Plain # Null /\ Plain # Short /\ Null # Short

VARIABLES
    pc,         \* the pass: of parseCSV, or of createDeviceNodes
    table,      \* the rows of the file
    row,        \* the rows or records the pass has behind it
    last,       \* lastValidName
    records,    \* the records parsed: which row, and its deviceName
    counted,    \* device_count
    current,    \* current_device
    devices     \* the devices: name, and the records that are its variables

vars == <<pc, table, row, last, records, counted, current, devices>>

Record == [row : Nat \ {0}, device : Devices]

(* A pass stays within what the pass before it has allocated. *)
TypeOK ==
    /\ pc \in {"parse", "count", "enter", "fill", "done", "failed"}
    /\ table \in Seq(Rows)
    /\ row \in 0..Len(table)
    /\ last \in Devices \cup {Plain}
    /\ records \in Seq(Record) /\ Len(records) <= Len(table)
    /\ counted \in 0..Len(records)
    /\ current \in Devices \cup {Plain}
    /\ devices \in Seq([name : Devices, variables : SUBSET DOMAIN records])
    /\ pc # "count" => Len(devices) <= counted

(* A name still empty has no dot either. *)
Init ==
    /\ pc = "parse" /\ row = 0
    /\ table \in Tables
    /\ last = Plain /\ current = Plain
    /\ records = <<>> /\ counted = 0 /\ devices = <<>>

-----------------------------------------------------------------------------
(* parseCSVLine: the name, inherited or remembered, and whether the row    *)
(* makes a record.                                                         *)
NameOf(r) == IF r.name = Null THEN last ELSE r.name
Accepted(r) == r.name # Short /\ r.whole /\ NameOf(r) \in Devices

ParseRowAccepted ==           \* mutant: remembers only the names of records
    LET r == table[row + 1] IN
    /\ pc = "parse" /\ row < Len(table)
    /\ row' = row + 1
    /\ last' = IF Accepted(r) THEN NameOf(r) ELSE last
    /\ records' = IF Accepted(r)
                  THEN Append(records, [row |-> row + 1, device |-> NameOf(r)])
                  ELSE records
    /\ UNCHANGED <<pc, table, counted, current, devices>>

ParseRow ==
    LET r == table[row + 1] IN
    /\ pc = "parse" /\ row < Len(table)
    /\ row' = row + 1
    /\ last' = IF r.name = Short THEN last ELSE NameOf(r)
    /\ records' = IF Accepted(r)
                  THEN Append(records, [row |-> row + 1, device |-> NameOf(r)])
                  ELSE records
    /\ UNCHANGED <<pc, table, counted, current, devices>>

(* A file without records is no configuration. *)
EndParsing ==
    /\ pc = "parse" /\ row = Len(table)
    /\ pc' = IF records = <<>> THEN "failed" ELSE "count"
    /\ row' = 0
    /\ UNCHANGED <<table, last, records, counted, current, devices>>

CountRecordEach ==            \* mutant: takes each record for a device
    /\ pc = "count" /\ row < Len(records)
    /\ row' = row + 1
    /\ counted' = counted + 1
    /\ current' = records[row + 1].device
    /\ UNCHANGED <<pc, table, last, records, devices>>

CountRecord ==
    /\ pc = "count" /\ row < Len(records)
    /\ row' = row + 1
    /\ counted' = IF records[row + 1].device # current THEN counted + 1 ELSE counted
    /\ current' = records[row + 1].device
    /\ UNCHANGED <<pc, table, last, records, devices>>

(* The devices are allocated, as many as were counted. *)
Allocate ==
    /\ pc = "count" /\ row = Len(records)
    /\ pc' = "enter" /\ row' = 0
    /\ UNCHANGED <<table, last, records, counted, current, devices>>

AllocateFails ==
    /\ \/ pc = "count" /\ row = Len(records)
       \/ pc = "fill" /\ row < counted
    /\ pc' = "failed"
    /\ UNCHANGED <<table, row, last, records, counted, current, devices>>

EnterRecord ==
    LET name == records[row + 1].device IN
    /\ pc = "enter" /\ row < Len(records)
    /\ row' = row + 1
    /\ devices' = IF devices = <<>> \/ name # devices[Len(devices)].name
                  THEN Append(devices, [name |-> name, variables |-> {}])
                  ELSE devices
    /\ UNCHANGED <<pc, table, last, records, counted, current>>

EndEntering ==
    /\ pc = "enter" /\ row = Len(records)
    /\ pc' = "fill" /\ row' = 0
    /\ UNCHANGED <<table, last, records, counted, current, devices>>

FillDeviceShort ==            \* mutant: leaves the last record out
    /\ pc = "fill" /\ row < counted
    /\ row' = row + 1
    /\ devices' = [devices EXCEPT ![row + 1].variables =
           {v \in 1..(Len(records) - 1) : records[v].device = devices[row + 1].name}]
    /\ UNCHANGED <<pc, table, last, records, counted, current>>

(* The variables of a device are the records of its name, counted in one   *)
(* pass and copied in a second that asks the same.                         *)
FillDevice ==
    /\ pc = "fill" /\ row < counted
    /\ row' = row + 1
    /\ devices' = [devices EXCEPT ![row + 1].variables =
           {v \in DOMAIN records : records[v].device = devices[row + 1].name}]
    /\ UNCHANGED <<pc, table, last, records, counted, current>>

EndFilling ==
    /\ pc = "fill" /\ row = counted
    /\ pc' = "done"
    /\ UNCHANGED <<table, row, last, records, counted, current, devices>>

Next ==
    \/ ParseRow \/ EndParsing
    \/ CountRecord \/ Allocate \/ AllocateFails
    \/ EnterRecord \/ EndEntering
    \/ FillDevice \/ EndFilling

Spec == Init /\ [][Next]_vars

-----------------------------------------------------------------------------
(* What the design document says a row's device is: that of the row above  *)
(* if its own name is null.null, that is, of the nearest row with a name.  *)
Named(j) == table[j].name \notin {Null, Short}
Nearest(j, k) == k <= j /\ Named(k) /\ \A m \in (k + 1)..j : ~Named(m)

(* A record belongs to the device of the nearest row that has a name, even *)
(* one that makes no record; and every whole row of a device is a record,  *)
(* in the order of the file.                                               *)
NamesInherited ==
    /\ \A r \in DOMAIN records :
           /\ table[records[r].row].whole
           /\ \E k \in DOMAIN table : /\ Nearest(records[r].row, k)
                                      /\ table[k].name = records[r].device
           /\ \A q \in 1..(r - 1) : records[q].row < records[r].row
    /\ pc # "parse" => \A j, k \in DOMAIN table :
           /\ Nearest(j, k) /\ table[k].name \in Devices
           /\ table[j].whole /\ table[j].name # Short
           => \E r \in DOMAIN records : records[r].row = j

(* The two passes agree on what a device is: none of the devices allocated *)
(* is left without its name.                                               *)
CountsAgree == pc \in {"fill", "done"} => Len(devices) = counted

(* Where the rows of each device are together, as in the table the program *)
(* comes with, each record is a variable of exactly one device.  In any    *)
(* table it is one of each device of its name.                             *)
Together == \A q, r \in DOMAIN records : records[q].device = records[r].device
    => \A p \in q..r : records[p].device = records[q].device

RecordsPlaced == pc = "done" =>
    /\ \A r \in DOMAIN records : \E d \in DOMAIN devices : r \in devices[d].variables
    /\ \A d \in DOMAIN devices : \A r \in devices[d].variables :
           records[r].device = devices[d].name
    /\ Together => \A d, e \in DOMAIN devices :
           devices[d].variables \cap devices[e].variables # {} => d = e
=============================================================================
