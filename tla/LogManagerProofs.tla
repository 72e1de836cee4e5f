--------------------------- MODULE LogManagerProofs ---------------------------
(***************************************************************************)
(* Proofs about LogManager, for any threads, limits and clock: the stream  *)
(* is open when it is used, no line is lost but with a removed file, the   *)
(* oldest files go first, and no more than are configured stay.            *)
(***************************************************************************)
EXTENDS LogManager, FiniteSetTheorems, TLAPS

Busy == {u \in Threads : pc[u] # "idle"}
Using == {"check", "scan", "remove", "write"}

(* The mutex is with the thread that is inside, and only a cleanup has     *)
(* files still to remove.                                                  *)
Inside == \A t \in Threads : pc[t] \notin {"idle", "lock"} <=> mutex = t
Victims == /\ victims \subseteq DOMAIN disk
           /\ victims # {} => mutex # Free
           /\ \A t \in Threads : mutex = t /\ pc[t] # "remove" => victims = {}

(* The stream by where the threads are: whoever rotates has closed it, and *)
(* the log file is there until it is renamed.                              *)
Stream == /\ open => Active \in DOMAIN disk
          /\ \A t \in Threads : pc[t] \in Using => open
          /\ \A t \in Threads : pc[t] = "rename" => Active \in DOMAIN disk
Closed == \A t \in Threads : pc[t] \in {"rename", "open"} => ~open
Ended == ~running => \A t \in Threads : pc[t] = "idle"

(* Every thread in a call may still write a line.                          *)
Room == lines + Cardinality(Busy) <= MaxLines

LogInv == TypeOK /\ Inside /\ Victims /\ Stream /\ Closed /\ Ended /\ Room /\ LinesAccounted

-----------------------------------------------------------------------------
LEMMA KeptLines ==
    \A x : x \in Kept <=> \E n \in DOMAIN disk : x \in disk[n].lines
  BY DEF Kept

LEMMA BusyFinite == IsFiniteSet(Busy) /\ Cardinality(Busy) \in Nat
<1>1. Busy \subseteq Threads
  BY DEF Busy
<1>2. QED
  BY <1>1, ThreadAssumption, FS_Subset, FS_CardinalityType

LEMMA InitLogInv == Init => LogInv
<1> SUFFICES ASSUME Init PROVE LogInv
  OBVIOUS
<1> USE DEF Init
<1>1. DOMAIN disk = {}
  BY DEF Empty
<1>2. TypeOK
  <2>1. 0 \in Seconds /\ 0 \in 0..MaxLines
    BY BoundAssumption DEF Seconds
  <2>2. pc \in [Threads -> {"idle", "lock", "check", "write"} \cup Rotating]
    OBVIOUS
  <2>3. DOMAIN disk \subseteq Names /\ \A n \in DOMAIN disk : disk[n] \in File
    BY <1>1
  <2>4. QED
    BY <2>1, <2>2, <2>3 DEF TypeOK
<1>3. Inside /\ Victims /\ Stream /\ Closed /\ Ended
  BY <1>1, ThreadAssumption DEF Inside, Victims, Stream, Using, Closed, Ended
<1>4. Room
  <2>1. Busy = {}
    BY DEF Busy
  <2>2. QED
    BY <2>1, FS_EmptySet, BoundAssumption DEF Room
<1>5. LinesAccounted
  BY <1>1 DEF LinesAccounted, Kept
<1>6. QED
  BY <1>2, <1>3, <1>4, <1>5 DEF LogInv

-----------------------------------------------------------------------------
(* How many threads are in a call, after one has come or gone.             *)
LEMMA BusySame ==
    ASSUME TypeOK, \A u \in Threads : pc'[u] = "idle" <=> pc[u] = "idle", lines' = lines
    PROVE  Room => Room'
<1>1. Busy' = Busy
  BY DEF Busy
<1>2. QED
  BY <1>1 DEF Room

LEMMA BusyLess ==
    ASSUME TypeOK, NEW t \in Threads, pc[t] # "idle", pc' = [pc EXCEPT ![t] = "idle"],
           lines' \in {lines, lines + 1}, Room
    PROVE  Room' /\ lines + 1 <= MaxLines
<1>1. Busy' = Busy \ {t} /\ t \in Busy
  BY DEF Busy, TypeOK
<1>2. Cardinality(Busy') = Cardinality(Busy) - 1
  BY <1>1, BusyFinite, FS_RemoveElement
<1>3. Cardinality(Busy) >= 1
  BY <1>1, BusyFinite, FS_EmptySet
<1>4. lines \in Int /\ MaxLines \in Int
  BY BoundAssumption DEF TypeOK
<1>5. QED
  BY <1>2, <1>3, <1>4, BusyFinite DEF Room

LEMMA BusyMore ==
    ASSUME TypeOK, NEW t \in Threads, Call(t)
    PROVE  Room'
<1>1. Busy' = Busy \cup {t} /\ t \notin Busy /\ lines' = lines
  BY DEF Busy, TypeOK, Call, Go, LogOnly
<1>2. Cardinality(Busy') = Cardinality(Busy) + 1
  BY <1>1, BusyFinite, FS_AddElement
<1>3. lines + Cardinality(Busy) < MaxLines
  BY DEF Call, Busy
<1>4. lines \in Int /\ MaxLines \in Int
  BY BoundAssumption DEF TypeOK
<1>5. QED
  BY <1>1, <1>2, <1>3, <1>4, BusyFinite DEF Room

-----------------------------------------------------------------------------
(* Steps that leave the files alone. *)
LEMMA FilesSame ==
    ASSUME LinesAccounted, disk' = disk, dropped' = dropped, lines' = lines
    PROVE  LinesAccounted'
  BY DEF LinesAccounted, Kept

(* Opening the log loses no line and adds none. *)
LEMMA OpenedKeeps ==
    ASSUME TypeOK, disk' = Opened
    PROVE  /\ DOMAIN disk' = DOMAIN disk \cup {Active}
           /\ \A n \in DOMAIN disk : disk'[n] = disk[n]
           /\ \A n \in DOMAIN disk' : disk'[n] \in File
           /\ DOMAIN disk' \subseteq Names
           /\ Kept' = Kept
<1>1. DOMAIN disk' = DOMAIN disk \cup {Active} /\ \A n \in DOMAIN disk : disk'[n] = disk[n]
  BY DEF Opened
<1>2. Active \notin DOMAIN disk => disk'[Active] = [lines |-> {}, mtime |-> now]
  BY DEF Opened
<1>3. [lines |-> {}, mtime |-> now] \in File
  BY DEF TypeOK, File
<1>4. \A n \in DOMAIN disk' : disk'[n] \in File
  BY <1>1, <1>2, <1>3 DEF TypeOK
<1>5. Kept' = Kept
  <2>1. \A x : x \in Kept' <=> \E n \in DOMAIN disk' : x \in disk'[n].lines
    BY DEF Kept
  <2>2. \A x : x \in Kept' <=> x \in Kept
    BY <1>1, <1>2, <2>1, KeptLines
  <2>3. QED
    BY <2>2 DEF Kept
<1>6. QED
  BY <1>1, <1>4, <1>5 DEF TypeOK, Names

LEMMA BootKeeps ==
    ASSUME LogInv, Boot
    PROVE  LogInv'
<1> USE DEF Boot
<1>1. /\ DOMAIN disk' = DOMAIN disk \cup {Active}
      /\ \A n \in DOMAIN disk' : disk'[n] \in File
      /\ DOMAIN disk' \subseteq Names
      /\ Kept' = Kept
  BY OpenedKeeps DEF LogInv
<1>2. TypeOK'
  BY <1>1 DEF LogInv, TypeOK
<1>3. Inside' /\ Victims' /\ Stream' /\ Closed' /\ Ended'
  BY <1>1 DEF LogInv, Inside, Victims, Stream, Closed, Ended
<1>4. Room'
  BY BusySame DEF LogInv
<1>5. LinesAccounted'
  BY <1>1 DEF LogInv, LinesAccounted
<1>6. QED
  BY <1>2, <1>3, <1>4, <1>5 DEF LogInv

LEMMA OutsideKeeps ==
    ASSUME LogInv, Close \/ Tick
    PROVE  LogInv'
<1> USE DEF Close, Tick
<1>1. /\ UNCHANGED <<running, disk, pc, mutex, victims, lines, dropped, tidied>>
      /\ open' = open \/ (mutex = Free /\ open' = FALSE)
  OBVIOUS
<1>2. TypeOK'
  <2>1. now' \in Seconds
    BY BoundAssumption DEF LogInv, TypeOK, Seconds
  <2>2. open' \in BOOLEAN /\ UNCHANGED <<running, toFile>>
    BY DEF LogInv, TypeOK
  <2>3. QED
    BY <1>1, <2>1, <2>2 DEF LogInv, TypeOK
<1>3. Inside' /\ Victims'
  BY <1>1 DEF LogInv, Inside, Victims
<1>4. Stream' /\ Closed' /\ Ended'
  BY <1>1, ThreadAssumption DEF LogInv, Stream, Inside, Using, Closed, Ended
<1>5. Room'
  BY <1>1, BusySame DEF LogInv
<1>6. LinesAccounted'
  BY <1>1, FilesSame DEF LogInv
<1>7. QED
  BY <1>2, <1>3, <1>4, <1>5, <1>6 DEF LogInv

LEMMA ExitKeeps ==
    ASSUME LogInv, Exit
    PROVE  LogInv'
<1> USE DEF Exit
<1>1. TypeOK'
  BY DEF LogInv, TypeOK
<1>2. Inside' /\ Victims' /\ Stream' /\ Closed' /\ Ended'
  BY ThreadAssumption DEF Inside, Victims, Stream, Using, Closed, Ended
<1>3. Room'
  <2>1. Busy' = {}
    BY DEF Busy
  <2>2. QED
    BY <2>1, FS_EmptySet DEF Room, LogInv, TypeOK
<1>4. LinesAccounted'
  BY FilesSame DEF LogInv
<1>5. QED
  BY <1>1, <1>2, <1>3, <1>4 DEF LogInv

-----------------------------------------------------------------------------
(* The steps of log_print that leave the files, and who is busy, alone.    *)
LEMMA PlacesKeep ==
    ASSUME LogInv, NEW t \in Threads,
           Lock(t) \/ SizeWithin(t) \/ CloseFull(t) \/ RenameRefused(t) \/ Scan(t)
               \/ ScanFails(t) \/ EndRemoving(t)
    PROVE  LogInv'
<1> USE DEF Go, LogOnly
<1>1. /\ UNCHANGED <<now, running, lines, disk, dropped, toFile>>
      /\ pc[t] # "idle"
      /\ \E to \in {"check", "write"} \cup Rotating : pc' = [pc EXCEPT ![t] = to]
  BY DEF Lock, SizeWithin, CloseFull, RenameRefused, Scan, ScanFails, EndRemoving, Rotating
<1>2. pc \in [Threads -> {"idle", "lock", "check", "write"} \cup Rotating]
  BY DEF LogInv, TypeOK
<1>3. /\ pc' \in [Threads -> {"idle", "lock", "check", "write"} \cup Rotating]
      /\ \A u \in Threads : u # t => pc'[u] = pc[u]
      /\ pc'[t] \in {"check", "write"} \cup Rotating
  BY <1>1, <1>2
<1>4. pc[t] # "lock" => mutex = t
  BY <1>1 DEF LogInv, Inside
<1>5. /\ mutex' = t
      /\ \A u \in Threads \ {t} : pc[u] \in {"idle", "lock"}
  <2>1. CASE Lock(t)
    BY <2>1, ThreadAssumption DEF Lock, LogInv, Inside
  <2>2. CASE ~Lock(t)
    <3>1. pc[t] # "lock" /\ mutex' = mutex
      BY <2>2 DEF SizeWithin, CloseFull, RenameRefused, Scan, ScanFails, EndRemoving
    <3>2. QED
      BY <3>1, <1>4 DEF LogInv, Inside
  <2>3. QED
    BY <2>1, <2>2
<1>6. Inside'
  BY <1>3, <1>5 DEF Inside, Rotating
<1>7. Victims'
  <2>1. victims' \subseteq DOMAIN disk
    BY DEF LogInv, Victims, Lock, SizeWithin, CloseFull, RenameRefused, Scan, ScanFails,
           EndRemoving
  <2>2. pc'[t] # "remove" => victims' = {}
    BY <1>2, <1>4 DEF LogInv, Victims, Lock, SizeWithin, CloseFull, RenameRefused, Scan,
                      ScanFails, EndRemoving
  <2>3. QED
    BY <1>1, <1>5, <2>1, <2>2, ThreadAssumption DEF Victims
<1>8. Stream'
  <2>1. open' => Active \in DOMAIN disk
    BY DEF LogInv, Stream, Lock, SizeWithin, CloseFull, RenameRefused, Scan, ScanFails,
           EndRemoving
  <2>2. pc'[t] \in Using => open'
    BY <1>2 DEF LogInv, Stream, Using, Lock, SizeWithin, CloseFull, RenameRefused, Scan,
                ScanFails, EndRemoving
  <2>3. pc'[t] = "rename" => Active \in DOMAIN disk
    BY <1>2 DEF LogInv, Stream, Using, Lock, SizeWithin, CloseFull, RenameRefused, Scan,
                ScanFails, EndRemoving
  <2>4. QED
    BY <1>1, <1>3, <1>5, <2>1, <2>2, <2>3 DEF Stream, Using
<1>9. Room'
  BY <1>1, <1>3, BusySame DEF LogInv, Rotating
<1>10. LinesAccounted'
  BY <1>1, FilesSame DEF LogInv
<1>11. TypeOK'
  <2>1. open' \in BOOLEAN /\ tidied' \in BOOLEAN
    BY DEF LogInv, TypeOK, Lock, SizeWithin, CloseFull, RenameRefused, Scan, ScanFails,
           EndRemoving
  <2>2. victims' \subseteq Names
    BY <1>1, <1>7 DEF Victims, LogInv, TypeOK
  <2>3. QED
    BY <1>1, <1>3, <1>5, <2>1, <2>2 DEF LogInv, TypeOK
<1>12. Closed'
  <2>1. pc'[t] \in {"rename", "open"} => ~open'
    BY <1>2 DEF LogInv, Closed, Lock, SizeWithin, CloseFull, RenameRefused, Scan,
                ScanFails, EndRemoving
  <2>2. QED
    BY <1>3, <1>5, <2>1 DEF Closed
<1>13. Ended'
  BY <1>1 DEF LogInv, Ended
<1>14. QED
  BY <1>6, <1>7, <1>8, <1>9, <1>10, <1>11, <1>12, <1>13 DEF LogInv

(* A call that begins, and one that ends without a line in the file. *)
LEMMA CallKeeps ==
    ASSUME LogInv, NEW t \in Threads, Call(t) \/ PrintOnly(t) \/ ReopenFails(t)
    PROVE  LogInv'
<1> USE DEF Go, LogOnly
<1>1. pc \in [Threads -> {"idle", "lock", "check", "write"} \cup Rotating]
  BY DEF LogInv, TypeOK
<1>2. /\ UNCHANGED <<now, running, lines, open, disk, victims, dropped, tidied>>
      /\ toFile' \in {toFile, FALSE}
      /\ \/ pc[t] \in {"idle", "lock"} /\ mutex' = mutex
         \/ pc[t] = "open" /\ mutex' = Free
      /\ \/ pc' = [pc EXCEPT ![t] = "idle"]
         \/ pc' = [pc EXCEPT ![t] = "lock"]
  BY DEF Call, PrintOnly, ReopenFails
<1>3. /\ pc' \in [Threads -> {"idle", "lock", "check", "write"} \cup Rotating]
      /\ \A u \in Threads : u # t => pc'[u] = pc[u]
      /\ pc'[t] \in {"idle", "lock"}
  BY <1>1, <1>2
<1>4. TypeOK'
  <2>1. toFile' \in BOOLEAN
    BY <1>2 DEF LogInv, TypeOK
  <2>2. QED
    BY <1>2, <1>3, <2>1 DEF LogInv, TypeOK
<1>5. Inside'
  BY <1>2, <1>3, ThreadAssumption DEF LogInv, Inside
<1>6. Victims'
  BY <1>2, <1>3, ThreadAssumption DEF LogInv, Victims, Inside
<1>7. Stream' /\ Closed' /\ Ended'
  <2>1. Stream' /\ Closed'
    BY <1>2, <1>3 DEF LogInv, Stream, Using, Closed
  <2>2. running
    BY DEF LogInv, Ended, Call, PrintOnly, ReopenFails
  <2>3. QED
    BY <1>2, <2>1, <2>2 DEF Ended
<1>8. Room'
  <2>1. CASE Call(t)
    BY <2>1, BusyMore DEF LogInv
  <2>2. CASE PrintOnly(t) \/ ReopenFails(t)
    <3>1. pc[t] # "idle" /\ pc' = [pc EXCEPT ![t] = "idle"]
      BY <2>2 DEF PrintOnly, ReopenFails
    <3>2. QED
      BY <1>2, <3>1, BusyLess DEF LogInv
  <2>3. QED
    BY <2>1, <2>2
<1>9. LinesAccounted'
  BY <1>2, FilesSame DEF LogInv
<1>10. QED
  BY <1>4, <1>5, <1>6, <1>7, <1>8, <1>9 DEF LogInv

-----------------------------------------------------------------------------
(* The steps that change the files: who takes them has the mutex.          *)
LEMMA Alone ==
    ASSUME LogInv, NEW t \in Threads, pc[t] \in {"write"} \cup Rotating
    PROVE  /\ mutex = t /\ t # Free
           /\ \A u \in Threads \ {t} : pc[u] \in {"idle", "lock"}
           /\ pc[t] # "remove" => victims = {}
  BY ThreadAssumption DEF LogInv, Inside, Victims, Rotating

LEMMA FilesKeep ==
    ASSUME LogInv, NEW t \in Threads, NEW to,
           to \in {"open", "scan", "remove"},
           pc[t] \in Rotating, pc' = [pc EXCEPT ![t] = to],
           UNCHANGED <<now, running, toFile, mutex, lines, tidied>>,
           open' \in BOOLEAN, victims' \subseteq DOMAIN disk',
           to # "remove" => victims' = {},
           open' => Active \in DOMAIN disk', to \in Using => open',
           to = "open" => ~open',
           DOMAIN disk' \subseteq Names, \A n \in DOMAIN disk' : disk'[n] \in File,
           dropped' \subseteq Lines, Kept' \cup dropped' = Kept \cup dropped
    PROVE  LogInv'
<1>1. /\ mutex = t /\ t # Free
      /\ \A u \in Threads \ {t} : pc[u] \in {"idle", "lock"}
  BY Alone
<1>2. pc \in [Threads -> {"idle", "lock", "check", "write"} \cup Rotating]
  BY DEF LogInv, TypeOK
<1>3. /\ pc' \in [Threads -> {"idle", "lock", "check", "write"} \cup Rotating]
      /\ \A u \in Threads : u # t => pc'[u] = pc[u]
      /\ pc'[t] = to
  BY <1>2 DEF Rotating
<1>4. TypeOK'
  BY <1>3 DEF LogInv, TypeOK
<1>5. /\ Inside' /\ Victims' /\ Stream' /\ Closed'
      /\ Ended'
  <2>1. Inside' /\ Victims'
    BY <1>1, <1>3 DEF Inside, Victims
  <2>2. Stream' /\ Closed'
    BY <1>1, <1>3 DEF Stream, Using, Closed
  <2>3. running
    BY DEF LogInv, Ended, Rotating
  <2>4. QED
    BY <2>1, <2>2, <2>3 DEF Ended
<1>6. Room'
  BY <1>3, BusySame DEF LogInv, Rotating
<1>7. LinesAccounted'
  BY DEF LogInv, LinesAccounted
<1>8. QED
  BY <1>4, <1>5, <1>6, <1>7 DEF LogInv

LEMMA RenameKeeps ==
    ASSUME LogInv, NEW t \in Threads, Rename(t)
    PROVE  LogInv'
<1> USE DEF Rename, Go
<1>1. /\ pc[t] = "rename" /\ pc' = [pc EXCEPT ![t] = "open"]
      /\ now \notin DOMAIN disk /\ now \in Seconds /\ now # Active
  BY NameAssumption DEF LogInv, TypeOK
<1>2. Active \in DOMAIN disk /\ ~open
  BY <1>1 DEF LogInv, Stream, Closed
<1>3. /\ DOMAIN disk' = (DOMAIN disk \ {Active}) \cup {now}
      /\ disk'[now] = disk[Active]
      /\ \A n \in DOMAIN disk \ {Active} : disk'[n] = disk[n]
  BY <1>1
<1>4. \A n \in DOMAIN disk' : disk'[n] \in File
  BY <1>2, <1>3 DEF LogInv, TypeOK
<1>5. Kept' = Kept
  <2>1. \A x : x \in Kept' <=> \E n \in DOMAIN disk' : x \in disk'[n].lines
    BY DEF Kept
  <2>2. \A x : x \in Kept' <=> x \in Kept
    BY <1>2, <1>3, <2>1, KeptLines
  <2>3. QED
    BY <2>2 DEF Kept
<1>6. victims = {} /\ pc[t] \in Rotating
  BY <1>1, Alone DEF Rotating
<1>7. DOMAIN disk' \subseteq Names
  BY <1>1, <1>3 DEF LogInv, TypeOK, Names
<1>8. QED
  BY <1>1, <1>2, <1>4, <1>5, <1>6, <1>7, FilesKeep DEF LogInv, TypeOK, Using

LEMMA ReopenKeeps ==
    ASSUME LogInv, NEW t \in Threads, Reopen(t)
    PROVE  LogInv'
<1> USE DEF Reopen, Go, LogOnly
<1>1. /\ DOMAIN disk' = DOMAIN disk \cup {Active}
      /\ \A n \in DOMAIN disk' : disk'[n] \in File
      /\ DOMAIN disk' \subseteq Names
      /\ Kept' = Kept
  BY OpenedKeeps DEF LogInv
<1>2. pc[t] \in Rotating /\ victims = {}
  BY Alone DEF Rotating
<1>3. QED
  BY <1>1, <1>2, FilesKeep DEF LogInv, TypeOK

(* A removed file's lines are the dropped ones' from then on. *)
LEMMA RemoveKeeps ==
    ASSUME LogInv, NEW t \in Threads, Remove(t)
    PROVE  LogInv'
<1>1. PICK v \in NextVictims :
        /\ victims' = victims \ {v}
        /\ IF v = Active
           THEN UNCHANGED <<disk, dropped>>
           ELSE /\ disk' = Restrict(disk, DOMAIN disk \ {v})
                /\ dropped' = dropped \cup disk[v].lines
  BY DEF Remove
<1>2. /\ pc[t] = "remove" /\ pc' = pc
      /\ UNCHANGED <<now, running, lines, toFile, open, mutex, tidied>>
  BY DEF Remove, LogOnly
<1>3. v \in victims /\ victims \subseteq DOMAIN disk
  BY DEF NextVictims, LogInv, Victims
<1>4. pc[t] \in Rotating /\ pc' = [pc EXCEPT ![t] = "remove"]
  BY <1>2 DEF LogInv, TypeOK, Rotating
<1>5. open /\ Active \in DOMAIN disk
  BY <1>2 DEF LogInv, Stream, Using
<1>6. CASE v = Active
  <2>1. disk' = disk /\ dropped' = dropped /\ Kept' = Kept
    BY <1>1, <1>6 DEF Kept
  <2>2. QED
    BY <1>1, <1>2, <1>3, <1>4, <1>5, <2>1, FilesKeep DEF LogInv, TypeOK
<1>7. CASE v # Active
  <2>1. /\ DOMAIN disk' = DOMAIN disk \ {v}
        /\ \A n \in DOMAIN disk \ {v} : disk'[n] = disk[n]
        /\ dropped' = dropped \cup disk[v].lines
    BY <1>1, <1>7 DEF Restrict
  <2>2. \A n \in DOMAIN disk' : disk'[n] \in File
    BY <2>1 DEF LogInv, TypeOK
  <2>3. DOMAIN disk' \subseteq Names /\ victims' \subseteq DOMAIN disk'
    BY <1>1, <1>3, <2>1 DEF LogInv, TypeOK
  <2>4. disk[v].lines \subseteq Lines
    BY <1>3 DEF LogInv, TypeOK, File
  <2>5. Kept' \cup dropped' = Kept \cup dropped
    <3>1. \A x : x \in Kept' <=> \E n \in DOMAIN disk' : x \in disk'[n].lines
      BY DEF Kept
    <3>2. \A x : x \in Kept <=> x \in Kept' \/ x \in disk[v].lines
      BY <1>3, <2>1, <3>1, KeptLines
    <3>3. QED
      BY <2>1, <3>2
  <2>6. dropped' \subseteq Lines
    BY <2>1, <2>4 DEF LogInv, TypeOK
  <2>7. QED
    BY <1>2, <1>4, <1>5, <1>7, <2>1, <2>2, <2>3, <2>5, <2>6, FilesKeep
    DEF LogInv, TypeOK
<1>8. QED
  BY <1>6, <1>7

LEMMA WriteKeeps ==
    ASSUME LogInv, NEW t \in Threads, Write(t)
    PROVE  LogInv'
<1> USE DEF Write, Go
<1>1. /\ pc \in [Threads -> {"idle", "lock", "check", "write"} \cup Rotating]
      /\ lines \in 0..MaxLines /\ lines' = lines + 1
      /\ now \in Seconds /\ MaxLines \in Nat
  BY BoundAssumption DEF LogInv, TypeOK
<1>2. Room' /\ lines + 1 <= MaxLines
  BY <1>1, BusyLess DEF LogInv
<1>3. /\ mutex = t /\ t # Free /\ victims = {}
      /\ \A u \in Threads \ {t} : pc[u] \in {"idle", "lock"}
  BY Alone
<1>4. /\ pc' \in [Threads -> {"idle", "lock", "check", "write"} \cup Rotating]
      /\ \A u \in Threads : pc'[u] \in {"idle", "lock"}
  BY <1>1, <1>3
<1>5. Active \in DOMAIN disk
  BY DEF LogInv, Stream, Using
<1>6. /\ DOMAIN disk' = DOMAIN disk
      /\ \A n \in DOMAIN disk \ {Active} : disk'[n] = disk[n]
      /\ disk'[Active] = [lines |-> disk[Active].lines \cup {lines + 1}, mtime |-> now]
  BY <1>5
<1>7. lines + 1 \in Lines
  BY <1>1, <1>2 DEF Lines
<1>8. disk[Active] \in File
  BY <1>5 DEF LogInv, TypeOK
<1>9. disk'[Active] \in File
  BY <1>1, <1>6, <1>7, <1>8 DEF File
<1>10. TypeOK'
  <2>1. lines' \in 0..MaxLines
    BY <1>1, <1>2
  <2>2. \A n \in DOMAIN disk' : disk'[n] \in File
    BY <1>6, <1>9 DEF LogInv, TypeOK
  <2>3. QED
    BY <1>4, <1>6, <2>1, <2>2 DEF LogInv, TypeOK
<1>11. Inside' /\ Victims' /\ Stream' /\ Closed'
  BY <1>3, <1>4, <1>5, <1>6, ThreadAssumption DEF LogInv, Inside, Victims, Stream, Using, Closed
<1>12. Ended'
  BY DEF LogInv, Ended
<1>13. LinesAccounted'
  <2>1. \A x : x \in Kept' <=> \E n \in DOMAIN disk' : x \in disk'[n].lines
    BY DEF Kept
  <2>2. \A x : x \in Kept' <=> x \in Kept \/ x = lines + 1
    BY <1>5, <1>6, <2>1, KeptLines
  <2>3. Kept \cup dropped = 1..lines
    BY DEF LogInv, LinesAccounted
  <2>4. Kept' \cup dropped' = (1..lines) \cup {lines + 1}
    BY <2>2, <2>3
  <2>5. (1..lines) \cup {lines + 1} = 1..(lines + 1)
    BY <1>1
  <2>6. QED
    BY <1>1, <2>4, <2>5 DEF LinesAccounted
<1>14. QED
  BY <1>2, <1>10, <1>11, <1>12, <1>13 DEF LogInv

-----------------------------------------------------------------------------
LEMMA NextLogInv == LogInv /\ [Next]_vars => LogInv'
<1> SUFFICES ASSUME LogInv, [Next]_vars PROVE LogInv'
  OBVIOUS
<1>1. CASE Boot \/ Close \/ Exit \/ Tick
  BY <1>1, BootKeeps, OutsideKeeps, ExitKeeps
<1>2. ASSUME NEW t \in Threads, Call(t) \/ LogPrint(t)
      PROVE  LogInv'
  BY <1>2, PlacesKeep, CallKeeps, RenameKeeps, ReopenKeeps, RemoveKeeps, WriteKeeps
  DEF LogPrint
<1>3. CASE UNCHANGED vars
  <2>1. /\ UNCHANGED <<now, running, toFile, open, disk, mutex, pc, victims, lines>>
        /\ UNCHANGED <<dropped, tidied>>
    BY <1>3 DEF vars
  <2>2. TypeOK' /\ Inside' /\ Victims' /\ Stream' /\ Closed' /\ Ended'
    BY <2>1 DEF LogInv, TypeOK, Inside, Victims, Stream, Closed, Ended
  <2>3. Room' /\ LinesAccounted'
    BY <2>1, BusySame, FilesSame DEF LogInv
  <2>4. QED
    BY <2>2, <2>3 DEF LogInv
<1>4. QED
  BY <1>1, <1>2, <1>3 DEF Next

LEMMA SpecLogInv == Spec => []LogInv
  BY InitLogInv, NextLogInv, PTL DEF Spec

(* The log's state keeps its types; the lines stay within their bound.     *)
THEOREM LogTypeCorrect == Spec => []TypeOK
<1>1. LogInv => TypeOK
  BY DEF LogInv
<1>2. QED
  BY <1>1, SpecLogInv, PTL

(* No thread looks at, or writes to, a stream that another, rotating the   *)
(* log or closing it, has left closed.                                     *)
THEOREM StreamIsOpen == Spec => []StreamOpenWhenUsed
<1>1. LogInv => StreamOpenWhenUsed
  BY DEF LogInv, Stream, Using, StreamOpenWhenUsed
<1>2. QED
  BY <1>1, SpecLogInv, PTL

(* No line is lost but with the file the cleanup removes, over any number  *)
(* of rotations, refused ones among them, and of ends of the process.      *)
THEOREM NoLineLost == Spec => []LinesAccounted
<1>1. LogInv => LinesAccounted
  BY DEF LogInv
<1>2. QED
  BY <1>1, SpecLogInv, PTL

-----------------------------------------------------------------------------
(* The age of the files.                                                   *)
(*                                                                         *)
(* A file last modified before another has only lines written before       *)
(* those of the other; the log in use is the newest and has the newest     *)
(* lines.  So what is oldest by its time is oldest line for line.          *)
Precedes(m, n) == \A x \in disk[m].lines, y \in disk[n].lines : x < y

Dated == \A n \in DOMAIN disk : disk[n].mtime <= now
Apart == \A m, n \in DOMAIN disk : m # n => disk[m].lines \cap disk[n].lines = {}
Aged == \A m, n \in DOMAIN disk : disk[m].mtime < disk[n].mtime => Precedes(m, n)
ActiveNewest == Active \in DOMAIN disk => \A n \in DOMAIN disk \ {Active} :
    disk[n].mtime <= disk[Active].mtime /\ Precedes(n, Active)

Ordered == Dated /\ Apart /\ Aged /\ ActiveNewest

LEMMA FileTypes ==
    ASSUME LogInv
    PROVE  /\ now \in Nat /\ lines \in Nat
           /\ \A n \in DOMAIN disk : /\ disk[n].mtime \in Nat
                                     /\ \A x \in disk[n].lines : x \in Nat /\ x <= lines
<1>1. now \in Nat /\ lines \in Nat
  BY BoundAssumption DEF LogInv, TypeOK, Seconds
<1>2. ASSUME NEW n \in DOMAIN disk
      PROVE  /\ disk[n].mtime \in Nat
             /\ \A x \in disk[n].lines : x \in Nat /\ x <= lines
  <2>1. disk[n].mtime \in Nat
    BY DEF LogInv, TypeOK, File, Seconds
  <2>2. \A x \in disk[n].lines : x \in 1..lines
    BY KeptLines DEF LogInv, LinesAccounted
  <2> QED
    BY <2>1, <2>2, <1>1
<1> QED
  BY <1>1, <1>2

(* Files that go, and a clock that goes on, disorder nothing. *)
LEMMA FewerOrdered ==
    ASSUME LogInv, Ordered, DOMAIN disk' \subseteq DOMAIN disk,
           \A n \in DOMAIN disk' : disk'[n] = disk[n],
           now' \in {now, now + 1}
    PROVE  Ordered'
<1>1. \A m, n \in DOMAIN disk' : Precedes(m, n) => Precedes(m, n)'
  BY DEF Precedes
<1>2. Dated'
  BY FileTypes DEF Ordered, Dated
<1>3. Apart' /\ Aged'
  BY <1>1 DEF Ordered, Apart, Aged
<1>4. ActiveNewest'
  BY <1>1 DEF Ordered, ActiveNewest
<1> QED
  BY <1>2, <1>3, <1>4 DEF Ordered

LEMMA OpenedOrdered ==
    ASSUME LogInv, Ordered, disk' = Opened, now' = now
    PROVE  Ordered'
<1>1. CASE Active \in DOMAIN disk
  BY <1>1, FewerOrdered DEF Opened
<1>2. CASE Active \notin DOMAIN disk
  <2>1. /\ DOMAIN disk' = DOMAIN disk \cup {Active}
        /\ \A n \in DOMAIN disk : disk'[n] = disk[n]
        /\ disk'[Active].lines = {} /\ disk'[Active].mtime = now
    BY <1>2 DEF Opened
  <2>2. Dated'
    BY <2>1, FileTypes DEF Ordered, Dated
  <2>3. Apart'
    BY <2>1 DEF Ordered, Apart
  <2>4. ASSUME NEW m \in DOMAIN disk', NEW n \in DOMAIN disk',
               disk'[m].mtime < disk'[n].mtime
        PROVE  Precedes(m, n)'
    BY <2>1, <2>4 DEF Ordered, Aged, Precedes
  <2>5. ActiveNewest'
    BY <2>1 DEF Ordered, Dated, ActiveNewest, Precedes
  <2> QED
    BY <2>2, <2>3, <2>4, <2>5 DEF Ordered, Aged
<1> QED
  BY <1>1, <1>2

(* The log in use keeps its age under the name it is given. *)
LEMMA RenameOrdered ==
    ASSUME LogInv, Ordered, NEW t \in Threads, Rename(t)
    PROVE  Ordered'
<1>1. now \notin DOMAIN disk /\ now' = now /\ Active \in DOMAIN disk /\ now # Active
  BY NameAssumption DEF Rename, Go, LogInv, Stream, TypeOK
<1>2. PICK new : new = now
  OBVIOUS
<1>3. /\ DOMAIN disk' = (DOMAIN disk \ {Active}) \cup {new}
      /\ disk'[new] = disk[Active]
      /\ \A n \in DOMAIN disk \ {Active} : disk'[n] = disk[n]
      /\ new \notin DOMAIN disk /\ Active \notin DOMAIN disk'
  BY <1>1, <1>2 DEF Rename
<1>4. \A n \in DOMAIN disk : disk[n].mtime \in Nat
  BY FileTypes
<1>5. Dated'
  BY <1>1, <1>3 DEF Ordered, Dated
<1>6. Apart'
  BY <1>1, <1>3 DEF Ordered, Apart
<1>7. ASSUME NEW m \in DOMAIN disk', NEW n \in DOMAIN disk', disk'[m].mtime < disk'[n].mtime
      PROVE  Precedes(m, n)'
  <2>1. CASE m = new
    <3>1. n \in DOMAIN disk \ {Active}
      BY <2>1, <1>1, <1>3, <1>4, <1>7
    <3> QED
      BY <3>1, <2>1, <1>1, <1>3, <1>4, <1>7 DEF Ordered, ActiveNewest
  <2>2. CASE m # new /\ n = new
    <3>1. m \in DOMAIN disk \ {Active}
      BY <2>2, <1>3
    <3>2. Precedes(m, Active)
      BY <3>1, <1>1 DEF Ordered, ActiveNewest
    <3> QED
      BY <3>1, <3>2, <2>2, <1>3 DEF Precedes
  <2>3. CASE m # new /\ n # new
    <3>1. m \in DOMAIN disk \ {Active} /\ n \in DOMAIN disk \ {Active}
      BY <2>3, <1>3
    <3>2. Precedes(m, n)
      BY <3>1, <1>3, <1>7 DEF Ordered, Aged
    <3> QED
      BY <3>1, <3>2, <1>3 DEF Precedes
  <2> QED
    BY <2>1, <2>2, <2>3
<1>8. ActiveNewest'
  BY <1>3 DEF ActiveNewest
<1> QED
  BY <1>5, <1>6, <1>7, <1>8 DEF Ordered, Aged

LEMMA RemoveShrinks ==
    ASSUME LogInv, NEW t \in Threads, Remove(t)
    PROVE  \E v \in NextVictims :
        /\ v \in victims /\ victims \subseteq DOMAIN disk /\ victims' = victims \ {v}
        /\ v = Active => disk' = disk /\ dropped' = dropped
        /\ v # Active => /\ DOMAIN disk' = DOMAIN disk \ {v}
                         /\ dropped' = dropped \cup disk[v].lines
        /\ \A n \in DOMAIN disk' : disk'[n] = disk[n]
  BY DEF Remove, NextVictims, LogInv, Victims, Restrict

(* A line written is newer than any other, and so is its file. *)
LEMMA WriteOrdered ==
    ASSUME LogInv, Ordered, NEW t \in Threads, Write(t)
    PROVE  Ordered'
<1>1. Active \in DOMAIN disk /\ now' = now
  BY DEF Write, Go, LogInv, Stream, Using
<1>2. /\ DOMAIN disk' = DOMAIN disk
      /\ \A n \in DOMAIN disk \ {Active} : disk'[n] = disk[n]
      /\ disk'[Active].lines = disk[Active].lines \cup {lines + 1}
      /\ disk'[Active].mtime = now
  BY <1>1 DEF Write
<1>3. /\ now \in Nat /\ lines \in Nat
      /\ \A n \in DOMAIN disk : /\ disk[n].mtime \in Nat
                                /\ \A x \in disk[n].lines : x \in Nat /\ x <= lines
  BY FileTypes
<1>4. Dated'
  BY <1>1, <1>2, <1>3 DEF Ordered, Dated
<1>5. Apart'
  <2>1. \A n \in DOMAIN disk : lines + 1 \notin disk[n].lines
    BY <1>3
  <2> QED
    BY <2>1, <1>1, <1>2 DEF Ordered, Apart
<1>6. ASSUME NEW n \in DOMAIN disk \ {Active}
      PROVE  disk[n].mtime <= disk'[Active].mtime /\ Precedes(n, Active)'
  <2>1. Precedes(n, Active)
    BY <1>1 DEF Ordered, ActiveNewest
  <2>2. \A x \in disk[n].lines : x < lines + 1
    BY <1>3
  <2>3. Precedes(n, Active)'
    BY <2>1, <2>2, <1>2 DEF Precedes
  <2> QED
    BY <2>3, <1>2 DEF Ordered, Dated
<1>7. ActiveNewest'
  BY <1>2, <1>6 DEF ActiveNewest
<1>8. ASSUME NEW m \in DOMAIN disk', NEW n \in DOMAIN disk', disk'[m].mtime < disk'[n].mtime
      PROVE  Precedes(m, n)'
  <2>1. m # Active
    BY <1>2, <1>3, <1>6, <1>8
  <2>2. CASE n = Active
    BY <2>1, <2>2, <1>2, <1>6
  <2>3. CASE n # Active
    <3>1. Precedes(m, n)
      BY <2>1, <2>3, <1>2, <1>8 DEF Ordered, Aged
    <3> QED
      BY <3>1, <2>1, <2>3, <1>2 DEF Precedes
  <2> QED
    BY <2>2, <2>3
<1> QED
  BY <1>4, <1>5, <1>7, <1>8 DEF Ordered, Aged

LEMMA NextOrdered == LogInv /\ Ordered /\ [Next]_vars => Ordered'
<1> SUFFICES ASSUME LogInv, Ordered, [Next]_vars PROVE Ordered'
  OBVIOUS
<1>1. ASSUME disk' = disk, now' \in {now, now + 1} PROVE Ordered'
  BY <1>1, FewerOrdered
<1>2. CASE Boot
  BY <1>2, OpenedOrdered DEF Boot
<1>3. CASE Close \/ Exit \/ Tick \/ UNCHANGED vars
  BY <1>1, <1>3 DEF Close, Exit, Tick, vars
<1>4. ASSUME NEW t \in Threads, Call(t) \/ LogPrint(t)
      PROVE  Ordered'
  <2>1. CASE Rename(t)
    BY <2>1, RenameOrdered
  <2>2. CASE Reopen(t)
    BY <2>2, OpenedOrdered DEF Reopen, LogOnly
  <2>3. CASE Remove(t)
    <3>1. DOMAIN disk' \subseteq DOMAIN disk /\ \A n \in DOMAIN disk' : disk'[n] = disk[n]
      BY <2>3, RemoveShrinks
    <3>2. now' = now
      BY <2>3 DEF Remove, LogOnly
    <3> QED
      BY <3>1, <3>2, FewerOrdered
  <2>4. CASE Write(t)
    BY <2>4, WriteOrdered
  <2>5. ASSUME Call(t) \/ Lock(t) \/ PrintOnly(t) \/ SizeWithin(t) \/ CloseFull(t)
               \/ RenameRefused(t) \/ ReopenFails(t) \/ Scan(t) \/ ScanFails(t)
               \/ EndRemoving(t)
        PROVE  Ordered'
    BY <2>5, <1>1 DEF Call, Lock, PrintOnly, SizeWithin, CloseFull, RenameRefused,
       ReopenFails, Scan, ScanFails, EndRemoving, LogOnly
  <2> QED
    BY <2>1, <2>2, <2>3, <2>4, <2>5, <1>4 DEF LogPrint
<1> QED
  BY <1>2, <1>3, <1>4 DEF Next

-----------------------------------------------------------------------------
(* How many files there are.                                               *)
(*                                                                         *)
(* What a cleanup leaves is within the limit from the start; the log in    *)
(* use, should it be among the victims, is not removed and makes one file  *)
(* more, and then it is no newer than the rest.  Between a rotation that   *)
(* has ended and the next only the log in use is written.                  *)
Within(K) ==
    \/ Cardinality(K) <= LogFileCount
    \/ /\ Cardinality(K) = LogFileCount + 1
       /\ \A m, n \in K \ {Active} : disk[m].mtime = disk[n].mtime

Spared == DOMAIN disk \ victims

Removing == \A t \in Threads : pc[t] = "remove" =>
    /\ Oldest(victims)
    /\ Within(Spared)
    /\ Active \in victims => Cardinality(Spared) <= LogFileCount

Untidied == tidied => running /\ \A t \in Threads : pc[t] \notin Rotating

TidyInv == LogInv /\ Ordered /\ Removing /\ Untidied /\ FilesBounded

LEMMA FilesFinite ==
    ASSUME LogInv
    PROVE  IsFiniteSet(DOMAIN disk) /\ Cardinality(DOMAIN disk) \in Nat
<1>1. IsFiniteSet(Seconds)
  BY BoundAssumption, FS_Interval DEF Seconds
<1>2. IsFiniteSet(Names)
  BY <1>1, FS_AddElement DEF Names
<1>3. DOMAIN disk \in SUBSET Names
  BY DEF LogInv, TypeOK
<1> QED
  BY <1>2, <1>3, FS_Subset, FS_CardinalityType

(* The cleanup takes as many of the oldest files as there are too many. *)
LEMMA ScanLimits ==
    ASSUME LogInv, NEW t \in Threads, Scan(t)
    PROVE  Removing'
<1>1. PICK V \in SUBSET DOMAIN disk :
        /\ Cardinality(V) = IF Excess > 0 THEN Excess ELSE 0
        /\ Oldest(V)
        /\ victims' = V
  BY DEF Scan
<1>2. disk' = disk
  BY DEF Scan
<1>3. /\ IsFiniteSet(DOMAIN disk) /\ Cardinality(DOMAIN disk) \in Nat
      /\ LogFileCount \in Nat
  BY FilesFinite, LimitAssumption
<1>4. DOMAIN disk \cap V = V
  OBVIOUS
<1>5. Cardinality(DOMAIN disk \ V) = Cardinality(DOMAIN disk) - Cardinality(V)
  BY <1>3, <1>4, FS_Difference
<1>6. Cardinality(DOMAIN disk \ V) <= LogFileCount
  BY <1>1, <1>3, <1>5 DEF Excess
<1>7. Spared' = DOMAIN disk \ V
  BY <1>1, <1>2 DEF Spared
<1>8. Oldest(victims)'
  BY <1>1, <1>2 DEF Oldest
<1> QED
  BY <1>6, <1>7, <1>8 DEF Removing, Within

LEMMA RemoveLimits ==
    ASSUME TidyInv, NEW t \in Threads, Remove(t)
    PROVE  Removing'
<1>1. PICK v \in NextVictims :
        /\ v \in victims /\ victims \subseteq DOMAIN disk /\ victims' = victims \ {v}
        /\ v = Active => disk' = disk /\ dropped' = dropped
        /\ v # Active => /\ DOMAIN disk' = DOMAIN disk \ {v}
                         /\ dropped' = dropped \cup disk[v].lines
        /\ \A n \in DOMAIN disk' : disk'[n] = disk[n]
  BY RemoveShrinks DEF TidyInv
<1>2. /\ pc[t] = "remove" /\ LogInv
      /\ Oldest(victims) /\ Within(Spared)
      /\ Active \in victims => Cardinality(Spared) <= LogFileCount
  BY DEF Remove, TidyInv, Removing
<1>3. \A n \in DOMAIN disk : disk[n].mtime \in Nat
  BY <1>2, FileTypes
<1>4. Active \in DOMAIN disk
  BY <1>2 DEF LogInv, Stream, Using
<1>5. CASE v = Active
  <2>1. Spared' = Spared \cup {Active} /\ Active \notin Spared
    BY <1>1, <1>4, <1>5 DEF Spared
  <2>2. IsFiniteSet(Spared) /\ Cardinality(Spared) \in Nat
    <3>1. Spared \in SUBSET DOMAIN disk
      BY DEF Spared
    <3> QED
      BY <3>1, <1>2, FilesFinite, FS_Subset, FS_CardinalityType
  <2>3. Cardinality(Spared') = Cardinality(Spared) + 1
    BY <2>1, <2>2, FS_AddElement
  <2>4. ASSUME NEW n \in Spared PROVE disk[n].mtime = disk[Active].mtime
    <3>1. n \in DOMAIN disk \ {Active}
      BY <2>1 DEF Spared
    <3>2. disk[Active].mtime <= disk[n].mtime
      BY <1>1, <1>2, <1>5 DEF Oldest, Spared
    <3>3. disk[n].mtime <= disk[Active].mtime
      BY <3>1, <1>4 DEF TidyInv, Ordered, ActiveNewest
    <3> QED
      BY <3>1, <3>2, <3>3, <1>3, <1>4
  <2>5. Cardinality(Spared) <= LogFileCount /\ LogFileCount \in Nat
    BY <1>1, <1>2, <1>5, LimitAssumption
  <2>6. Within(Spared)'
    <3>1. \A m, n \in Spared' \ {Active} : disk'[m].mtime = disk'[n].mtime
      BY <2>1, <2>4, <1>1, <1>5
    <3> QED
      BY <3>1, <2>2, <2>3, <2>5 DEF Within
  <2>7. Oldest(victims)'
    <3>1. ASSUME NEW w \in victims', NEW k \in DOMAIN disk \ victims'
          PROVE  disk[w].mtime <= disk[k].mtime
      <4>1. CASE k = Active
        BY <4>1, <1>1, <1>4, <1>5 DEF TidyInv, Ordered, ActiveNewest
      <4>2. CASE k # Active
        BY <4>2, <1>1, <1>2, <1>5 DEF Oldest
      <4> QED
        BY <4>1, <4>2
    <3> QED
      BY <3>1, <1>1, <1>5 DEF Oldest
  <2>8. Active \notin victims'
    BY <1>1, <1>5
  <2> QED
    BY <2>6, <2>7, <2>8 DEF Removing
<1>6. CASE v # Active
  <2>1. Spared' = Spared /\ \A n \in Spared : disk'[n] = disk[n]
    BY <1>1, <1>6 DEF Spared
  <2>2. Within(Spared)'
    BY <2>1, <1>2 DEF Within
  <2>3. Oldest(victims)'
    <3>1. \A w \in victims' : w \in DOMAIN disk' /\ w \in victims
      BY <1>1, <1>6
    <3>2. \A k \in DOMAIN disk' \ victims' : k \in DOMAIN disk' /\ k \in DOMAIN disk \ victims
      BY <1>1, <1>6
    <3> QED
      BY <3>1, <3>2, <1>1, <1>2 DEF Oldest
  <2>4. Active \in victims' => Cardinality(Spared') <= LogFileCount
    BY <2>1, <1>1, <1>2
  <2> QED
    BY <2>2, <2>3, <2>4 DEF Removing
<1> QED
  BY <1>5, <1>6

(* Nothing else touches the files while a thread removes some. *)
LEMMA OthersLimits ==
    ASSUME TidyInv,
           \/ \A t \in Threads : pc'[t] # "remove"
           \/ /\ disk' = disk /\ victims' = victims
              /\ \A t \in Threads : pc'[t] = "remove" => pc[t] = "remove"
    PROVE  Removing'
<1>1. CASE \A t \in Threads : pc'[t] # "remove"
  BY <1>1 DEF Removing
<1>2. CASE disk' = disk /\ victims' = victims
           /\ \A t \in Threads : pc'[t] = "remove" => pc[t] = "remove"
  <2>1. Spared' = Spared
    BY <1>2 DEF Spared
  <2>2. Oldest(victims) => Oldest(victims)'
    BY <1>2 DEF Oldest
  <2>3. Within(Spared) => Within(Spared)'
    BY <2>1, <1>2 DEF Within
  <2> QED
    BY <2>1, <2>2, <2>3, <1>2 DEF Removing, TidyInv
<1> QED
  BY <1>1, <1>2

LEMMA NextRemoving == TidyInv /\ [Next]_vars => Removing'
<1> SUFFICES ASSUME TidyInv, [Next]_vars PROVE Removing'
  OBVIOUS
<1>1. LogInv /\ pc \in [Threads -> {"idle", "lock", "check", "write"} \cup Rotating]
  BY DEF TidyInv, LogInv, TypeOK
<1>2. CASE Boot
  <2>1. pc' = pc /\ \A t \in Threads : pc[t] = "idle"
    BY <1>1, <1>2 DEF Boot, LogInv, Ended
  <2> QED
    BY <2>1, OthersLimits
<1>3. CASE Close \/ Tick \/ UNCHANGED vars
  <2>1. disk' = disk /\ victims' = victims /\ pc' = pc
    BY <1>3 DEF Close, Tick, vars
  <2> QED
    BY <2>1, OthersLimits
<1>4. CASE Exit
  <2>1. \A t \in Threads : pc'[t] # "remove"
    BY <1>4 DEF Exit
  <2> QED
    BY <2>1, OthersLimits
<1>5. ASSUME NEW t \in Threads, Call(t) \/ LogPrint(t)
      PROVE  Removing'
  <2>1. CASE Scan(t)
    BY <2>1, <1>1, ScanLimits
  <2>2. CASE Remove(t)
    BY <2>2, RemoveLimits
  <2>3. ASSUME Call(t) \/ Lock(t) \/ PrintOnly(t) \/ SizeWithin(t) \/ CloseFull(t)
               \/ RenameRefused(t) \/ ReopenFails(t) \/ ScanFails(t) \/ EndRemoving(t)
        PROVE  Removing'
    <3>1. /\ disk' = disk /\ victims' = victims
          /\ \E to \in {"idle", "lock", "check", "rename", "open", "write"} :
                 pc' = [pc EXCEPT ![t] = to]
      BY <2>3 DEF Call, Lock, PrintOnly, SizeWithin, CloseFull, RenameRefused,
         ReopenFails, ScanFails, EndRemoving, Go
    <3>2. \A u \in Threads : pc'[u] = "remove" => pc[u] = "remove"
      BY <3>1, <1>1
    <3> QED
      BY <3>1, <3>2, OthersLimits
  <2>4. ASSUME Rename(t) \/ Reopen(t) \/ Write(t)
        PROVE  Removing'
    <3>1. /\ pc[t] \in {"write"} \cup Rotating
          /\ \E to \in {"idle", "open", "scan"} : pc' = [pc EXCEPT ![t] = to]
      BY <2>4 DEF Rename, Reopen, Write, Go, Rotating
    <3>2. \A u \in Threads \ {t} : pc[u] \in {"idle", "lock"}
      BY <3>1, <1>1, Alone
    <3>3. \A u \in Threads : pc'[u] # "remove"
      BY <3>1, <3>2, <1>1
    <3> QED
      BY <3>3, OthersLimits
  <2> QED
    BY <2>1, <2>2, <2>3, <2>4, <1>5 DEF LogPrint
<1> QED
  BY <1>2, <1>3, <1>4, <1>5 DEF Next

(* While there are too many files, some thread is rotating. *)
LEMMA NextTidied == TidyInv /\ [Next]_vars => Untidied' /\ FilesBounded'
<1> SUFFICES ASSUME TidyInv, [Next]_vars PROVE Untidied' /\ FilesBounded'
  OBVIOUS
<1>1. LogInv /\ pc \in [Threads -> {"idle", "lock", "check", "write"} \cup Rotating]
  BY DEF TidyInv, LogInv, TypeOK
<1>2. /\ tidied => running /\ \A u \in Threads : pc[u] \notin Rotating
      /\ tidied => Within(DOMAIN disk)
  BY DEF TidyInv, Untidied, FilesBounded, Within
<1>3. ASSUME tidied' => running' /\ \A u \in Threads : pc'[u] \notin Rotating,
             tidied' => Within(DOMAIN disk)'
      PROVE  Untidied' /\ FilesBounded'
  BY <1>3 DEF Untidied, FilesBounded, Within
<1>4. ASSUME ~tidied' PROVE Untidied' /\ FilesBounded'
  BY <1>3, <1>4
<1>5. ASSUME disk' = disk PROVE Within(DOMAIN disk) => Within(DOMAIN disk)'
  BY <1>5 DEF Within
<1>6. CASE Boot
  BY <1>2, <1>4, <1>6 DEF Boot
<1>7. CASE Exit
  BY <1>4, <1>7 DEF Exit
<1>8. CASE Close \/ Tick \/ UNCHANGED vars
  <2>1. UNCHANGED <<disk, running, pc, tidied>>
    BY <1>8 DEF Close, Tick, vars
  <2> QED
    BY <2>1, <1>2, <1>3, <1>5
<1>9. ASSUME NEW t \in Threads, Call(t) \/ LogPrint(t)
      PROVE  Untidied' /\ FilesBounded'
  <2>1. CASE CloseFull(t)
    BY <2>1, <1>4 DEF CloseFull
  <2>2. ASSUME Rename(t) \/ RenameRefused(t) \/ Reopen(t) \/ ReopenFails(t) \/ Scan(t)
               \/ ScanFails(t) \/ Remove(t)
        PROVE  Untidied' /\ FilesBounded'
    <3>1. pc[t] \in Rotating /\ tidied' = tidied
      BY <2>2 DEF Rename, RenameRefused, Reopen, ReopenFails, Scan, ScanFails, Remove,
         Go, Rotating
    <3> QED
      BY <3>1, <1>2, <1>4
  <2>3. ASSUME Call(t) \/ Lock(t) \/ PrintOnly(t) \/ SizeWithin(t)
        PROVE  Untidied' /\ FilesBounded'
    <3>1. /\ disk' = disk /\ tidied' = tidied /\ running' = running
          /\ \E to \in {"idle", "lock", "check", "write"} : pc' = [pc EXCEPT ![t] = to]
      BY <2>3 DEF Call, Lock, PrintOnly, SizeWithin, Go, LogOnly
    <3>2. \A u \in Threads : pc'[u] \in Rotating => pc[u] \in Rotating
      BY <3>1, <1>1 DEF Rotating
    <3> QED
      BY <3>1, <3>2, <1>2, <1>3, <1>5
  <2>4. CASE EndRemoving(t)
    <3>1. /\ pc[t] = "remove" /\ pc' = [pc EXCEPT ![t] = "write"] /\ victims = {}
          /\ disk' = disk /\ running' = running
      BY <2>4 DEF EndRemoving, Go, LogOnly
    <3>2. running /\ \A u \in Threads \ {t} : pc[u] \in {"idle", "lock"}
      BY <3>1, <1>1, Alone DEF Rotating, LogInv, Ended
    <3>3. \A u \in Threads : pc'[u] \notin Rotating
      BY <3>1, <3>2, <1>1 DEF Rotating
    <3>4. Within(DOMAIN disk)
      <4>1. Within(Spared) /\ Spared = DOMAIN disk
        BY <3>1 DEF TidyInv, Removing, Spared
      <4> QED
        BY <4>1
    <3> QED
      BY <3>1, <3>2, <3>3, <3>4, <1>3, <1>5
  <2>5. CASE PrintOnly(t) \/ Write(t)
    <3>1. /\ DOMAIN disk' = DOMAIN disk
          /\ \A n \in DOMAIN disk \ {Active} : disk'[n] = disk[n]
          /\ pc' = [pc EXCEPT ![t] = "idle"] /\ tidied' = tidied /\ running' = running
      BY <2>5 DEF PrintOnly, Write, Go, LogOnly
    <3>2. \A u \in Threads : pc'[u] \in Rotating => pc[u] \in Rotating
      BY <3>1, <1>1 DEF Rotating
    <3>3. Within(DOMAIN disk) => Within(DOMAIN disk)'
      BY <3>1 DEF Within
    <3> QED
      BY <3>1, <3>2, <3>3, <1>2, <1>3
  <2> QED
    BY <2>1, <2>2, <2>3, <2>4, <2>5, <1>9 DEF LogPrint
<1> QED
  BY <1>6, <1>7, <1>8, <1>9 DEF Next

LEMMA InitTidy == Init => TidyInv
<1> SUFFICES ASSUME Init PROVE TidyInv
  OBVIOUS
<1>1. DOMAIN disk = {}
  BY DEF Init, Empty
<1>2. Ordered
  BY <1>1 DEF Ordered, Dated, Apart, Aged, ActiveNewest
<1>3. Removing /\ Untidied /\ FilesBounded
  BY DEF Init, Removing, Untidied, FilesBounded
<1> QED
  BY <1>2, <1>3, InitLogInv DEF TidyInv

LEMMA SpecTidyInv == Spec => []TidyInv
<1>1. TidyInv /\ [Next]_vars => TidyInv'
  <2> SUFFICES ASSUME TidyInv, [Next]_vars PROVE TidyInv'
    OBVIOUS
  <2>1. LogInv' /\ Ordered'
    BY NextLogInv, NextOrdered DEF TidyInv
  <2> QED
    BY <2>1, NextRemoving, NextTidied DEF TidyInv
<1> QED
  BY InitTidy, <1>1, PTL DEF Spec

(* Once a rotation has ended the files are as many as configured, one more *)
(* only where the log in use is as old as any; and so they stay until the  *)
(* next, however the threads' lines interleave.                            *)
THEOREM FilesStayBounded == Spec => []FilesBounded
<1>1. TidyInv => FilesBounded
  BY DEF TidyInv
<1> QED
  BY <1>1, SpecTidyInv, PTL

(* What a cleanup removes is older line for line than every file it        *)
(* leaves, down to files last written to within one second.                *)
THEOREM OldestRemovedFirst == Spec => OldestGoFirst
<1> DEFINE OldestGoes == \A n \in DOMAIN disk :
               disk[n].lines \cap (dropped' \ dropped) # {} =>
                   \A k \in DOMAIN disk' :
                       \/ \A x \in disk[n].lines, y \in disk'[k].lines : x < y
                       \/ disk[n].mtime = disk'[k].mtime
<1>1. TidyInv /\ [Next]_vars => [OldestGoes]_vars
  <2> SUFFICES ASSUME TidyInv, [Next]_vars,
                      NEW n \in DOMAIN disk, disk[n].lines \cap (dropped' \ dropped) # {},
                      NEW k \in DOMAIN disk'
               PROVE  \/ \A x \in disk[n].lines, y \in disk'[k].lines : x < y
                      \/ disk[n].mtime = disk'[k].mtime
    OBVIOUS
  <2>1. PICK t \in Threads : Remove(t)
    BY DEF Next, vars, Boot, Close, Exit, Tick, LogPrint, Call, Lock, PrintOnly,
       SizeWithin, CloseFull, Rename, RenameRefused, Reopen, ReopenFails, Scan,
       ScanFails, EndRemoving, Write
  <2>2. PICK v \in NextVictims :
          /\ v \in victims /\ victims \subseteq DOMAIN disk /\ victims' = victims \ {v}
          /\ v = Active => disk' = disk /\ dropped' = dropped
          /\ v # Active => /\ DOMAIN disk' = DOMAIN disk \ {v}
                           /\ dropped' = dropped \cup disk[v].lines
          /\ \A m \in DOMAIN disk' : disk'[m] = disk[m]
    BY <2>1, RemoveShrinks DEF TidyInv
  <2>3. v # Active /\ k \in DOMAIN disk \ {v} /\ disk'[k] = disk[k]
    BY <2>2
  <2>4. n = v
    BY <2>2, <2>3 DEF TidyInv, Ordered, Apart
  <2>5. disk[v].mtime <= disk[k].mtime
    <3>1. CASE k \in victims
      BY <2>2, <3>1 DEF NextVictims
    <3>2. CASE k \notin victims
      <4>1. Oldest(victims)
        BY <2>1 DEF Remove, TidyInv, Removing
      <4> QED
        BY <4>1, <3>2, <2>2, <2>3 DEF Oldest
    <3> QED
      BY <3>1, <3>2
  <2>6. disk[v].mtime \in Nat /\ disk[k].mtime \in Nat
    BY <2>2, <2>3, FileTypes DEF TidyInv
  <2>7. disk[v].mtime < disk[k].mtime => Precedes(v, k)
    BY <2>2, <2>3 DEF TidyInv, Ordered, Aged
  <2> QED
    BY <2>3, <2>4, <2>5, <2>6, <2>7 DEF Precedes
<1> QED
  BY <1>1, SpecTidyInv, PTL DEF Spec, OldestGoFirst
=============================================================================
