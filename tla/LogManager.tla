------------------------------ MODULE LogManager ------------------------------
(***************************************************************************)
(* The log file of src/log_manager.c: the threads' lines go to it under    *)
(* g_log_mutex; a line that finds it full first has it renamed to a name   *)
(* with the second in it, opened anew, and the oldest of the log files     *)
(* removed.  The process may be killed between any two calls into the C    *)
(* library, and started again on the files it has left.                    *)
(*                                                                         *)
(* Lines are numbered in the order they are written, and a file is its     *)
(* lines and its time of modification.  Lines below the log level, and     *)
(* lines on the standard output, are left out.  The clock does not go      *)
(* back, and no other program has the log files open; as on Windows, a     *)
(* name that is taken is not renamed to, and an open file is not removed.  *)
(***************************************************************************)
EXTENDS Integers, FiniteSets, Functions

CONSTANTS
    Threads,        \* the threads that log
    LogFileCount,   \* log_file_count
    LogFileSize,    \* log_file_size, in lines
    Active,         \* log_file, the name of the log that is written
    MaxLines,       \* bound: lines written to files, over all runs
    LastSecond      \* bound: the last second

Free == "free"
ASSUME ThreadAssumption == IsFiniteSet(Threads) /\ Free \notin Threads
ASSUME LimitAssumption == LogFileCount \in Nat \ {0} /\ LogFileSize \in Nat \ {0}
ASSUME BoundAssumption == MaxLines \in Nat /\ LastSecond \in Nat

Seconds == 0..LastSecond
ASSUME NameAssumption == Active \notin Seconds
Names == Seconds \cup {Active}      \* a rotated log is named by its second
Lines == 1..MaxLines
File == [lines : SUBSET Lines, mtime : Seconds]

VARIABLES
    now,            \* time(NULL)
    running,        \* the process runs, its log initialised
    toFile,         \* log_to_file
    open,           \* log_fp is not NULL
    disk,           \* the log files there are, by name
    mutex,          \* g_log_mutex
    pc,             \* where each thread is
    victims,        \* the files the cleanup is still to remove
    lines,          \* lines written so far
    \* history
    dropped,        \* lines of the files the cleanup has removed
    tidied          \* this run's last rotation has removed what it had to

vars == <<now, running, toFile, open, disk, mutex, pc, victims, lines,
          dropped, tidied>>

Rotating == {"rename", "open", "scan", "remove"}

TypeOK ==
    /\ now \in Seconds
    /\ running \in BOOLEAN /\ toFile \in BOOLEAN /\ open \in BOOLEAN
    /\ DOMAIN disk \subseteq Names /\ \A n \in DOMAIN disk : disk[n] \in File
    /\ mutex \in Threads \cup {Free}
    /\ pc \in [Threads -> {"idle", "lock", "check", "write"} \cup Rotating]
    /\ victims \subseteq Names
    /\ lines \in 0..MaxLines
    /\ dropped \subseteq Lines
    /\ tidied \in BOOLEAN

Empty == [n \in {} |-> [lines |-> {}, mtime |-> 0]]

Init ==
    /\ now = 0
    /\ running = FALSE /\ toFile = FALSE /\ open = FALSE
    /\ disk = Empty
    /\ mutex = Free /\ pc = [t \in Threads |-> "idle"]
    /\ victims = {} /\ lines = 0
    /\ dropped = {} /\ tidied = FALSE

-----------------------------------------------------------------------------
(* fopen(log_file, "a"): a file that is not there is created. *)
Opened == IF Active \in DOMAIN disk
          THEN disk
          ELSE [n \in DOMAIN disk \cup {Active} |->
                   IF n = Active THEN [lines |-> {}, mtime |-> now] ELSE disk[n]]

OpenedTruncated ==           \* mutant: opens for writing, not for appending
    [n \in DOMAIN disk \cup {Active} |->
        IF n = Active THEN [lines |-> {}, mtime |-> now] ELSE disk[n]]

(* log_manager_init; when the log cannot be opened the program ends. *)
Boot ==
    /\ ~running
    /\ running' = TRUE /\ toFile' = TRUE /\ open' = TRUE
    /\ disk' = Opened
    /\ UNCHANGED <<now, mutex, pc, victims, lines, dropped, tidied>>

(* log_manager_cleanup.  Threads that log afterwards find no stream. *)
Close ==
    /\ running /\ open
    /\ mutex = Free
    /\ open' = FALSE
    /\ UNCHANGED <<now, running, toFile, disk, mutex, pc, victims, lines,
                   dropped, tidied>>

(* The process ends, killed or not; every line written has been flushed. *)
Exit ==
    /\ running
    /\ running' = FALSE /\ toFile' = FALSE /\ open' = FALSE
    /\ mutex' = Free /\ pc' = [t \in Threads |-> "idle"]
    /\ victims' = {} /\ tidied' = FALSE
    /\ UNCHANGED <<now, disk, lines, dropped>>

Tick ==
    /\ now < LastSecond
    /\ now' = now + 1
    /\ UNCHANGED <<running, toFile, open, disk, mutex, pc, victims, lines,
                   dropped, tidied>>

-----------------------------------------------------------------------------
(* log_print, by thread t. *)
Go(t, from, to) == pc[t] = from /\ pc' = [pc EXCEPT ![t] = to]
LogOnly == UNCHANGED <<now, running, lines>>

Call(t) ==
    /\ running
    /\ lines + Cardinality({u \in Threads : pc[u] # "idle"}) < MaxLines
    /\ Go(t, "idle", "lock")
    /\ LogOnly
    /\ UNCHANGED <<toFile, open, disk, mutex, victims, dropped, tidied>>

LockNot(t) ==                \* mutant: logs without the mutex
    /\ Go(t, "lock", "check")
    /\ open
    /\ mutex' = t
    /\ LogOnly
    /\ UNCHANGED <<toFile, open, disk, victims, dropped, tidied>>

Lock(t) ==
    /\ mutex = Free
    /\ Go(t, "lock", "check")
    /\ open
    /\ mutex' = t
    /\ LogOnly
    /\ UNCHANGED <<toFile, open, disk, victims, dropped, tidied>>

(* Nothing goes to a file: the line is only printed. *)
PrintOnly(t) ==
    /\ mutex = Free
    /\ ~open
    /\ Go(t, "lock", "idle")
    /\ LogOnly
    /\ UNCHANGED <<toFile, open, disk, mutex, victims, dropped, tidied>>

(* check_and_rotate_log *)
Full == Cardinality(disk[Active].lines) >= LogFileSize

SizeWithin(t) ==
    /\ Go(t, "check", "write")
    /\ ~Full
    /\ LogOnly
    /\ UNCHANGED <<toFile, open, disk, mutex, victims, dropped, tidied>>

CloseFull(t) ==
    /\ Go(t, "check", "rename")
    /\ Full
    /\ open' = FALSE /\ tidied' = FALSE
    /\ LogOnly
    /\ UNCHANGED <<toFile, disk, mutex, victims, dropped>>

Rename(t) ==
    /\ Go(t, "rename", "open")
    /\ now \notin DOMAIN disk
    /\ disk' = [n \in (DOMAIN disk \ {Active}) \cup {now} |->
                   IF n = now THEN disk[Active] ELSE disk[n]]
    /\ UNCHANGED <<now, running, toFile, open, mutex, victims, lines, dropped,
                   tidied>>

RenameRefused(t) ==
    /\ Go(t, "rename", "open")
    /\ now \in DOMAIN disk
    /\ LogOnly
    /\ UNCHANGED <<toFile, open, disk, mutex, victims, dropped, tidied>>

ReopenTruncates(t) ==        \* mutant: the log is emptied when it was not renamed
    /\ Go(t, "open", "scan")
    /\ open' = TRUE
    /\ disk' = OpenedTruncated
    /\ LogOnly
    /\ UNCHANGED <<toFile, mutex, victims, dropped, tidied>>

Reopen(t) ==
    /\ Go(t, "open", "scan")
    /\ open' = TRUE
    /\ disk' = Opened
    /\ LogOnly
    /\ UNCHANGED <<toFile, mutex, victims, dropped, tidied>>

ReopenFailsLocked(t) ==      \* mutant: returns without unlocking
    /\ Go(t, "open", "idle")
    /\ toFile' = FALSE
    /\ LogOnly
    /\ UNCHANGED <<open, disk, mutex, victims, dropped, tidied>>

(* The program goes on without a log file. *)
ReopenFails(t) ==
    /\ Go(t, "open", "idle")
    /\ toFile' = FALSE
    /\ mutex' = Free
    /\ LogOnly
    /\ UNCHANGED <<open, disk, victims, dropped, tidied>>

-----------------------------------------------------------------------------
(* cleanup_old_log_files: the files beyond the limit, oldest first; files  *)
(* of one second come in any order, the active log among them.             *)
Newest(V) ==                 \* mutant: sorts the other way round
    \A v \in V, k \in DOMAIN disk \ V : disk[v].mtime >= disk[k].mtime

Oldest(V) == \A v \in V, k \in DOMAIN disk \ V : disk[v].mtime <= disk[k].mtime

RotatedExcess ==             \* mutant: does not count the log just opened
    Cardinality(DOMAIN disk) - 1 - LogFileCount

Excess == Cardinality(DOMAIN disk) - LogFileCount

Scan(t) ==
    /\ Go(t, "scan", "remove")
    /\ \E V \in SUBSET DOMAIN disk :
        /\ Cardinality(V) = IF Excess > 0 THEN Excess ELSE 0
        /\ Oldest(V)
        /\ victims' = V
    /\ LogOnly
    /\ UNCHANGED <<toFile, open, disk, mutex, dropped, tidied>>

(* The directory cannot be read. *)
ScanFails(t) ==
    /\ Go(t, "scan", "write")
    /\ LogOnly
    /\ UNCHANGED <<toFile, open, disk, mutex, victims, dropped, tidied>>

NextVictims == {v \in victims : \A w \in victims : disk[v].mtime <= disk[w].mtime}

Remove(t) ==
    /\ pc[t] = "remove"
    /\ \E v \in NextVictims :
        /\ victims' = victims \ {v}
        /\ IF v = Active
           THEN UNCHANGED <<disk, dropped>>
           ELSE /\ disk' = Restrict(disk, DOMAIN disk \ {v})
                /\ dropped' = dropped \cup disk[v].lines
    /\ LogOnly
    /\ UNCHANGED <<toFile, open, mutex, pc, tidied>>

EndRemoving(t) ==
    /\ Go(t, "remove", "write")
    /\ victims = {}
    /\ tidied' = TRUE
    /\ LogOnly
    /\ UNCHANGED <<toFile, open, disk, mutex, victims, dropped>>

(* fprintf, fflush, and the mutex is released. *)
Write(t) ==
    /\ Go(t, "write", "idle")
    /\ lines' = lines + 1
    /\ disk' = [disk EXCEPT ![Active] = [lines |-> @.lines \cup {lines + 1},
                                         mtime |-> now]]
    /\ mutex' = Free
    /\ UNCHANGED <<now, running, toFile, open, victims, dropped, tidied>>

-----------------------------------------------------------------------------
LogPrint(t) ==
    \/ Lock(t) \/ PrintOnly(t) \/ SizeWithin(t) \/ CloseFull(t)
    \/ Rename(t) \/ RenameRefused(t) \/ Reopen(t) \/ ReopenFails(t)
    \/ Scan(t) \/ ScanFails(t) \/ Remove(t) \/ EndRemoving(t) \/ Write(t)

Next ==
    \/ Boot \/ Close \/ Exit \/ Tick
    \/ \E t \in Threads : Call(t) \/ LogPrint(t)

(* A thread in a call goes on, and is not passed over for ever at the      *)
(* mutex.                                                                  *)
Spec ==
    /\ Init /\ [][Next]_vars
    /\ \A t \in Threads : WF_vars(LogPrint(t)) /\ SF_vars(Lock(t) \/ PrintOnly(t))

-----------------------------------------------------------------------------
(* A thread that is to look at the stream or write to it finds it open,    *)
(* whichever thread was rotating the log, or closed it, before.            *)
StreamOpenWhenUsed ==
    \A t \in Threads : pc[t] \in {"check", "scan", "remove", "write"} =>
        open /\ Active \in DOMAIN disk

(* A line that has been written is in one of the files until the cleanup   *)
(* removes its file; rotations that are refused, or cut short by the end   *)
(* of the process, lose none.                                              *)
Kept == UNION {disk[n].lines : n \in DOMAIN disk}
LinesAccounted == Kept \cup dropped = 1..lines

(* What the cleanup removes is older, line for line, than what it leaves,  *)
(* down to files last written to within one second.                        *)
OldestGoFirst ==
    [][\A n \in DOMAIN disk : disk[n].lines \cap (dropped' \ dropped) # {} =>
        \A k \in DOMAIN disk' :
            \/ \A x \in disk[n].lines, y \in disk'[k].lines : x < y
            \/ disk[n].mtime = disk'[k].mtime]_vars

(* When a rotation of this run has ended, there are at most as many files   *)
(* as configured; one more only if all that were rotated were last written *)
(* in one second, so that the log in use was as good as the oldest.        *)
FilesBounded ==
    tidied =>
        \/ Cardinality(DOMAIN disk) <= LogFileCount
        \/ /\ Cardinality(DOMAIN disk) = LogFileCount + 1
           /\ \A m, n \in DOMAIN disk \ {Active} : disk[m].mtime = disk[n].mtime

(* Every call of log_print returns, or the process ends. *)
CallsReturn == \A t \in Threads : pc[t] # "idle" ~> pc[t] = "idle"
=============================================================================
