-------------------------------- MODULE Log --------------------------------
(***************************************************************************)
(* The log of the runtime (chk_log.c, luabind/log.h) and the thread that   *)
(* writes it (chk_thread.c).  Any thread puts entries on a shared queue;   *)
(* the log thread moves them to its private queue, writes them to files    *)
(* that it rotates by day and by size, and is joined when the process      *)
(* ends.  A process may also crash; its files stay, and another follows.   *)
(***************************************************************************)
EXTENDS Integers, Sequences, SequencesExt, FiniteSets

CONSTANTS
  Thread, Main,    \* the threads that log; the one that starts and ends the process
  LogFile, None,
  MaxEntries,      \* a bound: entries of a process
  MaxFileSize,     \* CHK_MAX_LOG_FILE_SIZE, in entries
  DaySeconds,      \* seconds of a day
  MaxTime,         \* a bound: the clock
  MaxProcesses,    \* a bound: processes that follow one another
  PidReused        \* a process may get the pid of the one before

ASSUME ThreadAssumption == Main \in Thread
Second == 0..(DaySeconds - 1)
FileName == [file : LogFile, pid : 1..MaxProcesses, day : Nat, second : Second \cup {-1}]

ASSUME FileAssumption == None \notin LogFile \cup FileName
ASSUME BoundAssumption ==
  /\ MaxEntries \in Nat /\ MaxFileSize \in Nat /\ MaxTime \in Nat /\ MaxProcesses \in Nat \ {0}
  /\ DaySeconds \in Nat \ {0} /\ PidReused \in BOOLEAN

VARIABLES
  proc,     \* the process: running, ending (exit was called), ended
  runs,     \* how many processes there were, and the pid of this one
  start,    \* chk_thread_new: where the parent is, where the child is,
            \* whether argum.running is set
  share, private, \* logqueue.share_queue and private_queue
  wait,     \* logqueue.wait
  signals,  \* threads that have left the mutex and are going to signal
  signalled,\* the condition was signalled since the log thread waits
  lt,       \* where the log thread is
  entry,    \* the entry it holds
  stop,
  files,    \* the chk_logfile objects: listed, file (None or its name),
            \* tm, total_size, buffered entries of the FILE
  disk,     \* the files: their names and what was written to them
  now,
  pushed, written, \* the entries of this process: in the order in which they
            \* were pushed, and in which the thread came to write them, also
            \* those for which no file could be created
  seen,     \* how many had been pushed when the log thread last looked
  fault     \* a file was overwritten, or a condition used that is gone

starting == <<start, runs>>
queues == <<share, private, wait, signals, signalled>>
disks == <<files, disk>>
ghosts == <<pushed, written, seen>>
vars == <<proc, starting, queues, lt, entry, stop, disks, now, ghosts, fault>>

Runs == proc # "ended"
NoEntry == [id |-> 0, file |-> None]
Sound == fault = "none"
Day(t) == t \div DaySeconds
Live(f, day) == [file |-> f, pid |-> runs.pid, day |-> day, second |-> -1]
Rotated(name, tm) == [name EXCEPT !.second = tm % DaySeconds]
Closed == [listed |-> FALSE, file |-> None, tm |-> 0, total_size |-> 0, buffered |-> <<>>]

-----------------------------------------------------------------------------
(* The log thread is started by the first chk_create_logfile.  argum is a  *)
(* local variable of chk_thread_new.                                       *)

chk_thread_new ==
  /\ proc = "running" /\ start.parent = "none"
  /\ start' = [start EXCEPT !.parent = "created", !.child = "starting"]
  /\ UNCHANGED <<proc, runs, queues, lt, entry, stop, disks, now, ghosts, fault>>

start_routine ==
  /\ Runs /\ start.child = "starting"
  /\ start' = [start EXCEPT !.child = "signalling", !.running = TRUE]
  /\ UNCHANGED <<proc, runs, queues, lt, entry, stop, disks, now, ghosts, fault>>

(* The signal comes after the unlock: the parent may have seen running by  *)
(* then, and have destroyed the condition.                                 *)
SignalParent ==
  /\ Runs /\ start.child = "signalling"
  /\ start' = [start EXCEPT !.child = "running"] /\ lt' = "top"
  /\ \/ fault' = fault
     \/ start.parent = "returned" /\ fault' = "condition"
  /\ UNCHANGED <<proc, runs, queues, entry, stop, disks, now, ghosts>>

ParentGoesOn == start.parent = "created" /\ start.running
ThreadStarted ==
  /\ Runs /\ ParentGoesOn /\ start' = [start EXCEPT !.parent = "returned"]
  /\ UNCHANGED <<proc, runs, queues, lt, entry, stop, disks, now, ghosts, fault>>

Ready == Runs /\ start.parent = "returned"

(* A file has one object here: a program that creates two of one name is  *)
(* left out.                                                               *)
chk_create_logfile(f) ==
  /\ Ready /\ ~files[f].listed
  /\ files' = [files EXCEPT ![f].listed = TRUE]
  /\ UNCHANGED <<proc, starting, queues, lt, entry, stop, disk, now, ghosts, fault>>

-----------------------------------------------------------------------------
(* Writing an entry. *)

BugPushFront(e) == <<e>> \o share
PushedBack(e) == Append(share, e)
BugSignalsNobody(t) == UNCHANGED signals
SignalsFirst(t) == signals' = IF wait /\ Len(share') = 1 THEN signals \cup {t} ELSE signals

logqueue_push(t, e) == share' = PushedBack(e) /\ SignalsFirst(t)

(* Threads but the main one go on to log while the process ends.           *)
_write_log(t, f) ==
  /\ Ready /\ files[f].listed /\ t \notin signals /\ (t = Main => proc = "running")
  /\ Len(pushed) < MaxEntries
  /\ LET e == [id |-> Len(pushed) + 1, file |-> f]
     IN logqueue_push(t, e) /\ pushed' = Append(pushed, e)
  /\ UNCHANGED <<proc, starting, private, wait, signalled, lt, entry, stop, disks, now,
                 written, seen, fault>>

chk_condition_signal(t) ==
  /\ t \in signals /\ proc # "ended"
  /\ signals' = signals \ {t} /\ signalled' = (signalled \/ lt = "waiting")
  /\ UNCHANGED <<proc, starting, share, private, wait, lt, entry, stop, disks, now,
                 ghosts, fault>>

-----------------------------------------------------------------------------
(* The log thread.  stop is read for the time to wait and read again when  *)
(* no entry was fetched.                                                   *)

LogStep(from, to) == Runs /\ lt = from /\ lt' = to
Keeps(others) == UNCHANGED <<proc, starting, stop, now, others>>

ReadStop ==
  /\ LogStep("top", IF stop THEN "fetch" ELSE "fetch100")
  /\ Keeps(<<queues, entry, disks, ghosts, fault>>)

BugForgetsRest(list) ==
  IF list = <<>> THEN lt' = "null" /\ entry' = NoEntry /\ private' = <<>>
  ELSE lt' = "write" /\ entry' = Head(list) /\ private' = <<>>
Popped(list) ==
  IF list = <<>> THEN lt' = "null" /\ entry' = NoEntry /\ private' = <<>>
  ELSE lt' = "write" /\ entry' = Head(list) /\ private' = Tail(list)

PopPrivate ==
  /\ Runs /\ lt \in {"fetch", "fetch100"} /\ private # <<>>
  /\ Popped(private)
  /\ Keeps(<<share, wait, signals, signalled, disks, ghosts, fault>>)

(* In the mutex, with nothing in the private queue. *)
TakeShared ==
  /\ Popped(share) /\ share' = <<>> /\ seen' = Len(pushed)
  /\ Keeps(<<signals, disks, pushed, written, fault>>)
chk_condition_timedwait ==
  /\ LogStep("fetch100", "waiting") /\ private = <<>> /\ share = <<>>
  /\ wait' = TRUE /\ signalled' = FALSE
  /\ Keeps(<<share, private, signals, entry, disks, ghosts, fault>>)
Wakes == Runs /\ lt = "waiting" /\ wait' = FALSE /\ signalled' = FALSE /\ TakeShared
logqueue_fetch ==
  /\ Runs /\ private = <<>> /\ (lt = "fetch" \/ (lt = "fetch100" /\ share # <<>>))
  /\ TakeShared /\ UNCHANGED <<wait, signalled>>

(* Opening a file that exists empties it; renaming to one replaces it.     *)
Without(names) == [n \in DOMAIN disk \ names |-> disk[n]]
Lost(name) == name \in DOMAIN disk /\ disk[name] # <<>>

need_create_logfile(l) ==
  l.file = None \/ l.total_size > MaxFileSize \/ Day(l.tm) # Day(now)
Flushed(l) == disk[l.file] \o l.buffered
With(names, n, content) ==
  [k \in DOMAIN names \cup {n} |-> IF k = n THEN content ELSE names[k]]
BugNotRenamed(l) == With(disk, l.file, Flushed(l))
close_and_rename(l) == With(Without({l.file}), Rotated(l.file, l.tm), Flushed(l))

(* The directory or the file may not be there to create. *)
create_os_file(f, l, names) ==
  \/ /\ files' = [files EXCEPT ![f] = [l EXCEPT !.file = Live(f, Day(now)), !.tm = now,
                                                !.buffered = <<entry>>, !.total_size = 1]]
     /\ disk' = With(names, Live(f, Day(now)), <<>>)
  \/ files' = [files EXCEPT ![f] = l] /\ disk' = names

WriteEntry ==
  LET f == entry.file
      l == files[f]
  IN /\ LogStep("write", "flush")
     /\ IF ~need_create_logfile(l)
        THEN /\ files' = [files EXCEPT ![f].buffered = Append(@, entry),
                                       ![f].total_size = @ + 1]
             /\ UNCHANGED <<disk, fault>>
        ELSE LET names == IF l.file = None THEN disk ELSE close_and_rename(l)
             IN /\ create_os_file(f, [Closed EXCEPT !.listed = TRUE], names)
                /\ fault' = IF \/ l.file # None /\ Lost(Rotated(l.file, l.tm))
                               \/ Lost(Live(f, Day(now))) /\ Live(f, Day(now)) # l.file
                            THEN "overwritten" ELSE fault
     /\ written' = Append(written, entry) /\ entry' = NoEntry
     /\ Keeps(<<queues, pushed, seen>>)

BugBreaksAtOnce == lt = "flush" /\ stop
Breaks == lt = "null" /\ stop
LogContinues ==
  /\ LogStep("null", "flush") /\ ~Breaks /\ Keeps(<<queues, entry, disks, ghosts, fault>>)

(* Flushes the files once a second. *)
FlushAll ==
  /\ LogStep("flush", "top")
  /\ \/ /\ files' = [f \in LogFile |-> [files[f] EXCEPT !.buffered = <<>>]]
        /\ disk' = [n \in DOMAIN disk |-> IF \E f \in LogFile : files[f].file = n
                     THEN Flushed(files[CHOOSE f \in LogFile : files[f].file = n]) ELSE disk[n]]
        /\ Keeps(<<queues, entry, ghosts, fault>>)
     \/ Keeps(<<queues, entry, disks, ghosts, fault>>)

LogEnds == Runs /\ Breaks /\ lt' = "closing" /\ Keeps(<<queues, entry, disks, ghosts, fault>>)

(* Each file that is open at the end is renamed and stays marked as open.  *)
CloseFile(f) ==
  /\ LogStep("closing", lt) /\ files[f].file # None
  /\ disk' = close_and_rename(files[f])
  /\ fault' = IF Lost(Rotated(files[f].file, files[f].tm)) THEN "overwritten" ELSE fault
  /\ files' = [files EXCEPT ![f] = [Closed EXCEPT !.listed = TRUE]]
  /\ Keeps(<<queues, entry, ghosts>>)
LogEnded ==
  /\ LogStep("closing", "ended") /\ \A f \in LogFile : files[f].file = None
  /\ Keeps(<<queues, entry, disks, ghosts, fault>>)

-----------------------------------------------------------------------------
(* The process ends, or crashes, and another one starts.                   *)

on_process_end ==
  /\ proc = "running" /\ start.parent # "created"
  /\ Main \notin signals
  /\ proc' = "ending" /\ stop' = TRUE
  /\ UNCHANGED <<starting, queues, lt, entry, disks, now, ghosts, fault>>
chk_thread_join ==
  /\ proc = "ending" /\ (start.parent = "none" \/ lt = "ended")
  /\ proc' = "ended"
  /\ UNCHANGED <<starting, queues, lt, entry, stop, disks, now, ghosts, fault>>
Crash ==
  /\ proc # "ended" /\ proc' = "ended"
  /\ files' = [f \in LogFile |-> Closed]
  /\ UNCHANGED <<starting, queues, lt, entry, stop, disk, now, ghosts, fault>>

NotStarted == [parent |-> "none", child |-> "none", running |-> FALSE]
Fresh == [f \in LogFile |-> Closed]
Restart ==
  /\ proc = "ended" /\ runs.n < MaxProcesses
  /\ \E pid \in IF PidReused THEN {runs.pid, runs.n + 1} ELSE {runs.n + 1} :
       runs' = [n |-> runs.n + 1, pid |-> pid]
  /\ start' = NotStarted /\ proc' = "running" /\ stop' = FALSE /\ files' = Fresh
  /\ share' = <<>> /\ private' = <<>> /\ wait' = FALSE /\ signals' = {} /\ signalled' = FALSE
  /\ lt' = "none" /\ entry' = NoEntry /\ pushed' = <<>> /\ written' = <<>> /\ seen' = 0
  /\ UNCHANGED <<disk, now, fault>>

Tick ==
  /\ now < MaxTime /\ now' = now + 1
  /\ UNCHANGED <<proc, starting, queues, lt, entry, stop, disks, ghosts, fault>>

Init ==
  /\ runs = [n |-> 1, pid |-> 1] /\ start = NotStarted /\ proc = "running" /\ stop = FALSE
  /\ files = Fresh /\ share = <<>> /\ private = <<>> /\ wait = FALSE
  /\ signals = {} /\ signalled = FALSE /\ lt = "none" /\ entry = NoEntry
  /\ pushed = <<>> /\ written = <<>> /\ seen = 0
  /\ disk = <<>> /\ now = 0 /\ fault = "none"

LogThread ==
  \/ ReadStop \/ PopPrivate \/ chk_condition_timedwait \/ Wakes \/ logqueue_fetch \/ WriteEntry
  \/ LogContinues \/ FlushAll \/ LogEnds \/ LogEnded \/ (\E f \in LogFile : CloseFile(f))
Starting == chk_thread_new \/ start_routine \/ SignalParent \/ ThreadStarted
Logging ==
  \/ \E f \in LogFile : chk_create_logfile(f)
  \/ \E t \in Thread, f \in LogFile : _write_log(t, f)
  \/ \E t \in Thread : chk_condition_signal(t)
Next ==
  Sound /\ (\/ Starting \/ Logging \/ LogThread \/ on_process_end \/ chk_thread_join
            \/ Crash \/ Restart \/ Tick)
Spec == Init /\ [][Next]_vars

(* The threads run, a wait ends by itself, and the clock goes on as far as *)
(* the bound; nobody has to log, or to end the process.                    *)
Fairness ==
  /\ WF_vars(Sound /\ LogThread) /\ WF_vars(Sound /\ Starting)
  /\ \A t \in Thread : WF_vars(Sound /\ chk_condition_signal(t))
  /\ WF_vars(Sound /\ chk_thread_join)
FairSpec == Spec /\ Fairness

-----------------------------------------------------------------------------
Entry == [id : 1..MaxEntries, file : LogFile]
TypeOK ==
  /\ proc \in {"running", "ending", "ended"} /\ stop \in BOOLEAN
  /\ runs \in [n : 1..MaxProcesses, pid : 1..MaxProcesses] /\ now \in 0..MaxTime
  /\ start \in [parent : {"none", "created", "returned"}, running : BOOLEAN,
                child : {"none", "starting", "signalling", "running"}]
  /\ share \in Seq(Entry) /\ private \in Seq(Entry) /\ entry \in Entry \cup {NoEntry}
  /\ wait \in BOOLEAN /\ signalled \in BOOLEAN /\ signals \subseteq Thread
  /\ lt \in {"none", "top", "fetch", "fetch100", "waiting", "null", "write", "flush",
             "closing", "ended"}
  /\ files \in [LogFile -> [listed : BOOLEAN, file : FileName \cup {None}, tm : 0..MaxTime,
                            total_size : Nat, buffered : Seq(Entry)]]
  /\ DOMAIN disk \subseteq FileName /\ \A n \in DOMAIN disk : disk[n] \in Seq(Entry)
  /\ pushed \in Seq(Entry) /\ written \in Seq(Entry) /\ seen \in 0..MaxEntries
  /\ fault \in {"none", "overwritten", "condition"}

Held == IF entry = NoEntry THEN <<>> ELSE <<entry>>
(* No entry is lost, doubled or overtaken on the way through the two       *)
(* queues: what was written, what the thread holds and what waits is, in   *)
(* this order, what was pushed.  (Written is also what fopen failed for.)  *)
InOrder == written \o Held \o private \o share = pushed
(* "The function returns when the new thread has begun to run"             *)
(* (chk_thread.h): nobody logs before the thread has left its start.       *)
StartedFirst == start.parent = "returned" => start.running
LogSafe == TypeOK /\ InOrder /\ StartedFirst

(* While the log thread sleeps and an entry waits for it, the condition is *)
(* signalled or some thread is about to: an entry never has to wait for    *)
(* the 100 ms to pass.                                                     *)
NoLostWakeup == lt = "waiting" /\ share # <<>> => signalled \/ signals # {}

(* The thread that ends leaves behind only entries that were pushed after  *)
(* its last look at the shared queue: exit() loses none of those before.   *)
LosesOnlyLate ==
  lt \in {"closing", "ended"} => Held = <<>> /\ private = <<>> /\ Len(written) >= seen

(* What has reached a file stays in a file: a rotation, a new day, a crash *)
(* and the process that follows only add to it or rename it, unless two    *)
(* files had the same name.                                                *)
Kept(name) == \E n \in DOMAIN disk' : n.file = name.file /\ IsPrefix(disk[name], disk'[n])
FilesKept == [][fault' = "none" => \A name \in DOMAIN disk : Kept(name)]_vars

(* The log thread comes to write every entry, whoever else logs, unless    *)
(* the process ends or one of the faults happens.  (An entry for which the *)
(* file cannot be created is passed over, line 272, and counts as written.)*)
EntryWritten ==
  \A k \in 1..MaxEntries : Len(pushed) >= k ~> Len(written) >= k \/ proc # "running" \/ ~Sound
=============================================================================
