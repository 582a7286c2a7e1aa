----------------------------- MODULE LogProofs -----------------------------
(* Proofs about Log, for any number of threads, files, entries, days and    *)
(* processes.                                                               *)
EXTENDS Log, SequenceTheorems, TLAPS

(* The log thread is started by one chk_thread_new, and does nothing before *)
(* it has left start_routine.                                               *)
Begins ==
  /\ start.parent = "none" => start.child = "none"
  /\ start.child # "running" => lt = "none"

(* Where the log thread is tells what it holds. *)
Holds ==
  /\ lt = "write" <=> entry # NoEntry
  /\ lt \in {"null", "closing", "ended"} => private = <<>>
  /\ lt = "waiting" => wait /\ private = <<>>

(* What was on the shared queue at the last look is written or on its way. *)
Counts ==
  /\ Len(pushed) <= MaxEntries
  /\ seen <= Len(written) + Len(Held) + Len(private)

(* An open file is on the disk, under the name without a time that belongs  *)
(* to its chk_logfile alone.                                                *)
OpenFiles ==
  \A f \in LogFile : files[f].file # None =>
    /\ files[f].file \in DOMAIN disk
    /\ files[f].file.file = f /\ files[f].file.second = -1

Core == InOrder /\ StartedFirst /\ Begins /\ Holds /\ Counts /\ NoLostWakeup /\ OpenFiles
IInv == TypeOK /\ Core

(* TypeOK in three parts. *)
ControlTypes ==
  /\ proc \in {"running", "ending", "ended"} /\ stop \in BOOLEAN
  /\ runs \in [n : 1..MaxProcesses, pid : 1..MaxProcesses] /\ now \in 0..MaxTime
  /\ start \in [parent : {"none", "created", "returned"}, running : BOOLEAN,
                child : {"none", "starting", "signalling", "running"}]
  /\ fault \in {"none", "overwritten", "condition"}
QueueTypes ==
  /\ share \in Seq(Entry) /\ private \in Seq(Entry) /\ entry \in Entry \cup {NoEntry}
  /\ wait \in BOOLEAN /\ signalled \in BOOLEAN /\ signals \subseteq Thread
  /\ lt \in {"none", "top", "fetch", "fetch100", "waiting", "null", "write", "flush",
             "closing", "ended"}
  /\ pushed \in Seq(Entry) /\ written \in Seq(Entry) /\ seen \in 0..MaxEntries
OpenFile == [listed : BOOLEAN, file : FileName \cup {None}, tm : 0..MaxTime, total_size : Nat,
             buffered : Seq(Entry)]
Disk(d) == DOMAIN d \subseteq FileName /\ \A n \in DOMAIN d : d[n] \in Seq(Entry)
FileTypes == files \in [LogFile -> OpenFile] /\ Disk(disk)

-----------------------------------------------------------------------------
(* Sequences, names and the disk. *)

LEMMA PrefixOfConcat ==
  ASSUME NEW S, NEW s \in Seq(S), NEW t \in Seq(S)
  PROVE  IsPrefix(s, s \o t)
<1>1. Len(s) \in Nat /\ Len(t) \in Nat /\ s \o t \in Seq(S) /\ Len(s \o t) = Len(s) + Len(t)
  OBVIOUS
<1>2. \A i \in 1..Len(s) : (s \o t)[i] = s[i]
  OBVIOUS
<1>3. SubSeq(s, 1, Len(s)) = SubSeq(s \o t, 1, Len(s))
  BY <1>1, <1>2
<1> QED BY <1>1, <1>3 DEF IsPrefix

LEMMA PrefixOfItself == ASSUME NEW S, NEW s \in Seq(S) PROVE IsPrefix(s, s)
BY DEF IsPrefix

LEMMA EmptyPrefix == ASSUME NEW S, NEW s \in Seq(S) PROVE IsPrefix(<<>>, s)
<1>1. Len(<<>>) = 0 /\ Len(s) \in Nat
  OBVIOUS
<1>2. SubSeq(<<>>, 1, 0) = SubSeq(s, 1, 0)
  BY <1>1
<1> QED BY <1>1, <1>2 DEF IsPrefix

LEMMA Regroup ==
  ASSUME NEW a \in Seq(Entry), NEW b \in Seq(Entry), NEW c \in Seq(Entry)
  PROVE  (a \o b) \o c = a \o (b \o c)
BY ConcatAssociative

LEMMA RegroupAll ==
  ASSUME NEW a \in Seq(Entry), NEW b \in Seq(Entry), NEW c \in Seq(Entry), NEW d \in Seq(Entry)
  PROVE  ((a \o b) \o c) \o d = a \o ((b \o c) \o d)
<1> DEFINE Cat(x, y) == x \o y
<1>1. \A x, y, z \in Seq(Entry) : Cat(Cat(x, y), z) = Cat(x, Cat(y, z))
  BY Regroup
<1>2. \A x, y \in Seq(Entry) : Cat(x, y) \in Seq(Entry)
  OBVIOUS
<1>3. a \in Seq(Entry) /\ b \in Seq(Entry) /\ c \in Seq(Entry) /\ d \in Seq(Entry)
  OBVIOUS
<1>4. Cat(Cat(Cat(a, b), c), d) = Cat(a, Cat(Cat(b, c), d))
  <2> HIDE DEF Cat
  <2> QED BY ONLY <1>1, <1>2, <1>3
<1> QED BY <1>4

LEMMA Times ==
  ASSUME NEW t \in Nat
  PROVE  Day(t) \in Nat /\ t % DaySeconds \in Second /\ -1 \notin Second
BY BoundAssumption DEF BoundAssumption, Second, Day

LEMMA LiveNames ==
  ASSUME TypeOK, NEW f \in LogFile
  PROVE  /\ Live(f, Day(now)) \in FileName /\ Live(f, Day(now)) # None
         /\ Live(f, Day(now)).file = f /\ Live(f, Day(now)).second = -1
<1>1. now \in Nat /\ runs.pid \in 1..MaxProcesses
  BY BoundAssumption DEF TypeOK, BoundAssumption
<1>2. Live(f, Day(now)) \in FileName
  BY <1>1, Times DEF Live, FileName
<1> QED BY <1>2, FileAssumption DEF Live, FileAssumption

LEMMA RotatedNames ==
  ASSUME NEW n \in FileName, NEW t \in Nat
  PROVE  /\ Rotated(n, t) \in FileName /\ Rotated(n, t).file = n.file
         /\ Rotated(n, t).second # -1
<1>1. t % DaySeconds \in Second /\ t % DaySeconds # -1
  BY Times
<1> QED BY <1>1 DEF Rotated, FileName

LEMMA WithDisk ==
  ASSUME NEW d, Disk(d), NEW n \in FileName, NEW content \in Seq(Entry)
  PROVE  Disk(With(d, n, content))
BY DEF With, Disk

(* Closing a file moves what was written to it to the name with the time. *)
LEMMA Renamed ==
  ASSUME IInv, NEW f \in LogFile, files[f].file # None
  PROVE  LET l == files[f]
             d == close_and_rename(l)
             r == Rotated(l.file, l.tm)
         IN /\ Disk(d) /\ DOMAIN d = (DOMAIN disk \ {l.file}) \cup {r}
            /\ r.file = l.file.file /\ r.second # -1 /\ r # l.file
            /\ d[r] = disk[l.file] \o l.buffered
            /\ disk[l.file] \in Seq(Entry) /\ l.buffered \in Seq(Entry)
            /\ \A n \in DOMAIN disk : n \notin {l.file, r} => d[n] = disk[n]
<1> DEFINE l == files[f]
           r == Rotated(l.file, l.tm)
<1>1. /\ l.file \in FileName /\ l.tm \in Nat /\ l.buffered \in Seq(Entry)
      /\ l.file \in DOMAIN disk /\ l.file.second = -1 /\ disk[l.file] \in Seq(Entry) /\ Disk(disk)
  BY BoundAssumption DEF IInv, TypeOK, Core, OpenFiles, BoundAssumption, Disk
<1>2. r \in FileName /\ r.file = l.file.file /\ r.second # -1
  BY <1>1, RotatedNames
<1>3. Flushed(l) \in Seq(Entry) /\ Flushed(l) = disk[l.file] \o l.buffered
  BY <1>1 DEF Flushed
<1>4. /\ DOMAIN Without({l.file}) = DOMAIN disk \ {l.file}
      /\ \A n \in DOMAIN disk \ {l.file} : Without({l.file})[n] = disk[n]
  BY DEF Without
<1>5. Disk(Without({l.file}))
  BY <1>1, <1>4 DEF Disk
<1>6. close_and_rename(l) = With(Without({l.file}), r, Flushed(l))
  BY DEF close_and_rename
<1>7. Disk(close_and_rename(l))
  BY <1>2, <1>3, <1>5, <1>6, WithDisk
<1>8. /\ DOMAIN close_and_rename(l) = (DOMAIN disk \ {l.file}) \cup {r}
      /\ close_and_rename(l)[r] = Flushed(l)
      /\ \A n \in DOMAIN disk \ {l.file} : n # r => close_and_rename(l)[n] = disk[n]
  BY <1>4, <1>6 DEF With
<1> QED BY <1>1, <1>2, <1>3, <1>7, <1>8

-----------------------------------------------------------------------------
LEMMA InitIInv == Init => IInv
<1> SUFFICES ASSUME Init PROVE IInv
  OBVIOUS
<1>1. TypeOK
  <2>1. 1 \in 1..MaxProcesses /\ 0 \in 0..MaxTime /\ 0 \in 0..MaxEntries /\ 0 \in Nat
    BY BoundAssumption DEF BoundAssumption
  <2>2. Closed \in [listed : BOOLEAN, file : FileName \cup {None}, tm : 0..MaxTime,
                    total_size : Nat, buffered : Seq(Entry)]
    BY <2>1 DEF Closed
  <2>3. ControlTypes
    BY <2>1 DEF Init, ControlTypes, NotStarted
  <2>4. QueueTypes
    <3>1. <<>> \in Seq(Entry) /\ {} \subseteq Thread
      OBVIOUS
    <3>2. entry \in Entry \cup {NoEntry}
      BY DEF Init
    <3>3. wait \in BOOLEAN /\ signalled \in BOOLEAN /\ seen \in 0..MaxEntries
      BY <2>1 DEF Init
    <3>4. /\ share \in Seq(Entry) /\ private \in Seq(Entry)
          /\ pushed \in Seq(Entry) /\ written \in Seq(Entry)
      BY <3>1 DEF Init
    <3>5. signals \subseteq Thread /\ lt = "none"
      BY <3>1 DEF Init
    <3> QED BY <3>2, <3>3, <3>4, <3>5 DEF QueueTypes
  <2>5. files \in [LogFile -> OpenFile]
    BY <2>2 DEF Init, Fresh, OpenFile
  <2>6. Disk(disk)
    BY DEF Init, Disk
  <2> QED BY <2>3, <2>4, <2>5, <2>6 DEF FileTypes, TypeOK, ControlTypes, QueueTypes, OpenFile, Disk
<1>2. Core
  <2>1. Len(pushed) = 0 /\ 0 <= MaxEntries
    BY BoundAssumption DEF Init, BoundAssumption
  <2> QED BY <2>1 DEF Init, Core, InOrder, StartedFirst, Begins, Holds, Counts, NoLostWakeup,
       OpenFiles, NotStarted, Fresh, Closed, Held
<1> QED BY <1>1, <1>2 DEF IInv

LEMMA TypeParts ==
  /\ TypeOK <=> ControlTypes /\ QueueTypes /\ FileTypes
  /\ TypeOK' <=> ControlTypes' /\ QueueTypes' /\ FileTypes'
<1>1. TypeOK <=> ControlTypes /\ QueueTypes /\ FileTypes
  BY DEF TypeOK, ControlTypes, QueueTypes, FileTypes, OpenFile, Disk
<1>2. TypeOK' <=> ControlTypes' /\ QueueTypes' /\ FileTypes'
  BY DEF TypeOK, ControlTypes, QueueTypes, FileTypes, OpenFile, Disk
<1> QED BY <1>1, <1>2

(* Steps that leave the queues and the files alone. *)
LEMMA QuietStep ==
  ASSUME IInv, UNCHANGED <<share, private, wait, signals, signalled, entry, disks, ghosts>>,
         ControlTypes', lt' = lt, StartedFirst', Begins'
  PROVE  IInv'
<1>1. TypeOK'
  BY TypeParts DEF IInv, QueueTypes, FileTypes, disks, ghosts
<1>2. InOrder' /\ Holds' /\ Counts' /\ NoLostWakeup' /\ OpenFiles'
  BY DEF IInv, Core, InOrder, Holds, Counts, NoLostWakeup, OpenFiles, Held, disks, ghosts
<1> QED BY <1>1, <1>2 DEF IInv, Core

LEMMA StartingInv == IInv /\ Starting => IInv'
<1> SUFFICES ASSUME IInv, Starting PROVE IInv'
  OBVIOUS
<1>1. ControlTypes /\ StartedFirst /\ Begins
  BY TypeParts DEF IInv, Core
<1>2. CASE chk_thread_new
  BY <1>1, <1>2, QuietStep DEF chk_thread_new, queues, ControlTypes, StartedFirst, Begins
<1>3. CASE start_routine
  BY <1>1, <1>3, QuietStep DEF start_routine, queues, ControlTypes, StartedFirst, Begins
<1>4. CASE SignalParent
  <2>1. ControlTypes' /\ StartedFirst' /\ Begins' /\ lt = "none"
    BY <1>1, <1>4 DEF SignalParent, ControlTypes, StartedFirst, Begins
  <2>2. TypeOK'
    BY <1>4, <2>1, TypeParts DEF SignalParent, IInv, QueueTypes, FileTypes, queues, disks, ghosts
  <2>3. InOrder' /\ Holds' /\ Counts' /\ NoLostWakeup' /\ OpenFiles'
    BY <1>4, <2>1 DEF SignalParent, IInv, Core, InOrder, Holds, Counts, NoLostWakeup, OpenFiles,
       Held, queues, disks, ghosts
  <2> QED BY <2>1, <2>2, <2>3 DEF IInv, Core
<1>5. CASE ThreadStarted
  BY <1>1, <1>5, QuietStep DEF ThreadStarted, ParentGoesOn, queues, ControlTypes, StartedFirst,
     Begins
<1> QED BY <1>2, <1>3, <1>4, <1>5 DEF Starting

LEMMA LoggingInv == IInv /\ Logging => IInv'
<1> SUFFICES ASSUME IInv, Logging PROVE IInv'
  OBVIOUS
<1>1. ControlTypes /\ QueueTypes /\ FileTypes /\ Core
  BY TypeParts DEF IInv
<1>2. ASSUME NEW f \in LogFile, chk_create_logfile(f) PROVE IInv'
  <2>1. /\ files' \in [LogFile -> OpenFile]
        /\ \A g \in LogFile : files'[g].file = files[g].file
    BY <1>1, <1>2 DEF chk_create_logfile, FileTypes, OpenFile
  <2>2. TypeOK'
    BY <1>1, <1>2, <2>1, TypeParts DEF chk_create_logfile, ControlTypes, QueueTypes, FileTypes,
       starting, queues, ghosts
  <2>3. Core'
    BY <1>1, <1>2, <2>1 DEF chk_create_logfile, Core, InOrder, StartedFirst, Begins, Holds, Counts,
       NoLostWakeup, OpenFiles, Held, starting, queues, ghosts
  <2> QED BY <2>2, <2>3 DEF IInv
<1>3. ASSUME NEW t \in Thread, NEW f \in LogFile, _write_log(t, f) PROVE IInv'
  <2> DEFINE e == [id |-> Len(pushed) + 1, file |-> f]
  <2>1. Len(pushed) \in Nat /\ Len(pushed) < MaxEntries /\ e \in Entry
    BY <1>1, <1>3, BoundAssumption DEF _write_log, QueueTypes, Entry, BoundAssumption
  <2>2. /\ share' = Append(share, e) /\ pushed' = Append(pushed, e)
        /\ signals' = IF wait /\ Len(share') = 1 THEN signals \cup {t} ELSE signals
        /\ UNCHANGED <<proc, starting, private, wait, signalled, lt, entry, stop, disks, now,
                       written, seen, fault>>
    BY <1>3 DEF _write_log, logqueue_push, PushedBack, SignalsFirst
  <2> HIDE DEF e
  <2>3. QueueTypes'
    BY <1>1, <2>1, <2>2 DEF QueueTypes
  <2>4. ControlTypes' /\ FileTypes' /\ StartedFirst' /\ Begins' /\ OpenFiles' /\ Holds'
    BY <1>1, <2>2 DEF ControlTypes, FileTypes, Core, StartedFirst, Begins, OpenFiles, Holds,
       starting, disks
  <2>5. InOrder'
    <3>1. Held' = Held /\ Held \in Seq(Entry)
      BY <1>1, <2>2 DEF Held, QueueTypes
    <3>2. written \o Held \o private \o Append(share, e)
            = Append(written \o Held \o private \o share, e)
      <4> DEFINE q == written \o Held \o private
      <4>1. q \in Seq(Entry) /\ share \in Seq(Entry) /\ <<e>> \in Seq(Entry)
        BY <1>1, <2>1, <3>1 DEF QueueTypes
      <4>2. q \o share \in Seq(Entry)
        BY <4>1, ConcatProperties
      <4> HIDE DEF q
      <4>3. (q \o share) \o <<e>> = q \o (share \o <<e>>)
        BY <4>1, Regroup, Zenon
      <4>4. Append(share, e) = share \o <<e>> /\ Append(q \o share, e) = (q \o share) \o <<e>>
        BY <2>1, <4>1, <4>2, AppendIsConcat
      <4>5. q \o Append(share, e) = Append(q \o share, e)
        BY <4>3, <4>4, Zenon
      <4> QED BY <4>5 DEF q
    <3> QED BY <1>1, <2>2, <3>1, <3>2 DEF Core, InOrder
  <2>6. Counts'
    BY <1>1, <2>1, <2>2, BoundAssumption DEF Core, Counts, Held, QueueTypes, BoundAssumption
  <2>7. NoLostWakeup'
    <3>1. CASE share = <<>>
      <4>1. Len(share') = 1
        BY <2>1, <2>2, <3>1
      <4> QED BY <1>1, <2>2, <4>1 DEF Core, NoLostWakeup, Holds
    <3>2. CASE share # <<>>
      BY <1>1, <2>2, <3>2 DEF Core, NoLostWakeup
    <3> QED BY <3>1, <3>2
  <2> QED BY <2>3, <2>4, <2>5, <2>6, <2>7, TypeParts DEF IInv, Core
<1>4. ASSUME NEW t \in Thread, chk_condition_signal(t) PROVE IInv'
  <2>1. TypeOK'
    BY <1>1, <1>4, TypeParts DEF chk_condition_signal, ControlTypes, QueueTypes, FileTypes,
       starting, disks, ghosts
  <2>2. Core'
    BY <1>1, <1>4 DEF chk_condition_signal, Core, InOrder, StartedFirst, Begins, Holds, Counts,
       NoLostWakeup, OpenFiles, Held, starting, disks, ghosts
  <2> QED BY <2>1, <2>2 DEF IInv
<1> QED BY <1>2, <1>3, <1>4 DEF Logging

(* The log thread between its queues: what it holds and what waits for it   *)
(* stays what was pushed.                                                    *)
LEMMA PoppedKeeps ==
  ASSUME NEW list \in Seq(Entry), Popped(list), BoundAssumption
  PROVE  /\ private' \in Seq(Entry) /\ Held' \o private' = list
         /\ \/ list = <<>> /\ lt' = "null" /\ entry' = NoEntry /\ private' = <<>>
            \/ lt' = "write" /\ entry' \in Entry /\ entry' # NoEntry
<1>1. CASE list = <<>>
  BY <1>1 DEF Popped, Held
<1>2. CASE list # <<>>
  <2>1. lt' = "write" /\ entry' = Head(list) /\ private' = Tail(list)
    BY <1>2 DEF Popped
  <2>2. Head(list) \in Entry /\ Tail(list) \in Seq(Entry) /\ <<Head(list)>> \o Tail(list) = list
    BY <1>2
  <2>3. \A x \in Entry : x # NoEntry
    BY DEF Entry, NoEntry
  <2> QED BY <2>1, <2>2, <2>3 DEF Held
<1> QED BY <1>1, <1>2

LEMMA PopInv ==
  ASSUME IInv, NEW list \in Seq(Entry), Popped(list), lt \notin {"none", "write"},
         UNCHANGED <<proc, starting, stop, now, disks, pushed, written, signals, fault>>,
         share' \in Seq(Entry), wait' \in BOOLEAN, signalled' \in BOOLEAN,
         list \o share' = private \o share,
         seen' = seen \/ (seen' = Len(pushed) /\ share' = <<>>),
         seen' = seen => list = private
  PROVE  IInv'
<1>1. ControlTypes /\ QueueTypes /\ FileTypes /\ Core
  BY TypeParts DEF IInv
<1>2. /\ private' \in Seq(Entry) /\ Held' \o private' = list
      /\ \/ list = <<>> /\ lt' = "null" /\ entry' = NoEntry /\ private' = <<>>
         \/ lt' = "write" /\ entry' \in Entry /\ entry' # NoEntry
  BY PoppedKeeps, BoundAssumption
<1>3. Held = <<>> /\ entry = NoEntry
  BY <1>1 DEF Core, Holds, Held
<1>4. Held' \in Seq(Entry)
  BY <1>2 DEF Held
<1>5. written \o (private \o share) = pushed
  <2>1. written \o Held = written
    BY <1>1, <1>3 DEF QueueTypes
  <2>2. (written \o private) \o share = written \o (private \o share)
    <3>1. written \in Seq(Entry) /\ private \in Seq(Entry) /\ share \in Seq(Entry)
      BY <1>1 DEF QueueTypes
    <3> QED BY ONLY <3>1, ConcatAssociative
  <2> QED BY <1>1, <2>1, <2>2 DEF Core, InOrder
<1>6. InOrder'
  <2>1. ((written \o Held') \o private') \o share' = written \o ((Held' \o private') \o share')
    <3>1. written \in Seq(Entry)
      BY <1>1 DEF QueueTypes
    <3> DEFINE h == Held'
               p == private'
               q == share'
    <3>2. h \in Seq(Entry) /\ p \in Seq(Entry) /\ q \in Seq(Entry)
      BY <1>2, <1>4
    <3>3. ((written \o h) \o p) \o q = written \o ((h \o p) \o q)
      <4> HIDE DEF h, p, q
      <4> DEFINE Cat(x, y) == x \o y
      <4>1. \A w, x, y, z \in Seq(Entry) : Cat(Cat(Cat(w, x), y), z) = Cat(w, Cat(Cat(x, y), z))
        BY RegroupAll
      <4>2. Cat(Cat(Cat(written, h), p), q) = Cat(written, Cat(Cat(h, p), q))
        <5> HIDE DEF Cat
        <5> QED BY ONLY <3>1, <3>2, <4>1
      <4> QED BY ONLY <4>2
    <3> QED BY <3>3
  <2> QED BY <1>2, <1>5, <2>1 DEF InOrder
<1>7. Counts'
  <2>1. Len(Held') + Len(private') = Len(list)
    BY <1>2, <1>4
  <2>2. CASE seen' = seen
    BY <1>1, <1>3, <2>1, <2>2 DEF Core, Counts, QueueTypes
  <2>3. CASE seen' = Len(pushed) /\ share' = <<>>
    <3>1. list = private \o share
      BY <2>3
    <3>2. Len(pushed) = Len(written) + Len(list)
      BY <1>1, <1>5, <3>1 DEF QueueTypes
    <3> QED BY <1>1, <1>2, <1>4, <2>1, <2>3, <3>2 DEF Core, Counts, QueueTypes
  <2> QED BY <2>2, <2>3
<1>8. QueueTypes'
  <2>1. seen' \in 0..MaxEntries
    BY <1>1, BoundAssumption DEF QueueTypes, Core, Counts, BoundAssumption
  <2> QED BY <1>1, <1>2, <2>1 DEF QueueTypes
<1>9. ControlTypes' /\ FileTypes' /\ StartedFirst' /\ OpenFiles'
  BY <1>1 DEF ControlTypes, FileTypes, Core, StartedFirst, OpenFiles, starting, disks
<1>10. Begins' /\ Holds' /\ NoLostWakeup'
  BY <1>1, <1>2 DEF Core, Begins, Holds, NoLostWakeup, starting
<1> QED BY <1>6, <1>7, <1>8, <1>9, <1>10, TypeParts DEF IInv, Core

(* Steps of the log thread between its places, with nothing in its hands. *)
LEMMA WalkInv ==
  ASSUME IInv, lt \notin {"none", "write"},
         lt' \in {"top", "fetch", "fetch100", "flush", "closing", "ended"},
         UNCHANGED <<proc, starting, stop, now, share, private, wait, signals, signalled, entry,
                     disks, ghosts, fault>>,
         lt' \in {"closing", "ended"} => private = <<>>
  PROVE  IInv'
<1>1. ControlTypes /\ QueueTypes /\ FileTypes /\ Core
  BY TypeParts DEF IInv
<1>2. TypeOK'
  BY <1>1, TypeParts DEF ControlTypes, QueueTypes, FileTypes, starting, disks, ghosts
<1>3. Core'
  BY <1>1 DEF Core, InOrder, StartedFirst, Begins, Holds, Counts, NoLostWakeup, OpenFiles, Held,
     starting, disks, ghosts
<1> QED BY <1>2, <1>3 DEF IInv

LEMMA QueueInv ==
  ASSUME IInv,
         ReadStop \/ PopPrivate \/ chk_condition_timedwait \/ Wakes \/ logqueue_fetch
           \/ LogContinues \/ LogEnds \/ LogEnded
  PROVE  IInv'
<1>1. ControlTypes /\ QueueTypes /\ FileTypes /\ Core
  BY TypeParts DEF IInv
<1>2. CASE ReadStop
  <2>1. lt = "top" /\ lt' \in {"fetch", "fetch100"}
    BY <1>2 DEF ReadStop, LogStep
  <2> QED BY <1>2, <2>1, WalkInv DEF ReadStop, Keeps, queues
<1>3. CASE PopPrivate
  <2>1. /\ private \in Seq(Entry) /\ Popped(private) /\ lt \notin {"none", "write"}
        /\ UNCHANGED <<proc, starting, stop, now, share, wait, signals, signalled, disks, ghosts,
                       fault>>
    BY <1>1, <1>3 DEF PopPrivate, Keeps, QueueTypes
  <2>2. UNCHANGED <<proc, starting, stop, now, disks, pushed, written, seen, signals, fault>>
    BY <2>1 DEF ghosts
  <2>3. share' \in Seq(Entry) /\ wait' \in BOOLEAN /\ signalled' \in BOOLEAN
    BY <1>1, <2>1 DEF QueueTypes
  <2> QED BY <2>1, <2>2, <2>3, PopInv
<1>4. CASE chk_condition_timedwait
  <2>1. /\ lt = "fetch100" /\ lt' = "waiting" /\ private = <<>> /\ share = <<>>
        /\ wait' = TRUE /\ signalled' = FALSE
        /\ UNCHANGED <<proc, starting, stop, now, share, private, signals, entry, disks, ghosts,
                       fault>>
    BY <1>4 DEF chk_condition_timedwait, LogStep, Keeps
  <2>2. TypeOK'
    BY <1>1, <2>1, TypeParts DEF ControlTypes, QueueTypes, FileTypes, starting, disks, ghosts
  <2>3. Core'
    BY <1>1, <2>1 DEF Core, InOrder, StartedFirst, Begins, Holds, Counts, NoLostWakeup, OpenFiles,
       Held, starting, disks, ghosts
  <2> QED BY <2>2, <2>3 DEF IInv
<1>5. ASSUME TakeShared, private = <<>>, lt \notin {"none", "write"}, wait' \in BOOLEAN,
             signalled' \in BOOLEAN
      PROVE  IInv'
  <2>1. /\ share \in Seq(Entry) /\ Popped(share) /\ share' = <<>> /\ seen' = Len(pushed)
        /\ UNCHANGED <<proc, starting, stop, now, disks, pushed, written, signals, fault>>
    BY <1>1, <1>5 DEF TakeShared, Keeps, QueueTypes
  <2>2. share \o share' = private \o share
    BY <1>5, <2>1
  <2>3. seen' = seen => share = private
    <3>1. ASSUME seen' = seen PROVE Len(share) = 0
      <4>1. Len(Held) = 0 /\ Held \in Seq(Entry)
        BY <1>1, <1>5 DEF Core, Holds, Held
      <4>2. Len(pushed) = Len(written) + Len(Held) + Len(private) + Len(share)
        <5>1. written \in Seq(Entry) /\ private \in Seq(Entry) /\ share \in Seq(Entry)
          BY <1>1 DEF QueueTypes
        <5>2. Len(((written \o Held) \o private) \o share)
                = Len(written) + Len(Held) + Len(private) + Len(share)
          BY <4>1, <5>1
        <5> QED BY <1>1, <5>2 DEF Core, InOrder
      <4>3. seen = Len(pushed) /\ seen <= Len(written) + Len(Held) + Len(private)
        BY <1>1, <2>1, <3>1 DEF Core, Counts
      <4>4. Len(written) \in Nat /\ Len(Held) \in Nat /\ Len(private) \in Nat /\ Len(share) \in Nat
        BY <1>1, <4>1 DEF QueueTypes
      <4> QED BY <4>2, <4>3, <4>4
    <3> QED BY <1>5, <2>1, <3>1
  <2>4. share' \in Seq(Entry)
    BY <2>1
  <2> QED BY <1>5, <2>1, <2>2, <2>3, <2>4, PopInv
<1>6. CASE Wakes
  BY <1>1, <1>5, <1>6 DEF Wakes, Core, Holds
<1>7. CASE logqueue_fetch
  BY <1>1, <1>5, <1>7 DEF logqueue_fetch, QueueTypes
<1>8. CASE LogContinues
  BY <1>8, WalkInv DEF LogContinues, LogStep, Keeps, queues
<1>9. CASE LogEnds
  BY <1>1, <1>9, WalkInv DEF LogEnds, Breaks, Keeps, queues, Core, Holds
<1>10. CASE LogEnded
  BY <1>1, <1>10, WalkInv DEF LogEnded, LogStep, Keeps, queues, Core, Holds
<1> QED BY <1>2, <1>3, <1>4, <1>6, <1>7, <1>8, <1>9, <1>10

(* The process ends, another one starts, time goes on. *)
LEMMA ProcessInv ==
  ASSUME IInv, on_process_end \/ chk_thread_join \/ Crash \/ Restart \/ Tick
  PROVE  IInv'
<1>1. ControlTypes /\ QueueTypes /\ FileTypes /\ Core
  BY TypeParts DEF IInv
<1>2. CASE on_process_end
  BY <1>1, <1>2, QuietStep DEF on_process_end, ControlTypes, Core, StartedFirst, Begins, starting,
     queues
<1>3. CASE chk_thread_join
  BY <1>1, <1>3, QuietStep DEF chk_thread_join, ControlTypes, Core, StartedFirst, Begins, starting,
     queues
<1>4. CASE Tick
  <2>1. now' \in 0..MaxTime
    BY <1>1, <1>4, BoundAssumption DEF Tick, ControlTypes, BoundAssumption
  <2> QED BY <1>1, <1>4, <2>1, QuietStep DEF Tick, ControlTypes, Core, StartedFirst, Begins,
       starting, queues
<1>5. Closed \in OpenFile /\ Closed.file = None
  <2>1. 0 \in 0..MaxTime /\ 0 \in Nat
    BY BoundAssumption DEF BoundAssumption
  <2> QED BY <2>1 DEF Closed, OpenFile
<1>6. CASE Crash
  <2>1. files' \in [LogFile -> OpenFile] /\ \A f \in LogFile : files'[f].file = None
    BY <1>5, <1>6 DEF Crash
  <2>2. TypeOK'
    BY <1>1, <1>6, <2>1, TypeParts DEF Crash, ControlTypes, QueueTypes, FileTypes, starting, queues,
       ghosts
  <2>3. Core'
    BY <1>1, <1>6, <2>1 DEF Crash, Core, InOrder, StartedFirst, Begins, Holds, Counts,
       NoLostWakeup, OpenFiles, Held, starting, queues, ghosts
  <2> QED BY <2>2, <2>3 DEF IInv
<1>7. CASE Restart
  <2>1. files' \in [LogFile -> OpenFile] /\ \A f \in LogFile : files'[f].file = None
    BY <1>5, <1>7 DEF Restart, Fresh
  <2>2. runs' \in [n : 1..MaxProcesses, pid : 1..MaxProcesses]
    <3>1. runs.n + 1 \in 1..MaxProcesses /\ runs.pid \in 1..MaxProcesses
      BY <1>1, <1>7, BoundAssumption DEF Restart, ControlTypes, BoundAssumption
    <3>2. PICK pid \in IF PidReused THEN {runs.pid, runs.n + 1} ELSE {runs.n + 1} :
            runs' = [n |-> runs.n + 1, pid |-> pid]
      BY <1>7 DEF Restart
    <3>3. pid \in 1..MaxProcesses
      BY <3>1, <3>2
    <3> QED BY <3>1, <3>2, <3>3
  <2>3. /\ start' = NotStarted /\ proc' = "running" /\ stop' = FALSE /\ files' = Fresh
        /\ share' = <<>> /\ private' = <<>> /\ wait' = FALSE /\ signals' = {}
        /\ signalled' = FALSE /\ lt' = "none" /\ entry' = NoEntry /\ pushed' = <<>>
        /\ written' = <<>> /\ seen' = 0 /\ UNCHANGED <<disk, now, fault>>
    BY <1>7 DEF Restart
  <2>4. ControlTypes'
    BY <1>1, <2>2, <2>3 DEF ControlTypes, NotStarted
  <2>5. QueueTypes'
    <3>1. <<>> \in Seq(Entry) /\ 0 \in 0..MaxEntries /\ NoEntry \in Entry \cup {NoEntry}
      BY BoundAssumption DEF BoundAssumption
    <3> QED BY <2>3, <3>1 DEF QueueTypes
  <2>6. FileTypes'
    BY <1>1, <2>1, <2>3 DEF FileTypes
  <2>7. Held' = <<>>
    BY <2>3 DEF Held
  <2>8. Counts'
    <3>1. Len(<<>>) = 0 /\ 0 <= MaxEntries
      BY BoundAssumption DEF BoundAssumption
    <3> QED BY <2>3, <2>7, <3>1 DEF Counts
  <2>9. InOrder' /\ StartedFirst' /\ Begins' /\ Holds' /\ NoLostWakeup' /\ OpenFiles'
    BY <2>1, <2>3, <2>7 DEF InOrder, StartedFirst, Begins, Holds, NoLostWakeup, OpenFiles,
       NotStarted
  <2> QED BY <2>4, <2>5, <2>6, <2>8, <2>9, TypeParts DEF IInv, Core
<1> QED BY <1>2, <1>3, <1>4, <1>6, <1>7

-----------------------------------------------------------------------------
(* The files. *)

(* What one step must keep of the disk. *)
Keeping == fault' = "none" => \A name \in DOMAIN disk : Kept(name)

LEMMA SameDisk == ASSUME IInv, disk' = disk PROVE Keeping
<1>1. ASSUME NEW name \in DOMAIN disk PROVE Kept(name)
  <2>1. disk[name] \in Seq(Entry)
    BY DEF IInv, TypeOK
  <2>2. IsPrefix(disk[name], disk'[name])
    BY <2>1, PrefixOfItself
  <2> QED BY <2>2 DEF Kept
<1> QED BY <1>1 DEF Keeping

(* Renaming: every name is still there, but for the open one, whose content *)
(* begins that of the name with the time, and for one that was lost.        *)
LEMMA RenamedKeeps ==
  ASSUME IInv, NEW f \in LogFile, files[f].file # None,
         ~Lost(Rotated(files[f].file, files[f].tm)), NEW name \in DOMAIN disk
  PROVE  LET d == close_and_rename(files[f])
         IN \E n \in DOMAIN d : /\ n.file = name.file /\ IsPrefix(disk[name], d[n])
                                /\ n = name \/ n.second # -1
<1> DEFINE l == files[f]
           d == close_and_rename(l)
           r == Rotated(l.file, l.tm)
<1>1. /\ Disk(d) /\ DOMAIN d = (DOMAIN disk \ {l.file}) \cup {r}
      /\ r.file = l.file.file /\ r.second # -1 /\ r # l.file
      /\ d[r] = disk[l.file] \o l.buffered
      /\ disk[l.file] \in Seq(Entry) /\ l.buffered \in Seq(Entry)
      /\ \A n \in DOMAIN disk : n \notin {l.file, r} => d[n] = disk[n]
  BY Renamed
<1>2. disk[name] \in Seq(Entry) /\ d[r] \in Seq(Entry)
  BY <1>1 DEF IInv, TypeOK, Disk
<1>3. CASE name = l.file
  <2>1. IsPrefix(disk[name], d[r])
    BY <1>1, <1>3, PrefixOfConcat
  <2> QED BY <1>1, <1>3, <2>1
<1>4. CASE name = r
  <2>1. disk[r] = <<>>
    BY <1>4 DEF Lost
  <2>2. IsPrefix(disk[name], d[r])
    BY <1>2, <1>4, <2>1, EmptyPrefix
  <2> QED BY <1>1, <1>4, <2>2
<1>5. CASE name \notin {l.file, r}
  <2>1. IsPrefix(disk[name], d[name])
    BY <1>1, <1>2, <1>5, PrefixOfItself
  <2> QED BY <1>1, <1>5, <2>1
<1> QED BY <1>3, <1>4, <1>5

LEMMA FlushAllInv == IInv /\ FlushAll => IInv' /\ Keeping
<1> SUFFICES ASSUME IInv, FlushAll PROVE IInv' /\ Keeping
  OBVIOUS
<1>1. ControlTypes /\ QueueTypes /\ FileTypes /\ Core
  BY TypeParts DEF IInv
<1>2. lt = "flush" /\ lt' = "top"
  BY DEF FlushAll, LogStep
<1>3. CASE UNCHANGED <<files, disk>> /\ Keeps(<<queues, entry, ghosts, fault>>)
  BY <1>2, <1>3, WalkInv, SameDisk DEF Keeps, queues, disks
<1>4. CASE /\ files' = [f \in LogFile |-> [files[f] EXCEPT !.buffered = <<>>]]
           /\ disk' = [n \in DOMAIN disk |-> IF \E f \in LogFile : files[f].file = n
                THEN Flushed(files[CHOOSE f \in LogFile : files[f].file = n]) ELSE disk[n]]
           /\ Keeps(<<queues, entry, ghosts, fault>>)
  <2>1. /\ files' \in [LogFile -> OpenFile]
        /\ \A f \in LogFile : files'[f].file = files[f].file
    <3>1. <<>> \in Seq(Entry)
      OBVIOUS
    <3>2. ASSUME NEW f \in LogFile
          PROVE  /\ [files[f] EXCEPT !.buffered = <<>>] \in OpenFile
                 /\ [files[f] EXCEPT !.buffered = <<>>].file = files[f].file
      BY <1>1, <3>1 DEF FileTypes, OpenFile
    <3> QED BY <1>4, <3>2
  <2>2. DOMAIN disk' = DOMAIN disk
    BY <1>4
  <2>3. ASSUME NEW n \in DOMAIN disk
        PROVE  disk'[n] \in Seq(Entry) /\ IsPrefix(disk[n], disk'[n])
    <3>1. disk[n] \in Seq(Entry) /\ n \in FileName
      BY <1>1 DEF FileTypes, Disk
    <3>2. CASE \E f \in LogFile : files[f].file = n
      <4> DEFINE g == CHOOSE f \in LogFile : files[f].file = n
      <4>1. g \in LogFile /\ files[g].file = n
        BY <3>2
      <4>2. disk'[n] = Flushed(files[g])
        BY <1>4, <3>2
      <4> HIDE DEF g
      <4>3. Flushed(files[g]) = disk[n] \o files[g].buffered
        BY <4>1 DEF Flushed
      <4>4. files[g].buffered \in Seq(Entry)
        BY <1>1, <4>1 DEF FileTypes, OpenFile
      <4>5. IsPrefix(disk[n], disk[n] \o files[g].buffered)
        BY <3>1, <4>4, PrefixOfConcat
      <4> QED BY <3>1, <4>2, <4>3, <4>4, <4>5
    <3>3. CASE ~\E f \in LogFile : files[f].file = n
      <4>1. disk'[n] = disk[n]
        BY <1>4, <3>3
      <4> QED BY <3>1, <4>1, PrefixOfItself
    <3> QED BY <3>2, <3>3
  <2>4. FileTypes'
    BY <1>1, <2>1, <2>2, <2>3 DEF FileTypes, Disk
  <2>5. Keeping
    BY <2>2, <2>3 DEF Keeping, Kept
  <2>6. ControlTypes' /\ QueueTypes'
    BY <1>1, <1>2, <1>4 DEF Keeps, ControlTypes, QueueTypes, starting, queues, ghosts
  <2>7. OpenFiles'
    BY <1>1, <2>1, <2>2 DEF Core, OpenFiles
  <2>8. InOrder' /\ StartedFirst' /\ Begins' /\ Holds' /\ Counts' /\ NoLostWakeup'
    BY <1>1, <1>2, <1>4 DEF Keeps, Core, InOrder, StartedFirst, Begins, Holds, Counts,
       NoLostWakeup, Held, starting, queues, ghosts
  <2> QED BY <2>4, <2>5, <2>6, <2>7, <2>8, TypeParts DEF IInv, Core
<1> QED BY <1>3, <1>4 DEF FlushAll, Keeps, disks

LEMMA ListedFile ==
  LET l == [Closed EXCEPT !.listed = TRUE]
  IN l \in OpenFile /\ l.file = None /\ l.buffered = <<>>
<1>1. 0 \in 0..MaxTime /\ 0 \in Nat /\ <<>> \in Seq(Entry)
  BY BoundAssumption DEF BoundAssumption
<1>2. Closed \in OpenFile /\ Closed.file = None /\ Closed.buffered = <<>>
  BY <1>1 DEF Closed, OpenFile
<1> QED BY <1>2 DEF OpenFile

LEMMA CloseFileInv ==
  ASSUME IInv, NEW f \in LogFile, CloseFile(f)
  PROVE  IInv' /\ Keeping
<1> DEFINE l == files[f]
           d == close_and_rename(l)
           r == Rotated(l.file, l.tm)
<1>1. ControlTypes /\ QueueTypes /\ FileTypes /\ Core
  BY TypeParts DEF IInv
<1>2. /\ lt' = lt /\ l.file # None /\ disk' = d
      /\ fault' = IF Lost(r) THEN "overwritten" ELSE fault
      /\ files' = [files EXCEPT ![f] = [Closed EXCEPT !.listed = TRUE]]
      /\ Keeps(<<queues, entry, ghosts>>)
  BY DEF CloseFile, LogStep
<1>3. /\ Disk(d) /\ DOMAIN d = (DOMAIN disk \ {l.file}) \cup {r}
      /\ r.file = l.file.file /\ r.second # -1 /\ r # l.file
  BY <1>2, Renamed
<1>4. [Closed EXCEPT !.listed = TRUE] \in OpenFile /\ [Closed EXCEPT !.listed = TRUE].file = None
  BY ListedFile
<1> HIDE DEF d, r
<1>5. FileTypes'
  BY <1>1, <1>2, <1>3, <1>4 DEF FileTypes
<1>6. OpenFiles'
  <2>1. files'[f].file = None /\ \A g \in LogFile \ {f} : files'[g] = files[g]
    BY <1>1, <1>2, <1>4 DEF FileTypes
  <2>2. l.file.file = f
    BY <1>1, <1>2 DEF Core, OpenFiles
  <2> QED BY <1>1, <1>2, <1>3, <2>1, <2>2 DEF Core, OpenFiles
<1>7. ControlTypes' /\ QueueTypes'
  BY <1>1, <1>2 DEF Keeps, ControlTypes, QueueTypes, starting, queues, ghosts
<1>8. InOrder' /\ StartedFirst' /\ Begins' /\ Holds' /\ Counts' /\ NoLostWakeup'
  BY <1>1, <1>2 DEF Keeps, Core, InOrder, StartedFirst, Begins, Holds, Counts, NoLostWakeup, Held,
     starting, queues, ghosts
<1>9. Keeping
  <2>1. ASSUME fault' = "none", NEW name \in DOMAIN disk PROVE Kept(name)
    <3>1. ~Lost(Rotated(files[f].file, files[f].tm))
      BY <1>2, <2>1 DEF r
    <3> QED BY <1>2, <3>1, RenamedKeeps DEF Kept, d
  <2> QED BY <2>1 DEF Keeping
<1> QED BY <1>5, <1>6, <1>7, <1>8, <1>9, TypeParts DEF IInv, Core

(* The names on the disk when an entry needs a new file: those there were,   *)
(* with the old file, if there is one, renamed.                              *)
Names(l) == IF l.file = None THEN disk ELSE close_and_rename(l)
Named(l) == \A name \in DOMAIN disk :
  \E n \in DOMAIN Names(l) :
    /\ n.file = name.file /\ IsPrefix(disk[name], Names(l)[n])
    /\ n = name \/ n.second # -1

LEMMA NamesKept ==
  ASSUME IInv, NEW f \in LogFile
  PROVE  LET l == files[f]
         IN /\ Disk(Names(l))
            /\ l.file # None => l.file \notin DOMAIN Names(l)
            /\ \A g \in LogFile \ {f} : files[g].file # None => files[g].file \in DOMAIN Names(l)
            /\ ~(l.file # None /\ Lost(Rotated(l.file, l.tm))) => Named(l)
<1> DEFINE l == files[f]
<1>1. FileTypes /\ OpenFiles
  BY TypeParts DEF IInv, Core
<1>2. CASE l.file = None
  <2>1. Names(l) = disk
    BY <1>2 DEF Names
  <2>2. ASSUME NEW name \in DOMAIN disk PROVE IsPrefix(disk[name], disk[name])
    <3>1. disk[name] \in Seq(Entry)
      BY <1>1 DEF FileTypes, Disk
    <3> QED BY <3>1, PrefixOfItself
  <2> QED BY <1>1, <1>2, <2>1, <2>2 DEF FileTypes, OpenFiles, Named
<1>3. CASE l.file # None
  <2>1. Names(l) = close_and_rename(l)
    BY <1>3 DEF Names
  <2>2. /\ Disk(Names(l))
        /\ DOMAIN Names(l) = (DOMAIN disk \ {l.file}) \cup {Rotated(l.file, l.tm)}
        /\ Rotated(l.file, l.tm) # l.file
    BY <1>3, <2>1, Renamed
  <2>3. \A g \in LogFile \ {f} : files[g].file # None => files[g].file \in DOMAIN Names(l)
    BY <1>1, <1>3, <2>2 DEF OpenFiles
  <2>4. ~Lost(Rotated(l.file, l.tm)) => Named(l)
    <3>1. ASSUME ~Lost(Rotated(l.file, l.tm)), NEW name \in DOMAIN disk
          PROVE  \E n \in DOMAIN Names(l) :
                   /\ n.file = name.file /\ IsPrefix(disk[name], Names(l)[n])
                   /\ n = name \/ n.second # -1
      BY <1>3, <2>1, <3>1, RenamedKeeps
    <3> QED BY <3>1 DEF Named
  <2> QED BY <1>3, <2>2, <2>3, <2>4
<1> QED BY <1>2, <1>3

(* The parts of WriteEntry. *)
Appends(f) ==
  /\ files' = [files EXCEPT ![f].buffered = Append(@, entry), ![f].total_size = @ + 1]
  /\ UNCHANGED <<disk, fault>>
Overwrites(f) ==
  \/ files[f].file # None /\ Lost(Rotated(files[f].file, files[f].tm))
  \/ Lost(Live(f, Day(now))) /\ Live(f, Day(now)) # files[f].file
OpensNew(f) ==
  /\ create_os_file(f, [Closed EXCEPT !.listed = TRUE], Names(files[f]))
  /\ fault' = IF Overwrites(f) THEN "overwritten" ELSE fault

LEMMA AppendsInv ==
  ASSUME IInv, NEW f \in LogFile, entry \in Entry, Appends(f)
  PROVE  FileTypes' /\ OpenFiles' /\ Keeping
<1>1. FileTypes /\ OpenFiles
  BY TypeParts DEF IInv, Core
<1>2. files[f] \in OpenFile /\ Append(files[f].buffered, entry) \in Seq(Entry)
  BY <1>1 DEF FileTypes, OpenFile
<1>3. files' = [files EXCEPT ![f].buffered = Append(@, entry), ![f].total_size = @ + 1]
  BY DEF Appends
<1>4. /\ files' \in [LogFile -> OpenFile]
      /\ \A g \in LogFile : files'[g].file = files[g].file
  BY <1>1, <1>2, <1>3 DEF FileTypes, OpenFile
<1> QED BY <1>1, <1>4, SameDisk DEF Appends, FileTypes, OpenFiles

LEMMA OpensInv ==
  ASSUME IInv, NEW f \in LogFile, entry \in Entry, OpensNew(f)
  PROVE  FileTypes' /\ OpenFiles' /\ Keeping
<1> DEFINE l == files[f]
           names == Names(l)
           new == Live(f, Day(now))
           listed == [Closed EXCEPT !.listed = TRUE]
<1>1. TypeOK /\ FileTypes /\ OpenFiles
  BY TypeParts DEF IInv, Core
<1>2. /\ Disk(names)
      /\ l.file # None => l.file \notin DOMAIN names
      /\ \A g \in LogFile \ {f} : files[g].file # None => files[g].file \in DOMAIN names
      /\ ~(l.file # None /\ Lost(Rotated(l.file, l.tm))) => Named(l)
  BY NamesKept
<1>3. listed \in OpenFile /\ listed.file = None
  BY ListedFile
<1>4. new \in FileName /\ new # None /\ new.file = f /\ new.second = -1
  BY <1>1, LiveNames
<1>5. fault' = "none" =>
        /\ \A name \in DOMAIN disk : \E n \in DOMAIN names :
              /\ n.file = name.file /\ IsPrefix(disk[name], names[n])
              /\ n = name \/ n.second # -1
        /\ ~Lost(new) \/ new = l.file
  <2>1. fault' = "none" => ~Overwrites(f)
    BY DEF OpensNew
  <2> QED BY <1>2, <2>1 DEF Overwrites, Named
<1> HIDE DEF names, new, listed
<1>6. CASE /\ files' = [files EXCEPT ![f] = [listed EXCEPT !.file = new, !.tm = now,
                                               !.buffered = <<entry>>, !.total_size = 1]]
           /\ disk' = With(names, new, <<>>)
  <2>1. now \in 0..MaxTime /\ <<entry>> \in Seq(Entry)
    BY <1>1 DEF TypeOK
  <2>2. LET opened == [listed EXCEPT !.file = new, !.tm = now, !.buffered = <<entry>>,
                                       !.total_size = 1]
        IN opened \in OpenFile /\ opened.file = new
    BY <1>3, <1>4, <2>1 DEF OpenFile
  <2>3. /\ files' \in [LogFile -> OpenFile] /\ files'[f].file = new
        /\ \A g \in LogFile \ {f} : files'[g] = files[g]
    BY <1>1, <1>6, <2>2 DEF FileTypes
  <2>4. <<>> \in Seq(Entry)
    OBVIOUS
  <2>5. Disk(disk')
    BY <1>2, <1>4, <1>6, <2>4 DEF With, Disk
  <2>6. /\ DOMAIN disk' = DOMAIN names \cup {new} /\ disk'[new] = <<>>
        /\ \A n \in DOMAIN names : n # new => disk'[n] = names[n]
    BY <1>6 DEF With
  <2>7. OpenFiles'
    BY <1>1, <1>2, <1>4, <2>3, <2>6 DEF OpenFiles
  <2>8. Keeping
    <3>1. ASSUME fault' = "none", NEW name \in DOMAIN disk PROVE Kept(name)
      <4>1. PICK n \in DOMAIN names :
                /\ n.file = name.file /\ IsPrefix(disk[name], names[n])
                /\ n = name \/ n.second # -1
        BY <1>5, <3>1
      <4>2. CASE n # new
        BY <2>6, <4>1, <4>2 DEF Kept
      <4>3. CASE n = new
        <5>1. name = new
          BY <1>4, <4>1, <4>3
        <5>2. new # l.file
          BY <1>2, <1>4, <4>1, <4>3
        <5>3. disk[name] = <<>>
          BY <1>5, <3>1, <5>1, <5>2 DEF Lost
        <5>4. IsPrefix(disk[name], disk'[new])
          BY <2>4, <2>6, <5>3, EmptyPrefix
        <5> QED BY <2>6, <5>1, <5>4 DEF Kept
      <4> QED BY <4>2, <4>3
    <3> QED BY <3>1 DEF Keeping
  <2> QED BY <2>3, <2>5, <2>7, <2>8 DEF FileTypes
<1>7. CASE files' = [files EXCEPT ![f] = listed] /\ disk' = names
  <2>1. /\ files' \in [LogFile -> OpenFile] /\ files'[f].file = None
        /\ \A g \in LogFile \ {f} : files'[g] = files[g]
    BY <1>1, <1>3, <1>7 DEF FileTypes
  <2>2. FileTypes' /\ OpenFiles'
    BY <1>1, <1>2, <1>7, <2>1 DEF FileTypes, OpenFiles
  <2>3. Keeping
    BY <1>5, <1>7 DEF Keeping, Kept
  <2> QED BY <2>2, <2>3
<1> QED BY <1>6, <1>7 DEF OpensNew, create_os_file, names, new, listed

LEMMA WriteEntryInv == IInv /\ WriteEntry => IInv' /\ Keeping
<1> SUFFICES ASSUME IInv, WriteEntry PROVE IInv' /\ Keeping
  OBVIOUS
<1>1. ControlTypes /\ QueueTypes /\ FileTypes /\ Core
  BY TypeParts DEF IInv
<1>2. /\ lt = "write" /\ lt' = "flush" /\ written' = Append(written, entry) /\ entry' = NoEntry
      /\ UNCHANGED <<proc, starting, stop, now, share, private, wait, signals, signalled,
                     pushed, seen>>
  BY DEF WriteEntry, LogStep, Keeps, queues
<1>3. entry \in Entry /\ entry.file \in LogFile /\ entry # NoEntry
  BY <1>1, <1>2 DEF Core, Holds, QueueTypes, Entry
<1>4. Appends(entry.file) \/ OpensNew(entry.file)
  BY DEF WriteEntry, Appends, OpensNew, Overwrites, Names
<1>5. FileTypes' /\ OpenFiles' /\ Keeping
  BY <1>3, <1>4, AppendsInv, OpensInv
<1>6. ControlTypes'
  <2>1. fault' \in {"none", "overwritten", "condition"}
    BY <1>1, <1>4 DEF Appends, OpensNew, ControlTypes
  <2> QED BY <1>1, <1>2, <2>1 DEF ControlTypes, starting
<1>7. QueueTypes'
  BY <1>1, <1>2, <1>3 DEF QueueTypes
<1>8. Held = <<entry>> /\ Held' = <<>>
  BY <1>2, <1>3 DEF Held
<1>9. InOrder'
  <2>1. written \in Seq(Entry) /\ <<entry>> \in Seq(Entry)
    BY <1>1, <1>3 DEF QueueTypes
  <2>2. Append(written, entry) = written \o <<entry>>
    BY <1>3, <2>1
  <2>3. (written \o <<entry>>) \o <<>> = written \o <<entry>>
    BY <2>1
  <2> QED BY <1>1, <1>2, <1>8, <2>2, <2>3 DEF Core, InOrder
<1>10. Counts'
  <2>1. Len(Held) = 1 /\ Len(Held') = 0 /\ Len(written') = Len(written) + 1 /\ Len(written) \in Nat
    BY <1>1, <1>2, <1>3, <1>8 DEF QueueTypes
  <2>2. Len(private) \in Nat
    BY <1>1 DEF QueueTypes
  <2> QED BY <1>1, <1>2, <2>1, <2>2 DEF Core, Counts, QueueTypes
<1>11. StartedFirst' /\ Begins' /\ Holds' /\ NoLostWakeup'
  BY <1>1, <1>2 DEF Core, StartedFirst, Begins, Holds, NoLostWakeup, starting
<1> QED BY <1>5, <1>6, <1>7, <1>9, <1>10, <1>11, TypeParts DEF IInv, Core

-----------------------------------------------------------------------------
LEMMA NextInv == IInv /\ [Next]_vars => IInv' /\ Keeping
<1> SUFFICES ASSUME IInv, [Next]_vars PROVE IInv' /\ Keeping
  OBVIOUS
<1>1. CASE UNCHANGED vars
  <2>1. IInv'
    <3>1. ControlTypes' /\ StartedFirst' /\ Begins'
      BY <1>1, TypeParts DEF vars, IInv, ControlTypes, Core, StartedFirst, Begins, starting, queues
    <3> QED BY <1>1, <3>1, QuietStep DEF vars, queues
  <2> QED BY <1>1, <2>1, SameDisk DEF vars, disks
<1>2. CASE Starting
  BY <1>2, StartingInv, SameDisk DEF Starting, chk_thread_new, start_routine, SignalParent,
     ThreadStarted, disks
<1>3. CASE Logging
  <2>1. disk' = disk
    BY <1>3 DEF Logging, chk_create_logfile, _write_log, chk_condition_signal, disks
  <2> QED BY <1>3, <2>1, LoggingInv, SameDisk
<1>4. CASE LogThread
  <2>1. CASE \/ ReadStop \/ PopPrivate \/ chk_condition_timedwait \/ Wakes \/ logqueue_fetch
             \/ LogContinues \/ LogEnds \/ LogEnded
    <3>1. disk' = disk
      BY <2>1 DEF ReadStop, PopPrivate, chk_condition_timedwait, Wakes, logqueue_fetch, TakeShared,
         LogContinues, LogEnds, LogEnded, Keeps, disks
    <3> QED BY <2>1, <3>1, QueueInv, SameDisk
  <2> QED BY <1>4, <2>1, WriteEntryInv, FlushAllInv, CloseFileInv DEF LogThread
<1>5. CASE on_process_end \/ chk_thread_join \/ Crash \/ Restart \/ Tick
  <2>1. disk' = disk
    BY <1>5 DEF on_process_end, chk_thread_join, Crash, Restart, Tick, disks
  <2> QED BY <1>5, <2>1, ProcessInv, SameDisk
<1> QED BY <1>1, <1>2, <1>3, <1>4, <1>5 DEF Next

(* What is true of every state of the log. *)
THEOREM LogInvariant == Spec => []IInv
BY InitIInv, NextInv, PTL DEF Spec

(* No entry is lost, doubled or overtaken between the thread that logs and  *)
(* the write of the log thread (logqueue_push, logqueue_fetch), and nobody  *)
(* logs before the log thread runs (chk_thread_new).                        *)
THEOREM LogIsSafe == Spec => []LogSafe
<1>1. IInv => LogSafe
  BY DEF IInv, Core, LogSafe
<1> QED BY <1>1, LogInvariant, PTL

(* The log thread never sleeps on an entry without a signal on its way      *)
(* (logqueue_push signals after the unlock).                                *)
THEOREM NoWakeupIsLost == Spec => []NoLostWakeup
<1>1. IInv => NoLostWakeup
  BY DEF IInv, Core
<1> QED BY <1>1, LogInvariant, PTL

(* What was queued before the last look of the thread that ends is written  *)
(* (log_routine reads stop after the fetch).                                *)
THEOREM OnlyLateIsLost == Spec => []LosesOnlyLate
<1>1. IInv => LosesOnlyLate
  <2> SUFFICES ASSUME IInv, lt \in {"closing", "ended"}
               PROVE  Held = <<>> /\ private = <<>> /\ Len(written) >= seen
    BY DEF LosesOnlyLate
  <2>1. private = <<>> /\ entry = NoEntry /\ seen <= Len(written) + Len(Held) + Len(private)
    BY DEF IInv, Core, Holds, Counts
  <2>2. Len(written) \in Nat /\ seen \in Int
    BY BoundAssumption DEF IInv, TypeOK, BoundAssumption
  <2> QED BY <2>1, <2>2 DEF Held
<1> QED BY <1>1, LogInvariant, PTL

(* Rotations, new days, crashes and restarts keep what has reached a file,  *)
(* as long as no two files get the same name (close_and_rename,             *)
(* create_os_file).                                                         *)
THEOREM DiskOnlyGrows == Spec => FilesKept
<1>1. IInv /\ [Next]_vars => [fault' = "none" => \A name \in DOMAIN disk : Kept(name)]_vars
  BY NextInv DEF Keeping
<1> QED BY <1>1, LogInvariant, PTL DEF Spec, FilesKept
=============================================================================
