-------------------------- MODULE DboMirror_proofs --------------------------
(***************************************************************************)
(* Proofs about DboMirror: type correctness; that a committed block is     *)
(* mirrored unless it went into a file deleted before; that this does not  *)
(* happen with one crash; and the order of the blocks over any number of   *)
(* crashes, until the operator switches the mirror.                        *)
(***************************************************************************)
EXTENDS DboMirror, TLAPS, SequenceTheorems

(* The types, and that a record whose file is gone is still in the queue.  *)
TypeInv == TypeOK /\ (maint.phase = "deleted" => queue.closed # << >>)

\* The queue's operations keep its type.
LEMMA QueueTypes ==
  ASSUME {queue, saved} \subseteq Queues
  PROVE /\ Loaded \in Queues
        /\ \A q \in Queues, f \in Files : Change(q, f) \in Queues /\ Append1(q, f) \in Queues
        /\ \A q \in Queues, f \in Files : q.closed # << >> => Change(q, f).closed # << >>
        /\ \A q \in Queues : q.closed # << >> => [q EXCEPT !.closed = Tail(@)] \in Queues
<1>1. ASSUME NEW q \in Queues, NEW f \in Files
      PROVE Change(q, f) \in Queues /\ Append1(q, f) \in Queues
            /\ (q.closed # << >> => Change(q, f).closed # << >>)
  <2>0. q.closed \in Seq(Files)
    BY DEF Queues
  <2>1. Append(q.closed, f) \in Seq(Files) /\ Append(q.closed, f) # << >>
    BY <2>0, AppendProperties, EmptySeq
  <2>2. QED
    BY <1>1, <2>1 DEF Queues, Change, Append1
<1>2. ASSUME NEW q \in Queues, q.closed # << >>
      PROVE [q EXCEPT !.closed = Tail(@)] \in Queues
  <2>1. Tail(q.closed) \in Seq(Files)
    BY <1>2 DEF Queues
  <2>2. QED
    BY <1>2, <2>1 DEF Queues
<1>3. Loaded \in Queues
  <2>1. saved.closed \o queue.closed \in Seq(Files)
    BY DEF Queues
  <2>2. QED
    BY <2>1 DEF Queues, Loaded
<1>4. QED
  BY <1>1, <1>2, <1>3

Apps    == [pc : {"down", "create", "idle", "closing", "joining"}, conn : BOOLEAN,
            next : Blocks, done : Blocks \cup {FirstBlock - 1}]
Mirrors == [on : BOOLEAN, ok : BOOLEAN, file : Nat, bytes : Nat, linked : BOOLEAN]
Maints  == [phase : {"off", "starting", "running", "deleted", "leaving", "ending"},
            exit : BOOLEAN, mapped : BOOLEAN, open : BOOLEAN]

LEMMA InitType == Init => TypeInv
<1> SUFFICES ASSUME Init PROVE TypeInv
  OBVIOUS
<1> USE MirrorAssumption DEF Init
<1>1. LibraryType
  <2>1. app \in Apps
    BY DEF Apps, Blocks
  <2>2. mirror \in Mirrors
    BY DEF Mirrors, NoMirror
  <2>3. QED
    BY <2>1, <2>2 DEF LibraryType, Apps, Mirrors, NoEvents
<1>2. FilesType
  BY DEF FilesType, Files
<1>3. ServerType
  <2>1. maint \in Maints
    BY DEF Maints
  <2>2. NoRecords \in Queues
    BY DEF NoRecords, Queues
  <2>3. QED
    BY <2>1, <2>2 DEF ServerType, Maints
<1>4. HistoryType
  BY DEF HistoryType
<1>5. maint.phase # "deleted"
  OBVIOUS
<1>6. QED
  BY <1>1, <1>2, <1>3, <1>4, <1>5 DEF TypeInv, TypeOK

USE DEF stateFile, srvVars, history, vars

\* The application's next block and its last commit.
LEMMA AppTypeKept == TypeInv /\ [Next]_vars => app' \in Apps
<1> SUFFICES ASSUME TypeInv, [Next]_vars PROVE app' \in Apps
  OBVIOUS
<1>a. app \in Apps
  BY DEF TypeInv, TypeOK, LibraryType, Apps
<1>n. /\ app.next + 1 \in Blocks /\ app.next - 1 \in Blocks \cup {FirstBlock - 1} /\ Resend \in Blocks
  <2>1. app.next \in Blocks /\ app.done \in Blocks \cup {FirstBlock - 1}
    BY <1>a DEF Apps
  <2>2. QED
    BY <2>1, MirrorAssumption DEF Blocks, Resend
<1>1. CASE UNCHANGED app
  BY <1>1, <1>a
<1>2. CASE CreateMirror
  BY <1>2, <1>a DEF CreateMirror, Apps
<1>3. CASE OpenTransfer
  <2>1. app' = [app EXCEPT !.pc = IF db THEN "create" ELSE "idle", !.conn = TRUE, !.next = Resend]
    BY <1>3 DEF OpenTransfer
  <2>2. QED
    BY <2>1, <1>a, <1>n DEF Apps
<1>4. CASE SendPast \/ WriteSecond
  BY <1>4, <1>a, <1>n DEF SendPast, WriteSecond, Apps
<1>5. CASE \E c \in BOOLEAN : EndTransaction(c)
  BY <1>5, <1>a, <1>n DEF EndTransaction, Apps
<1>6. CASE CloseTransfer \/ DropMirror
  BY <1>6, <1>a DEF CloseTransfer, DropMirror, Apps
<1>7. CASE Destroy \/ Crash
  BY <1>7, <1>a DEF Destroy, Crash, Apps
<1>8. CASE ServerCrash
  BY <1>8, <1>a DEF ServerCrash, Apps
<1>9. QED
  BY <1>1, <1>2, <1>3, <1>4, <1>5, <1>6, <1>7, <1>8
  DEF Next, Library, Svc, ReportBegin, ReportEnd, NextFile, WriteFirst, EventOff, ReportRemove, EventOn,
      SvcStart, Expire, RemoveRecord, SvcLeave, SvcCleanup, SvcEnd, SendMirrored, SessionLost,
      ChangeDatabase, ChangeSession, SetMirrored

\* The mirror's file, with the bytes that the library takes it to hold.
LEMMA MirrorTypeKept == TypeInv /\ [Next]_vars => mirror' \in Mirrors
<1> SUFFICES ASSUME TypeInv, [Next]_vars PROVE mirror' \in Mirrors
  OBVIOUS
<1>a. mirror \in Mirrors /\ NoMirror \in Mirrors
  BY DEF TypeInv, TypeOK, LibraryType, Mirrors, NoMirror
<1>c. curFile \in Nat /\ \A f \in DOMAIN disk : Len(disk[f]) \in Nat
  BY DEF TypeInv, TypeOK, FilesType, Files
<1>1. CASE UNCHANGED mirror
  BY <1>1, <1>a
<1>2. CASE OpenMirror
  <2> DEFINE n == IF curFile \in DOMAIN disk THEN Len(disk[curFile]) ELSE 0
  <2>1. n \in Nat
    BY <1>c
  <2>2. mirror' = [on |-> TRUE, ok |-> TRUE, file |-> curFile, linked |-> TRUE, bytes |-> n]
    BY <1>2 DEF OpenMirror
  <2> HIDE DEF n
  <2>3. QED
    BY <2>1, <2>2, <1>c DEF Mirrors
<1>3. CASE Expire \/ ReportBegin
  BY <1>3, <1>a DEF Expire, ReportBegin, Mirrors
<1>4. CASE NextFile \/ ReportEnd
  <2>1. CASE NextFile
    <3>1. mirror' = [mirror EXCEPT !.file = curFile + 1, !.bytes = 0, !.linked = TRUE]
      BY <2>1 DEF NextFile
    <3>2. curFile + 1 \in Nat
      BY <1>c
    <3>3. QED
      BY <3>1, <3>2, <1>a DEF Mirrors
  <2>2. QED
    BY <1>4, <2>1, <1>a DEF ReportEnd, Mirrors
<1>5. CASE WriteSecond
  BY <1>5, <1>a DEF WriteSecond, Mirrors
<1>6. CASE DropMirror \/ Destroy \/ EventOff \/ Crash
  BY <1>6, <1>a DEF DropMirror, Destroy, EventOff, Crash
<1>7. QED
  BY <1>1, <1>2, <1>3, <1>4, <1>5, <1>6
  DEF Next, Library, Svc, CreateMirror, EventOn, WriteFirst, ReportRemove, SvcStart, RemoveRecord,
      SvcLeave, SvcCleanup, SvcEnd, OpenTransfer, SendPast, SendMirrored, EndTransaction, CloseTransfer,
      SessionLost, ChangeDatabase, ChangeSession, SetMirrored, ServerCrash

\* The work in hand, and the threads that wait for it.
LEMMA JobTypeKept ==
  TypeInv /\ [Next]_vars =>
    /\ job' \in {"none", "begin", "switch", "next", "switched", "write1", "write2", "remove"}
    /\ events' \in [{"on", "off"} -> Nat]
<1> SUFFICES ASSUME TypeInv, [Next]_vars
    PROVE /\ job' \in {"none", "begin", "switch", "next", "switched", "write1", "write2", "remove"}
          /\ events' \in [{"on", "off"} -> Nat]
  OBVIOUS
<1>a. /\ job \in {"none", "begin", "switch", "next", "switched", "write1", "write2", "remove"}
      /\ events \in [{"on", "off"} -> Nat]
  BY DEF TypeInv, TypeOK, LibraryType
<1>1. events' \in [{"on", "off"} -> Nat]
  <2>1. CASE UNCHANGED events
    BY <2>1, <1>a
  <2>2. CASE EventOn \/ EventOff
    BY <2>2, <1>a DEF EventOn, EventOff
  <2>3. CASE Crash
    BY <2>3 DEF Crash, NoEvents
  <2>4. CASE ChangeSession
    BY <2>4, <1>a DEF ChangeSession, Event
  <2>5. QED
    BY <2>1, <2>2, <2>3, <2>4
    DEF Next, Library, Svc, CreateMirror, ReportBegin, ReportEnd, NextFile, WriteFirst, WriteSecond,
        DropMirror, Destroy, ReportRemove, SvcStart, Expire, RemoveRecord, SvcLeave, SvcCleanup, SvcEnd,
        OpenTransfer, SendPast, SendMirrored, EndTransaction, CloseTransfer, SessionLost,
        ChangeDatabase, SetMirrored, ServerCrash
<1>2. job' \in {"none", "begin", "switch", "next", "switched", "write1", "write2", "remove"}
  BY <1>a DEF Next, Library, Svc, CreateMirror, EventOn, EventOff, OpenMirror, ReportBegin, ReportEnd,
      NextFile, WriteFirst, WriteSecond, DropMirror, Destroy, ReportRemove, SvcStart, Expire,
      RemoveRecord, SvcLeave, SvcCleanup, SvcEnd, OpenTransfer, SendPast, SendMirrored, EndTransaction,
      CloseTransfer, Crash, SessionLost, ChangeDatabase, ChangeSession, SetMirrored, ServerCrash
<1>3. QED
  BY <1>1, <1>2

\* The files of the directory hold blocks.
LEMMA FilesTypeKept == TypeInv /\ [Next]_vars => FilesType'
<1> SUFFICES ASSUME TypeInv, [Next]_vars PROVE FilesType'
  OBVIOUS
<1>a. /\ FilesType /\ curFile + 1 \in Files
  BY DEF TypeInv, TypeOK, FilesType, Files
<1>b. app.next \in Blocks
  BY DEF TypeInv, TypeOK, LibraryType
<1>1. ASSUME NEW f \in Files, f \in {curFile, curFile + 1},
             disk' = [g \in DOMAIN disk \cup {f} |-> IF g \in DOMAIN disk THEN disk[g] ELSE << >>]
      PROVE DOMAIN disk' \subseteq Files /\ \A g \in DOMAIN disk' : disk'[g] \in Seq(Blocks)
  BY <1>1, <1>a DEF FilesType
<1>2. CASE UNCHANGED stateFile /\ UNCHANGED disk
  BY <1>2, <1>a DEF FilesType
<1>3. CASE CreateMirror \/ EventOn
  <2>1. UNCHANGED <<curFile, curBlock>>
    BY <1>3 DEF CreateMirror, EventOn, OpenMirror, LoadState
  <2>2. UNCHANGED disk \/ disk' = [g \in DOMAIN disk \cup {curFile} |-> IF g \in DOMAIN disk THEN disk[g] ELSE << >>]
    BY <1>3 DEF CreateMirror, EventOn, OpenMirror
  <2>3. CASE UNCHANGED disk
    BY <2>1, <2>3, <1>a DEF FilesType
  <2>4. CASE ~UNCHANGED disk
    BY <2>1, <2>2, <2>4, <1>a, <1>1 DEF FilesType
  <2>5. QED
    BY <2>3, <2>4
<1>4. CASE NextFile
  BY <1>4, <1>a, <1>1 DEF NextFile, FilesType
<1>5. CASE WriteFirst
  <2>1. \A f \in DOMAIN disk : Append(disk[f], app.next) \in Seq(Blocks)
    BY <1>a, <1>b DEF FilesType
  <2>2. UNCHANGED <<curFile, curBlock>>
    BY <1>5 DEF WriteFirst, Half, Store
  <2>3. UNCHANGED disk \/ disk' = [disk EXCEPT ![mirror.file] = Append(@, app.next)]
    BY <1>5 DEF WriteFirst, Half, Store
  <2>4. QED
    BY <2>1, <2>2, <2>3, <1>a DEF FilesType
<1>6. CASE WriteSecond
  BY <1>6, <1>a, <1>b DEF WriteSecond, Half, Mark, FilesType
<1>7. CASE EventOff
  BY <1>7, <1>a DEF EventOff, FilesType
<1>8. CASE ReportRemove \/ ChangeSession
  BY <1>8, <1>a DEF ReportRemove, ChangeSession, RemoveMaintainer, FilesType
<1>9. CASE Expire
  BY <1>9, <1>a DEF Expire, FilesType
<1>10. QED
  BY <1>2, <1>3, <1>4, <1>5, <1>6, <1>7, <1>8, <1>9
  DEF Next, Library, Svc, ReportBegin, ReportEnd, DropMirror, Destroy, SvcStart, RemoveRecord,
      SvcLeave, SvcCleanup, SvcEnd, OpenTransfer, SendPast, SendMirrored, EndTransaction,
      CloseTransfer, Crash, SessionLost, ChangeDatabase, SetMirrored, ServerCrash

\* What the steps make of the queue in memory and the one on disk.
LEMMA QueuesKept ==
  TypeInv /\ [Next]_vars =>
    /\ {queue', saved'} \subseteq Queues
    /\ (maint.phase = "deleted" => queue.closed # << >>)'
<1> SUFFICES ASSUME TypeInv, [Next]_vars
             PROVE /\ {queue', saved'} \subseteq Queues
                   /\ (maint.phase = "deleted" => queue.closed # << >>)'
  OBVIOUS
<1>a. /\ {queue, saved} \subseteq Queues /\ curFile \in Files
      /\ maint.phase = "deleted" => queue.closed # << >>
      /\ maint \in Maints
  BY DEF TypeInv, TypeOK, ServerType, FilesType, Maints
<1>q. /\ Loaded \in Queues
      /\ \A q \in Queues, f \in Files : Change(q, f) \in Queues /\ Append1(q, f) \in Queues
      /\ \A q \in Queues, f \in Files : q.closed # << >> => Change(q, f).closed # << >>
      /\ \A q \in Queues : q.closed # << >> => [q EXCEPT !.closed = Tail(@)] \in Queues
  BY <1>a, QueueTypes
<1>m. \A q \in Queues, f \in Files : Append1(q, f).closed = q.closed
  BY DEF Append1, Queues
<1>n. NoRecords \in Queues
  BY DEF Queues, NoRecords
<1>1. CASE UNCHANGED <<queue, saved>> /\ maint'.phase # "deleted"
  BY <1>1, <1>a
<1>2. CASE UNCHANGED <<queue, saved, maint>>
  BY <1>2, <1>a
<1>3. CASE Expire
  BY <1>3, <1>a DEF Expire
<1>4. CASE RemoveRecord
  BY <1>4, <1>a, <1>q DEF RemoveRecord, Save, Maints
<1>5. CASE ReportBegin
  BY <1>5, <1>a, <1>q, <1>m DEF ReportBegin, NewFile, Save
<1>6. CASE ReportEnd
  BY <1>6, <1>a, <1>q DEF ReportEnd, CloseFile, Save
<1>7. ASSUME RemoveMaintainer
      PROVE {queue', saved'} \subseteq Queues /\ (maint.phase = "deleted" => queue.closed # << >>)'
  BY <1>7, <1>a, <1>q DEF RemoveMaintainer, Save, Maints
<1>8. CASE ReportRemove
  BY <1>8, <1>7, <1>a DEF ReportRemove
<1>9. CASE ChangeSession
  <2>1. ASSUME CreateMaintainer
        PROVE {queue', saved'} \subseteq Queues /\ (maint.phase = "deleted" => queue.closed # << >>)'
    BY <2>1, <1>a, <1>q DEF CreateMaintainer, Running, Maints
  <2>2. QED
    BY <1>9, <1>7, <2>1, <1>a DEF ChangeSession
<1>10. CASE ServerCrash
  BY <1>10, <1>a, <1>n DEF ServerCrash
<1>11. CASE SvcStart \/ SvcLeave \/ SvcCleanup \/ SvcEnd
  BY <1>11, <1>1, <1>a DEF SvcStart, SvcLeave, SvcCleanup, SvcEnd, Maints
<1>12. QED
  BY <1>2, <1>3, <1>4, <1>5, <1>6, <1>8, <1>9, <1>10, <1>11
  DEF Next, Library, Svc, CreateMirror, EventOn, EventOff, NextFile, WriteFirst, WriteSecond,
      DropMirror, Destroy, OpenTransfer, SendPast, SendMirrored, EndTransaction, CloseTransfer, Crash,
      SessionLost, ChangeDatabase, SetMirrored

LEMMA ServerTypeKept == TypeInv /\ [Next]_vars => ServerType'
<1> SUFFICES ASSUME TypeInv, [Next]_vars PROVE ServerType'
  OBVIOUS
<1>a. /\ {db, mirrored, attached} \subseteq BOOLEAN /\ oper \in {"idle", "session", "flag"}
      /\ maint \in Maints
  BY DEF TypeInv, TypeOK, ServerType, Maints
<1>1. {db', mirrored', attached'} \subseteq BOOLEAN /\ oper' \in {"idle", "session", "flag"}
  BY <1>a DEF Next, Library, Svc, CreateMirror, EventOn, EventOff, ReportBegin, ReportEnd, NextFile,
      WriteFirst, WriteSecond, DropMirror, Destroy, ReportRemove, SvcStart, Expire, RemoveRecord,
      SvcLeave, SvcCleanup, SvcEnd, OpenTransfer, SendPast, SendMirrored, EndTransaction,
      CloseTransfer, Crash, SessionLost, ChangeDatabase, ChangeSession, SetMirrored, ServerCrash
<1>2. maint' \in Maints
  <2>1. CASE UNCHANGED maint
    BY <2>1, <1>a
  <2>2. CASE SvcStart \/ Expire \/ RemoveRecord \/ SvcLeave \/ SvcCleanup \/ SvcEnd
    BY <2>2, <1>a DEF SvcStart, Expire, RemoveRecord, SvcLeave, SvcCleanup, SvcEnd, Maints
  <2>3. CASE RemoveMaintainer \/ CreateMaintainer
    <3>1. ASSUME RemoveMaintainer PROVE maint' \in Maints
      BY <3>1, <1>a DEF RemoveMaintainer, Maints
    <3>2. ASSUME CreateMaintainer PROVE maint' \in Maints
      <4>1. maint' = [maint EXCEPT !.exit = FALSE]
            \/ maint' = [phase |-> IF maint.phase = "off" THEN "starting" ELSE maint.phase,
                         exit |-> FALSE, mapped |-> TRUE, open |-> TRUE]
        BY <3>2 DEF CreateMaintainer
      <4>2. [maint EXCEPT !.exit = FALSE] \in Maints
        BY <1>a DEF Maints
      <4>3. [phase |-> IF maint.phase = "off" THEN "starting" ELSE maint.phase,
             exit |-> FALSE, mapped |-> TRUE, open |-> TRUE] \in Maints
        <5>1. maint.phase \in {"off", "starting", "running", "deleted", "leaving", "ending"}
          BY <1>a DEF Maints
        <5>2. QED
          BY <5>1 DEF Maints
      <4>4. QED
        BY <4>1, <4>2, <4>3
    <3>3. QED
      BY <2>3, <3>1, <3>2
  <2>4. CASE ServerCrash
    BY <2>4, <1>a DEF ServerCrash, Maints
  <2>5. QED
    BY <2>1, <2>2, <2>3, <2>4
    DEF Next, Library, Svc, CreateMirror, EventOn, EventOff, ReportBegin, ReportEnd, NextFile,
        WriteFirst, WriteSecond, DropMirror, Destroy, ReportRemove, OpenTransfer, SendPast,
        SendMirrored, EndTransaction, CloseTransfer, Crash, SessionLost, ChangeDatabase,
        ChangeSession, SetMirrored
<1>3. QED
  BY <1>1, <1>2, QueuesKept DEF ServerType, Maints

LEMMA HistoryTypeKept == TypeInv /\ [Next]_vars => HistoryType'
<1> SUFFICES ASSUME TypeInv, [Next]_vars PROVE HistoryType'
  OBVIOUS
<1> USE DEF TypeInv, TypeOK, HistoryType
<1>1. CASE UNCHANGED vars
  BY <1>1
<1>2. CASE Library
  BY <1>2 DEF Library, CreateMirror, EventOn, ReportBegin, ReportEnd, NextFile, WriteFirst, Half, Store,
     WriteSecond, Mark, DropMirror, Destroy, EventOff, ReportRemove, LibraryType
<1>3. CASE Svc
  <2>1. \A f \in DOMAIN disk : Range(disk[f]) \subseteq Blocks
    BY DEF FilesType, Range
  <2>2. QED
    BY <1>3, <2>1 DEF Svc, SvcStart, Expire, RemoveRecord, SvcLeave, SvcCleanup, SvcEnd
<1>4. CASE OpenTransfer \/ SendPast \/ SendMirrored
  BY <1>4 DEF OpenTransfer, SendPast, SendMirrored, LibraryType
<1>5. CASE (\E c \in BOOLEAN : EndTransaction(c)) \/ CloseTransfer
  BY <1>5 DEF EndTransaction, CloseTransfer
<1>6. CASE Crash \/ ServerCrash \/ ChangeDatabase
  <2>1. CASE Crash
    BY <2>1 DEF Crash
  <2>2. CASE ServerCrash
    BY <2>2 DEF ServerCrash
  <2>3. QED
    BY <1>6, <2>1, <2>2 DEF ChangeDatabase
<1>7. CASE SessionLost \/ ChangeSession \/ SetMirrored
  BY <1>7 DEF SessionLost, ChangeSession, SetMirrored
<1>8. QED
  BY <1>1, <1>2, <1>3, <1>4, <1>5, <1>6, <1>7 DEF Next

LEMMA TypeInductive == Spec => []TypeInv
<1>1. TypeInv /\ [Next]_vars => TypeInv'
  BY AppTypeKept, MirrorTypeKept, JobTypeKept, FilesTypeKept, QueuesKept, ServerTypeKept, HistoryTypeKept
  DEF TypeInv, TypeOK, LibraryType, Apps, Mirrors
<1>2. QED
  BY InitType, <1>1, PTL DEF Spec

(* Types: every variable keeps its type, for any number of blocks, files,  *)
(* crashes and switches.                                                   *)
THEOREM TypeCorrect == Spec => []TypeOK
  BY TypeInductive, PTL DEF TypeInv

-----------------------------------------------------------------------------
(* Where the blocks are.  Every block sent is accounted for: it went past  *)
(* a mirror that was not ready, or it is in a file, or it was in one that  *)
(* has been deleted, before or after it was written.                       *)

OnDisk(b)  == \E f \in DOMAIN disk : b \in Range(disk[f])
Covered(b) == b \in passed \/ b \in expired \/ b \in lost \/ OnDisk(b)

(* The library writes to a file of the directory, or to one that was       *)
(* deleted.  Who works on the mirror has one.                              *)
LinkedIsThere ==
  /\ mirror.linked => mirror.on /\ mirror.file \in DOMAIN disk
  /\ mirror.ok => mirror.on
  /\ job \notin {"none", "remove"} => mirror.on

(* The blocks before the next one, and those up to the number in the state *)
(* file, for which a block is taken to be old.                             *)
SentAreCovered ==
  /\ \A b \in FirstBlock .. app.next - 1 : Covered(b)
  /\ \A b \in FirstBlock .. curBlock : Covered(b)
  /\ app.done < app.next
  /\ job = "write2" => Covered(app.next)

CoverInv == LinkedIsThere /\ SentAreCovered

\* A file that is opened for writing keeps what it holds.
Opened(f) == disk' = [g \in DOMAIN disk \cup {f} |-> IF g \in DOMAIN disk THEN disk[g] ELSE << >>]

\* A step of the disk is one of four.
LEMMA DiskSteps ==
  ASSUME TypeInv, [Next]_vars
  PROVE \/ UNCHANGED <<disk, expired, lost>>
        \/ UNCHANGED <<expired, lost>> /\ \E f \in Files : Opened(f)
        \/ WriteFirst \/ Expire
<1>1. curFile \in Files /\ curFile + 1 \in Files
  BY DEF TypeInv, TypeOK, FilesType, Files
<1>2. CASE CreateMirror \/ EventOn
  BY <1>1, <1>2 DEF CreateMirror, EventOn, OpenMirror, Opened
<1>3. CASE NextFile
  BY <1>1, <1>3 DEF NextFile, Opened
<1>4. QED
  BY <1>2, <1>3
  DEF Next, Library, Svc, EventOff, ReportBegin, ReportEnd, WriteSecond, Half, Mark, DropMirror, Destroy,
      ReportRemove, SvcStart, RemoveRecord, SvcLeave, SvcCleanup, SvcEnd, OpenTransfer, SendPast,
      SendMirrored, EndTransaction, CloseTransfer, Crash, SessionLost, ChangeDatabase, ChangeSession,
      SetMirrored, ServerCrash

LEMMA RangeOfAppend ==
  ASSUME NEW S, NEW s \in Seq(S), NEW e \in S
  PROVE Range(Append(s, e)) = Range(s) \cup {e}
<1>1. /\ DOMAIN s = 1 .. Len(s) /\ Len(s) \in Nat
      /\ DOMAIN Append(s, e) = 1 .. Len(s) + 1
      /\ \A i \in 1 .. Len(s) : Append(s, e)[i] = s[i]
      /\ Append(s, e)[Len(s) + 1] = e
  OBVIOUS
<1>2. \A i \in 1 .. Len(s) + 1 : i \in 1 .. Len(s) \/ i = Len(s) + 1
  BY <1>1
<1>3. QED
  BY <1>1, <1>2 DEF Range

\* What is accounted for stays accounted for.
LEMMA CoverageKept ==
  ASSUME TypeInv, LinkedIsThere, [Next]_vars, NEW b, Covered(b)
  PROVE Covered(b)'
<1>1. passed \subseteq passed'
  BY DEF Next, Library, Svc, CreateMirror, EventOn, EventOff, ReportBegin, ReportEnd, NextFile,
      WriteFirst, WriteSecond, DropMirror, Destroy, ReportRemove, SvcStart, Expire, RemoveRecord,
      SvcLeave, SvcCleanup, SvcEnd, OpenTransfer, SendPast, SendMirrored, EndTransaction,
      CloseTransfer, Crash, SessionLost, ChangeDatabase, ChangeSession, SetMirrored, ServerCrash
<1>2. CASE UNCHANGED <<disk, expired, lost>>
  BY <1>1, <1>2 DEF Covered, OnDisk
<1>3. CASE UNCHANGED <<expired, lost>> /\ \E f \in Files : Opened(f)
  <2>1. PICK f \in Files : Opened(f)
    BY <1>3
  <2>2. \A g \in DOMAIN disk : g \in DOMAIN disk' /\ disk'[g] = disk[g]
    BY <2>1 DEF Opened
  <2>3. QED
    BY <1>1, <1>3, <2>2 DEF Covered, OnDisk
<1>4. CASE WriteFirst
  <2>1. expired' = expired /\ lost \subseteq lost'
    BY <1>4 DEF WriteFirst, Half, Store
  <2>2. ASSUME mirror.linked
        PROVE \A g \in DOMAIN disk : g \in DOMAIN disk' /\ Range(disk[g]) \subseteq Range(disk'[g])
    <3>1. /\ disk' = [disk EXCEPT ![mirror.file] = Append(disk[mirror.file], app.next)]
          /\ mirror.file \in DOMAIN disk
      BY <1>4, <2>2 DEF WriteFirst, Half, Store, LinkedIsThere
    <3>2. disk[mirror.file] \in Seq(Blocks) /\ app.next \in Blocks
      BY <3>1 DEF TypeInv, TypeOK, FilesType, LibraryType
    <3>3. Range(disk[mirror.file]) \subseteq Range(Append(disk[mirror.file], app.next))
      BY <3>2, RangeOfAppend
    <3>4. QED
      BY <3>1, <3>3
  <2>3. CASE mirror.linked
    BY <1>1, <2>1, <2>2, <2>3 DEF Covered, OnDisk
  <2>4. CASE ~mirror.linked
    <3>1. disk' = disk
      BY <1>4, <2>4 DEF WriteFirst, Half, Store
    <3>2. QED
      BY <1>1, <2>1, <3>1 DEF Covered, OnDisk
  <2>5. QED
    BY <2>3, <2>4
<1>5. CASE Expire
  <2>1. /\ lost' = lost /\ expired \subseteq expired'
        /\ \/ disk' = disk
           \/ \E f \in DOMAIN disk : /\ disk' = [g \in DOMAIN disk \ {f} |-> disk[g]]
                                     /\ Range(disk[f]) \subseteq expired'
    BY <1>5 DEF Expire
  <2>2. QED
    BY <1>1, <2>1 DEF Covered, OnDisk
<1>6. QED
  BY <1>2, <1>3, <1>4, <1>5, DiskSteps

LEMMA LinkedIsThereKept == TypeInv /\ LinkedIsThere /\ [Next]_vars => LinkedIsThere'
<1> SUFFICES ASSUME TypeInv, LinkedIsThere, [Next]_vars PROVE LinkedIsThere'
  OBVIOUS
<1>m. mirror \in Mirrors
  BY DEF TypeInv, TypeOK, LibraryType, Mirrors
<1>1. CASE OpenMirror
  BY <1>1 DEF OpenMirror, LinkedIsThere
<1>2. CASE NextFile
  BY <1>2, <1>m DEF NextFile, LinkedIsThere, Mirrors
<1>3. CASE Expire
  <2>1. CASE UNCHANGED disk
    BY <1>3, <2>1, <1>m DEF Expire, LinkedIsThere, Mirrors
  <2>2. CASE ~UNCHANGED disk
    <3>1. PICK f \in DOMAIN disk :
            /\ disk' = [g \in DOMAIN disk \ {f} |-> disk[g]]
            /\ mirror' = IF mirror.on /\ mirror.file = f
                         THEN [mirror EXCEPT !.linked = FALSE] ELSE mirror
            /\ job' = job
      BY <1>3, <2>2 DEF Expire
    <3>2. QED
      BY <3>1, <1>m DEF LinkedIsThere, Mirrors
  <2>3. QED
    BY <2>1, <2>2
<1>4. CASE WriteFirst
  BY <1>4 DEF WriteFirst, Half, Store, LinkedIsThere
<1>5. CASE UNCHANGED <<mirror, disk, job>>
  BY <1>5 DEF LinkedIsThere
<1>6. CASE ReportBegin \/ ReportEnd
  BY <1>6, <1>m DEF ReportBegin, ReportEnd, LinkedIsThere, Mirrors
<1>7. CASE WriteSecond
  BY <1>7, <1>m DEF WriteSecond, Half, Mark, LinkedIsThere, Mirrors
<1>8. CASE SendMirrored \/ ReportRemove
  BY <1>8 DEF SendMirrored, ReportRemove, LinkedIsThere
<1>9. CASE DropMirror \/ Destroy \/ Crash
  BY <1>9 DEF DropMirror, Destroy, Crash, NoMirror, LinkedIsThere
<1>10. CASE EventOff
  BY <1>10 DEF EventOff, NoMirror, LinkedIsThere
<1>11. QED
  BY <1>1, <1>2, <1>3, <1>4, <1>5, <1>6, <1>7, <1>8, <1>9, <1>10
  DEF Next, Library, Svc, CreateMirror, EventOn, SvcStart, RemoveRecord,
      SvcLeave, SvcCleanup, SvcEnd, OpenTransfer, SendPast, EndTransaction, CloseTransfer,
      SessionLost, ChangeDatabase, ChangeSession, SetMirrored, ServerCrash

LEMMA CoverInductive == TypeInv /\ CoverInv /\ [Next]_vars => SentAreCovered'
<1> SUFFICES ASSUME TypeInv, CoverInv, [Next]_vars PROVE SentAreCovered'
  OBVIOUS
<1>k. \A b : Covered(b) => Covered(b)'
  BY CoverageKept DEF CoverInv
<1>t. /\ app \in Apps /\ app.next \in Nat /\ app.done \in Int /\ curBlock \in Nat /\ FirstBlock \in Nat
      /\ FirstBlock > 0
  BY MirrorAssumption DEF TypeInv, TypeOK, LibraryType, FilesType, Blocks, Apps
<1>n. PICK n \in Nat : n = app.next
  BY <1>t
<1>c. /\ \A b \in FirstBlock .. app.next - 1 : Covered(b)'
      /\ \A b \in FirstBlock .. curBlock : Covered(b)'
      /\ app.done < app.next
      /\ job = "write2" => Covered(n)'
  BY <1>k, <1>n DEF CoverInv, SentAreCovered
<1> HIDE DEF Covered
\* Nothing is sent, or less.
<1>1. CASE /\ app'.next = app.next \/ app'.next = app.done + 1
           /\ app'.done = app.done \/ (app'.done = app.next - 1 /\ app'.next = app.next)
           /\ curBlock' = curBlock \/ curBlock' = 0
           /\ job' # "write2"
  BY <1>1, <1>c, <1>t DEF SentAreCovered
<1>2. CASE UNCHANGED <<app, curBlock, job>>
  BY <1>2, <1>c, <1>t, <1>n DEF SentAreCovered
<1>3. CASE SendPast
  <2>1. app'.next = app.next + 1 /\ app'.done = app.done /\ curBlock' = curBlock /\ job' # "write2"
    BY <1>3, <1>t DEF SendPast, Apps
  <2>2. Covered(n)'
    <3>1. CASE mirror.ok
      <4>1. app.next <= curBlock /\ app.next >= FirstBlock
        BY <1>3, <3>1 DEF SendPast, IsOld, TypeInv, TypeOK, LibraryType, Blocks
      <4>2. QED
        BY <4>1, <1>c, <1>t, <1>n
    <3>2. CASE ~mirror.ok
      BY <1>3, <3>2, <1>n DEF SendPast, Covered
    <3>3. QED
      BY <3>1, <3>2
  <2>3. QED
    BY <2>1, <2>2, <1>c, <1>t, <1>n DEF SentAreCovered
<1>4. CASE WriteFirst
  <2>1. UNCHANGED <<app, curBlock>>
    BY <1>4 DEF WriteFirst, Half, Store
  <2>2. Covered(n)'
    <3>1. CASE mirror.linked
      <4>1. /\ disk' = [disk EXCEPT ![mirror.file] = Append(disk[mirror.file], app.next)]
            /\ mirror.file \in DOMAIN disk
        BY <1>4, <3>1 DEF WriteFirst, Half, Store, LinkedIsThere, CoverInv
      <4>2. disk[mirror.file] \in Seq(Blocks) /\ app.next \in Blocks
        BY <4>1 DEF TypeInv, TypeOK, FilesType, LibraryType
      <4>3. app.next \in Range(disk'[mirror.file])
        BY <4>1, <4>2, RangeOfAppend
      <4>4. QED
        BY <4>1, <4>3, <2>1, <1>n DEF Covered, OnDisk
    <3>2. CASE ~mirror.linked
      BY <1>4, <3>2, <2>1, <1>n DEF WriteFirst, Half, Store, Covered
    <3>3. QED
      BY <3>1, <3>2
  <2>3. QED
    BY <2>1, <2>2, <1>c, <1>t, <1>n DEF SentAreCovered
<1>5. CASE WriteSecond
  <2>1. app'.next = app.next + 1 /\ app'.done = app.done /\ curBlock' = app.next /\ job' # "write2"
    BY <1>5, <1>t DEF WriteSecond, Half, Mark, Apps
  <2>2. Covered(n)'
    BY <1>5, <1>c DEF WriteSecond
  <2>3. QED
    BY <2>1, <2>2, <1>c, <1>t, <1>n DEF SentAreCovered
<1>6. CASE OpenTransfer
  <2>1. /\ app'.next = app.done + 1 /\ app'.done = app.done /\ UNCHANGED <<curBlock, job>>
        /\ app'.next <= app.next
    BY <1>6, <1>c, <1>t DEF OpenTransfer, Resend, Apps
  <2>2. app.done + 1 = n \/ app.done + 1 \in FirstBlock .. app.next - 1
    BY <1>c, <1>t, <1>n DEF Apps, Blocks
  <2>3. PICK m \in Nat : m = app.done + 1
    BY <2>2, <1>t
  <2>4. job' = "write2" => Covered(m)'
    BY <2>1, <2>2, <2>3, <1>c, <1>n
  <2>5. QED
    BY <2>1, <2>3, <2>4, <1>c, <1>t, <1>n DEF SentAreCovered
<1>7. CASE \E c \in BOOLEAN : EndTransaction(c)
  BY <1>7, <1>1, <1>t DEF EndTransaction, Resend, Apps
<1>8. CASE CreateMirror
  BY <1>8, <1>1, <1>t DEF CreateMirror, OpenMirror, LoadState, Apps
<1>9. CASE DropMirror \/ Destroy
  BY <1>9, <1>1, <1>t DEF DropMirror, Destroy, Apps
<1>10. CASE Crash
  BY <1>10, <1>1, <1>t DEF Crash, Apps
<1>11. CASE ServerCrash \/ CloseTransfer
  <2>1. app'.next = app.next /\ app'.done = app.done /\ UNCHANGED <<curBlock, job>>
    BY <1>11, <1>t DEF ServerCrash, CloseTransfer, Apps
  <2>2. QED
    BY <2>1, <1>c, <1>t, <1>n DEF SentAreCovered
<1>12. CASE EventOff \/ ReportRemove
  BY <1>12, <1>1, <1>2 DEF EventOff, ReportRemove
<1>13. CASE EventOn \/ ReportBegin \/ ReportEnd \/ NextFile \/ SendMirrored
  BY <1>13, <1>1, <1>2 DEF EventOn, OpenMirror, LoadState, ReportBegin, ReportEnd, NextFile, SendMirrored
<1>14. QED
  BY <1>2, <1>3, <1>4, <1>5, <1>6, <1>7, <1>8, <1>9, <1>10, <1>11, <1>12, <1>13
  DEF Next, Library, Svc, SvcStart, Expire, RemoveRecord, SvcLeave, SvcCleanup, SvcEnd,
      SessionLost, ChangeDatabase, ChangeSession, SetMirrored

LEMMA CoverCorrect == Spec => []CoverInv
<1>1. Init => CoverInv
  BY MirrorAssumption DEF Init, CoverInv, LinkedIsThere, SentAreCovered, NoMirror
<1>2. TypeInv /\ CoverInv /\ [Next]_vars => CoverInv'
  BY LinkedIsThereKept, CoverInductive DEF CoverInv
<1>3. QED
  BY <1>1, <1>2, TypeInductive, PTL DEF Spec

(* Committed blocks are mirrored: whatever crashes and whatever the        *)
(* operator does, a block that the receiver has committed is in a file, or *)
(* was in one that was deleted in time, or went past a mirror that was not *)
(* ready - as long as no block went into a file that was deleted already.  *)
(* In particular no block is taken for old that is not there.              *)
THEOREM CommittedMirrored == Spec => [](NoBlockIntoDeletedFile => CommittedAreMirrored)
<1>1. TypeInv /\ CoverInv => (NoBlockIntoDeletedFile => CommittedAreMirrored)
  <2> SUFFICES ASSUME TypeInv, CoverInv, lost = {}, NEW b \in FirstBlock .. app.done
               PROVE b \in passed \cup expired \cup UNION {Range(disk[f]) : f \in DOMAIN disk}
    BY DEF NoBlockIntoDeletedFile, CommittedAreMirrored
  <2>1. app.done \in Int /\ app.next \in Int /\ FirstBlock \in Int /\ app.done < app.next
    BY MirrorAssumption DEF TypeInv, TypeOK, LibraryType, Blocks, CoverInv, SentAreCovered
  <2>2. Covered(b)
    BY <2>1 DEF CoverInv, SentAreCovered
  <2>3. QED
    BY <2>2 DEF Covered, OnDisk
<1>2. QED
  BY <1>1, TypeInductive, CoverCorrect, PTL

-----------------------------------------------------------------------------
(* The order of the blocks, as long as the operator leaves the mirror as   *)
(* it is: there is no event of the server then, the session agrees with    *)
(* the database, and the maintainer has no order to leave.                 *)

Undisturbed == /\ mirrored = db /\ oper = "idle" /\ events = NoEvents
               /\ job # "remove" /\ ~maint.exit

(* The steps that are left.                                                *)
QuietNext ==
  \/ CreateMirror \/ ReportBegin \/ ReportEnd \/ NextFile \/ WriteFirst \/ WriteSecond
  \/ DropMirror \/ Destroy \/ SvcStart \/ Expire \/ RemoveRecord \/ SvcCleanup \/ SvcEnd
  \/ OpenTransfer \/ SendPast \/ SendMirrored \/ \E c \in BOOLEAN : EndTransaction(c)
  \/ CloseTransfer \/ Crash \/ SessionLost \/ ServerCrash

LEMMA QuietSteps ==
  ASSUME TypeInv, Undisturbed, [Next]_vars, count'.switch = 0
  PROVE UNCHANGED db /\ (QuietNext \/ UNCHANGED vars)
<1>c. count \in [crash : Nat, switch : Nat]
  BY DEF TypeInv, TypeOK, HistoryType
<1>1. ~ChangeDatabase
  BY <1>c DEF ChangeDatabase
<1>2. ~EventOn /\ ~EventOff /\ ~ReportRemove /\ ~ChangeSession /\ ~SetMirrored /\ ~SvcLeave
  BY DEF Undisturbed, NoEvents, EventOn, EventOff, ReportRemove, ChangeSession, SetMirrored, SvcLeave,
     LoopEnds
<1>3. QuietNext \/ UNCHANGED vars
  BY <1>1, <1>2 DEF Next, Library, Svc, QuietNext
<1>4. UNCHANGED db
  BY <1>3 DEF QuietNext, CreateMirror, ReportBegin, ReportEnd, NextFile, WriteFirst, WriteSecond, DropMirror,
     Destroy, SvcStart, Expire, RemoveRecord, SvcCleanup, SvcEnd, OpenTransfer, SendPast, SendMirrored,
     EndTransaction, CloseTransfer, Crash, SessionLost, ServerCrash
<1>5. QED
  BY <1>3, <1>4

LEMMA UndisturbedKept ==
  ASSUME TypeInv, Undisturbed, QuietNext \/ UNCHANGED vars
  PROVE Undisturbed'
<1>m. maint \in Maints
  BY DEF TypeInv, TypeOK, ServerType, Maints
<1>1. ~maint'.exit
  <2>1. CASE SvcStart \/ Expire \/ RemoveRecord \/ SvcCleanup \/ SvcEnd
    BY <2>1, <1>m DEF Undisturbed, SvcStart, Expire, RemoveRecord, SvcCleanup, SvcEnd, Maints
  <2>2. CASE ServerCrash
    BY <2>2 DEF ServerCrash
  <2>3. QED
    BY <2>1, <2>2 DEF Undisturbed, QuietNext, CreateMirror, ReportBegin, ReportEnd, NextFile, WriteFirst,
       WriteSecond, DropMirror, Destroy, OpenTransfer, SendPast, SendMirrored, EndTransaction,
       CloseTransfer, Crash, SessionLost
<1>2. mirrored' = db' /\ oper' = "idle" /\ events' = NoEvents /\ job' # "remove"
  BY DEF Undisturbed, QuietNext, CreateMirror, OpenMirror, ReportBegin, ReportEnd, NextFile, WriteFirst,
     WriteSecond, DropMirror, Destroy, SvcStart, Expire, RemoveRecord, SvcCleanup, SvcEnd, OpenTransfer,
     SendPast, SendMirrored, EndTransaction, CloseTransfer, Crash, SessionLost, ServerCrash
<1>3. QED
  BY <1>1, <1>2 DEF Undisturbed

(* The mirror that is written is the current file, the last one; the       *)
(* application that has the queue open has its mirror ready.               *)
CurrentIsLast ==
  /\ mirror.on => mirror.file = curFile
  /\ \A f \in DOMAIN disk : f <= curFile
MirrorIsReady ==
  /\ app.conn /\ app.pc \in {"create", "idle"} => attached
  /\ app.pc = "idle" /\ app.conn /\ db => mirror.ok
  /\ app.pc = "create" => db
  /\ ~db => ~mirror.ok

(* Work on the mirror is done by an application that sends, or that has    *)
(* just made the mirror.                                                   *)
Writing == {"switch", "next", "switched", "write1", "write2"}
WriterSends ==
  /\ job \in Writing => app.pc = "idle"
  /\ app.pc \in {"create", "down"} => job = "none"

LEMMA CurrentIsLastKept ==
  ASSUME TypeInv, CurrentIsLast, QuietNext \/ UNCHANGED vars
  PROVE CurrentIsLast'
<1>t. mirror \in Mirrors /\ curFile \in Nat /\ DOMAIN disk \subseteq Nat
  BY DEF TypeInv, TypeOK, LibraryType, FilesType, Files, Mirrors
<1>1. CASE CreateMirror
  BY <1>1, <1>t DEF CreateMirror, OpenMirror, CurrentIsLast
<1>2. CASE NextFile
  <2>1. mirror'.file = curFile'
    BY <1>2, <1>t DEF NextFile, Mirrors
  <2>2. \A f \in DOMAIN disk' : f <= curFile'
    BY <1>2, <1>t DEF NextFile, CurrentIsLast
  <2>3. QED
    BY <2>1, <2>2 DEF CurrentIsLast
<1>3. CASE WriteFirst
  BY <1>3 DEF WriteFirst, Half, Store, CurrentIsLast
<1>4. CASE WriteSecond
  BY <1>4, <1>t DEF WriteSecond, Half, Mark, CurrentIsLast, Mirrors
<1>5. CASE ReportBegin \/ ReportEnd
  BY <1>5, <1>t DEF ReportBegin, ReportEnd, CurrentIsLast, Mirrors
<1>6. CASE Expire
  <2>1. curFile' = curFile /\ DOMAIN disk' \subseteq DOMAIN disk
    BY <1>6 DEF Expire
  <2>2. mirror'.on = mirror.on /\ mirror'.file = mirror.file
    BY <1>6, <1>t DEF Expire, Mirrors
  <2>3. QED
    BY <2>1, <2>2 DEF CurrentIsLast
<1>7. CASE DropMirror \/ Destroy \/ Crash
  BY <1>7 DEF DropMirror, Destroy, Crash, NoMirror, CurrentIsLast
<1>8. CASE UNCHANGED <<mirror, disk, curFile>>
  BY <1>8 DEF CurrentIsLast
<1>9. QED
  BY <1>1, <1>2, <1>3, <1>4, <1>5, <1>6, <1>7, <1>8
  DEF QuietNext, SvcStart, RemoveRecord, SvcCleanup, SvcEnd, OpenTransfer, SendPast, SendMirrored,
      EndTransaction, CloseTransfer, SessionLost, ServerCrash

LEMMA WriterSendsKept ==
  ASSUME TypeInv, WriterSends, QuietNext \/ UNCHANGED vars
  PROVE WriterSends'
<1>t. app \in Apps /\ job \in Writing \cup {"none", "begin", "remove"}
  BY DEF TypeInv, TypeOK, LibraryType, Apps, Writing
<1>1. CASE UNCHANGED <<app, job>>
  BY <1>1 DEF WriterSends
<1>2. CASE CreateMirror
  BY <1>2, <1>t DEF CreateMirror, OpenMirror, WriterSends, Apps, Writing
<1>3. CASE ReportBegin \/ ReportEnd \/ NextFile \/ WriteFirst
  BY <1>3, <1>t DEF ReportBegin, ReportEnd, NextFile, WriteFirst, WriterSends, Writing
<1>4. CASE WriteSecond \/ SendPast \/ SendMirrored
  BY <1>4, <1>t DEF WriteSecond, SendPast, SendMirrored, WriterSends, Writing, Apps
<1>5. CASE DropMirror \/ Destroy \/ Crash
  BY <1>5, <1>t DEF DropMirror, Destroy, Crash, WriterSends, Writing, Apps
<1>6. CASE OpenTransfer
  BY <1>6, <1>t DEF OpenTransfer, WriterSends, Writing, Apps
<1>7. CASE \E c \in BOOLEAN : EndTransaction(c)
  BY <1>7, <1>t DEF EndTransaction, WriterSends, Writing, Apps
<1>8. CASE CloseTransfer \/ ServerCrash
  BY <1>8, <1>t DEF CloseTransfer, ServerCrash, WriterSends, Writing, Apps
<1>9. QED
  BY <1>1, <1>2, <1>3, <1>4, <1>5, <1>6, <1>7, <1>8
  DEF QuietNext, SvcStart, Expire, RemoveRecord, SvcCleanup, SvcEnd, SessionLost

LEMMA MirrorIsReadyKept ==
  ASSUME TypeInv, Undisturbed, MirrorIsReady, WriterSends, QuietNext \/ UNCHANGED vars, UNCHANGED db
  PROVE MirrorIsReady'
<1>t. app \in Apps /\ mirror \in Mirrors /\ {db, attached} \subseteq BOOLEAN
  BY DEF TypeInv, TypeOK, LibraryType, ServerType, Apps, Mirrors
<1>1. CASE UNCHANGED <<app, attached>> /\ mirror'.ok = mirror.ok
  BY <1>1 DEF MirrorIsReady
<1>2. CASE CreateMirror
  BY <1>2, <1>t DEF CreateMirror, OpenMirror, MirrorIsReady, Apps
<1>3. CASE ReportBegin
  <2>1. CASE Served /\ mirrored
    BY <1>3, <2>1, <1>1 DEF ReportBegin
  <2>2. CASE ~(Served /\ mirrored)
    <3>1. UNCHANGED <<app, attached>> /\ ~mirror'.ok
      BY <1>3, <2>2, <1>t DEF ReportBegin, Mirrors
    <3>2. ~(app.pc = "idle" /\ app.conn /\ db)
      BY <2>2 DEF Served, MirrorIsReady, Undisturbed
    <3>3. QED
      BY <3>1, <3>2 DEF MirrorIsReady
  <2>3. QED
    BY <2>1, <2>2
<1>4. CASE ReportEnd \/ NextFile \/ Expire
  BY <1>4, <1>t, <1>1 DEF ReportEnd, NextFile, Expire, Mirrors
<1>5. CASE WriteSecond \/ SendPast
  BY <1>5, <1>t DEF WriteSecond, SendPast, Mirrors, Apps, MirrorIsReady
<1>6. CASE DropMirror \/ Destroy \/ Crash
  <2>1. ~mirror'.ok /\ attached' = attached
    BY <1>6 DEF DropMirror, Destroy, Crash, NoMirror
  <2>2. app'.pc \in {"joining", "down"}
    BY <1>6, <1>t DEF DropMirror, Destroy, Crash, Apps
  <2>3. QED
    BY <2>1, <2>2 DEF MirrorIsReady
<1>7. CASE OpenTransfer
  BY <1>7, <1>t DEF OpenTransfer, Apps, MirrorIsReady
<1>8. CASE \E c \in BOOLEAN : EndTransaction(c)
  BY <1>8, <1>t DEF EndTransaction, Apps, MirrorIsReady
<1>9. CASE CloseTransfer \/ SessionLost \/ ServerCrash
  BY <1>9, <1>t DEF CloseTransfer, SessionLost, ServerCrash, Apps, MirrorIsReady
<1>10. QED
  BY <1>1, <1>2, <1>3, <1>4, <1>5, <1>6, <1>7, <1>8, <1>9
  DEF QuietNext, WriteFirst, SvcStart, RemoveRecord, SvcCleanup, SvcEnd, SendMirrored

QuietParts == Undisturbed /\ CurrentIsLast /\ MirrorIsReady /\ WriterSends
QuietInv   == count.switch = 0 => QuietParts

(* What a step is, while the operator has not switched the mirror.         *)
LEMMA QuietStep ==
  ASSUME TypeInv, QuietInv, [Next]_vars, count'.switch = 0
  PROVE count.switch = 0 /\ QuietParts /\ UNCHANGED db /\ (QuietNext \/ UNCHANGED vars)
<1>1. count.switch = 0
  <2>1. count \in [crash : Nat, switch : Nat]
    BY DEF TypeInv, TypeOK, HistoryType
  <2>2. CASE ChangeDatabase
    BY <2>1, <2>2 DEF ChangeDatabase
  <2>3. CASE Crash \/ ServerCrash
    BY <2>1, <2>3 DEF Crash, ServerCrash
  <2>4. QED
    BY <2>2, <2>3
    DEF Next, Library, Svc, CreateMirror, EventOn, EventOff, ReportBegin, ReportEnd, NextFile,
        WriteFirst, WriteSecond, DropMirror, Destroy, ReportRemove, SvcStart, Expire, RemoveRecord,
        SvcLeave, SvcCleanup, SvcEnd, OpenTransfer, SendPast, SendMirrored, EndTransaction,
        CloseTransfer, SessionLost, ChangeSession, SetMirrored
<1>2. QED
  BY <1>1, QuietSteps DEF QuietInv, QuietParts

LEMMA QuietCorrect == Spec => []QuietInv
<1>1. Init => QuietInv
  BY DEF Init, QuietInv, QuietParts, Undisturbed, CurrentIsLast, MirrorIsReady, WriterSends, Writing, NoMirror
<1>2. TypeInv /\ QuietInv /\ [Next]_vars => QuietInv'
  <2> SUFFICES ASSUME TypeInv, QuietInv, [Next]_vars, count'.switch = 0 PROVE QuietParts'
    BY DEF QuietInv
  <2>1. QuietParts /\ UNCHANGED db /\ (QuietNext \/ UNCHANGED vars)
    BY QuietStep
  <2>2. QED
    BY <2>1, UndisturbedKept, CurrentIsLastKept, WriterSendsKept, MirrorIsReadyKept DEF QuietParts
<1>3. QED
  BY <1>1, <1>2, TypeInductive, PTL DEF Spec

(* The last block whose number is in the state file; before the first one  *)
(* of the run, the block before it.                                        *)
LastMarked == IF curBlock < FirstBlock THEN FirstBlock - 1 ELSE curBlock

(* The blocks follow each other: while the mirror is written, the next     *)
(* block is the one after the last; the application never continues beyond *)
(* it, and no block beyond it is in a file.                                *)
NextFollowsLast ==
  /\ db => app.done <= LastMarked
  /\ mirror.ok \/ app.pc = "create" => app.next <= LastMarked + 1
  /\ job \in Writing => app.next = LastMarked + 1
NoneBeyond == \A f \in DOMAIN disk : \A i \in DOMAIN disk[f] : disk[f][i] <= LastMarked + 1

Ordered ==
  \A f, g \in DOMAIN disk : \A i \in DOMAIN disk[f], j \in DOMAIN disk[g] :
     f < g \/ (f = g /\ i < j) => disk[f][i] <= disk[g][j]

(* The application's numbers start past 1: blocks 0 and 1 are never taken  *)
(* for old, and can be written again after later ones.                     *)
NumbersPastOne == FirstBlock > 1

LEMMA NextFollowsLastKept ==
  ASSUME NumbersPastOne, TypeInv, MirrorIsReady, WriterSends, NextFollowsLast,
         QuietNext \/ UNCHANGED vars, UNCHANGED db
  PROVE NextFollowsLast'
<1>t. /\ app \in Apps /\ mirror \in Mirrors /\ {db, attached} \subseteq BOOLEAN
      /\ job \in Writing \cup {"none", "begin", "remove"}
  BY DEF TypeInv, TypeOK, LibraryType, ServerType, Apps, Mirrors, Writing
<1>n. /\ app.next \in Nat /\ app.next >= FirstBlock /\ app.done \in Int /\ curBlock \in Nat
      /\ FirstBlock \in Nat /\ LastMarked \in Int /\ LastMarked >= curBlock
  BY <1>t, MirrorAssumption DEF Apps, Blocks, TypeInv, TypeOK, FilesType, LastMarked
<1>1. CASE UNCHANGED <<app, job, curBlock>> /\ (mirror'.ok => mirror.ok)
  BY <1>1 DEF NextFollowsLast, LastMarked
<1>2. CASE SendPast
  <2>1. /\ app'.next = app.next + 1 /\ app'.done = app.done /\ app'.pc = "idle" /\ job' = "none"
        /\ UNCHANGED <<mirror, curBlock>>
    BY <1>2, <1>t DEF SendPast, Apps
  <2>2. mirror.ok => app.next <= LastMarked
    BY <1>2, <1>n DEF SendPast, IsOld
  <2>3. LastMarked' = LastMarked
    BY <2>1 DEF LastMarked
  <2> HIDE DEF LastMarked
  <2>4. QED
    BY <2>1, <2>2, <2>3, <1>n DEF NextFollowsLast, Writing
<1>3. CASE SendMirrored
  <2>1. /\ UNCHANGED <<app, mirror, curBlock>> /\ mirror.ok /\ app.pc = "idle"
        /\ app.next > curBlock
    BY <1>3, <1>n DEF SendMirrored, IsOld, NumbersPastOne
  <2>2. app.next = LastMarked + 1
    BY <2>1, <1>n DEF NextFollowsLast, LastMarked
  <2>3. QED
    BY <2>1, <2>2 DEF NextFollowsLast, LastMarked
<1>4. CASE WriteSecond
  <2>1. /\ app'.next = app.next + 1 /\ app'.done = app.done /\ curBlock' = app.next
        /\ job' = "none" /\ app.next = LastMarked + 1
    BY <1>4, <1>t DEF WriteSecond, Half, Mark, Apps, NextFollowsLast, Writing
  <2>2. LastMarked' = app.next
    BY <2>1, <1>n DEF LastMarked
  <2> HIDE DEF LastMarked
  <2>3. QED
    BY <2>1, <2>2, <1>n DEF NextFollowsLast, Writing
<1>5. CASE OpenTransfer
  <2>1. /\ app'.next = app.done + 1 /\ app'.done = app.done /\ UNCHANGED <<mirror, curBlock, job>>
        /\ app'.pc = "create" => db
        /\ job = "none"
    BY <1>5, <1>t DEF OpenTransfer, Resend, Apps, WriterSends
  <2>2. mirror.ok => db
    BY DEF MirrorIsReady
  <2>3. LastMarked' = LastMarked
    BY <2>1 DEF LastMarked
  <2> HIDE DEF LastMarked
  <2>4. QED
    BY <2>1, <2>2, <2>3, <1>n DEF NextFollowsLast, Writing
<1>6. CASE CreateMirror
  <2>1. /\ app'.next = app.next /\ app'.done = app.done /\ curBlock' = curBlock
        /\ app.pc = "create" /\ app'.pc = "idle" /\ job' = "begin"
    BY <1>6, <1>t DEF CreateMirror, OpenMirror, LoadState, Apps
  <2>2. QED
    BY <2>1 DEF NextFollowsLast, Writing, LastMarked
<1>7. CASE \E c \in BOOLEAN : EndTransaction(c)
  <2>1. /\ app'.pc = app.pc /\ app.pc = "idle" /\ app.conn /\ UNCHANGED <<mirror, curBlock, job>>
        /\ job = "none"
        /\ \/ app'.done = app.next - 1 /\ app'.next = app.next
           \/ app'.done = app.done /\ app'.next = app.done + 1
    BY <1>7, <1>t DEF EndTransaction, Served, Resend, Apps
  <2>2. db <=> mirror.ok
    BY <2>1, <1>t DEF MirrorIsReady
  <2>3. LastMarked' = LastMarked
    BY <2>1 DEF LastMarked
  <2> HIDE DEF LastMarked
  <2>4. QED
    BY <2>1, <2>2, <2>3, <1>n DEF NextFollowsLast, Writing
<1>8. CASE \/ DropMirror \/ Destroy \/ Crash
  <2>1. /\ app'.next = app.next /\ app'.done = app.done /\ curBlock' = curBlock
        /\ job' = "none" /\ app'.pc # "create" /\ ~mirror'.ok
    <3>1. CASE DropMirror
      BY <3>1, <1>t DEF DropMirror, NoMirror, Apps
    <3>2. CASE Destroy
      BY <3>2, <1>t DEF Destroy, NoMirror, Apps
    <3>3. CASE Crash
      BY <3>3, <1>t DEF Crash, NoMirror, Apps
    <3>4. QED
      BY <1>8, <3>1, <3>2, <3>3
  <2>2. QED
    BY <2>1 DEF NextFollowsLast, Writing, LastMarked
<1>9. CASE CloseTransfer \/ ServerCrash
  <2>1. /\ app'.next = app.next /\ app'.done = app.done /\ UNCHANGED <<mirror, curBlock, job>>
        /\ app'.pc = "create" => app.pc = "create"
    BY <1>9, <1>t DEF CloseTransfer, ServerCrash, Apps
  <2>2. QED
    BY <2>1 DEF NextFollowsLast, Writing, LastMarked
<1>10. CASE ReportBegin \/ ReportEnd \/ NextFile \/ WriteFirst
  <2>1. /\ UNCHANGED <<app, curBlock>> /\ (mirror'.ok => mirror.ok)
        /\ job' \in Writing => job \in Writing
    BY <1>10, <1>t DEF ReportBegin, ReportEnd, NextFile, WriteFirst, Half, Store, Writing, Mirrors
  <2>2. QED
    BY <2>1 DEF NextFollowsLast, LastMarked
<1>11. CASE Expire
  BY <1>11, <1>1, <1>t DEF Expire, Mirrors
<1>12. QED
  BY <1>1, <1>2, <1>3, <1>4, <1>5, <1>6, <1>7, <1>8, <1>9, <1>10, <1>11
  DEF QuietNext, SvcStart, RemoveRecord, SvcCleanup, SvcEnd, SessionLost

\* A step that writes no block leaves the order, and the bound, as they are.
LEMMA OrderKept ==
  ASSUME TypeInv, LinkedIsThere, CurrentIsLast, NextFollowsLast, NoneBeyond, Ordered,
         QuietNext \/ UNCHANGED vars
  PROVE NoneBeyond' /\ Ordered'
<1>n. /\ app.next \in Nat /\ curBlock \in Nat /\ FirstBlock \in Nat /\ LastMarked \in Int
      /\ curFile \in Nat /\ DOMAIN disk \subseteq Nat
      /\ \A f \in DOMAIN disk : disk[f] \in Seq(Blocks)
  BY MirrorAssumption DEF TypeInv, TypeOK, LibraryType, FilesType, LastMarked, Blocks, Files
<1>b. \A f \in DOMAIN disk : \A i \in DOMAIN disk[f] : disk[f][i] \in Int
  <2>1. ASSUME NEW f \in DOMAIN disk, NEW i \in DOMAIN disk[f] PROVE disk[f][i] \in Int
    <3>1. disk[f] \in Seq(Blocks)
      BY <1>n
    <3>2. disk[f][i] \in Blocks
      BY <3>1
    <3>3. QED
      BY <3>2 DEF Blocks
  <2>2. QED
    BY <2>1
<1>1. CASE WriteFirst /\ mirror.linked
  <2>1. /\ curFile \in DOMAIN disk /\ mirror.file = curFile
        /\ disk' = [disk EXCEPT ![curFile] = Append(disk[curFile], app.next)]
        /\ app.next = LastMarked + 1 /\ LastMarked' = LastMarked
    BY <1>1 DEF WriteFirst, Half, Store, LinkedIsThere, CurrentIsLast, NextFollowsLast, Writing, LastMarked
  <2> HIDE DEF LastMarked
  <2>2. /\ DOMAIN disk' = DOMAIN disk
        /\ \A f \in DOMAIN disk \ {curFile} : disk'[f] = disk[f]
    BY <2>1
  <2> DEFINE n == Len(disk[curFile]) + 1
  <2>3. /\ n \in Nat /\ DOMAIN disk[curFile] = 1 .. n - 1
        /\ DOMAIN disk'[curFile] = 1 .. n
        /\ \A i \in 1 .. n - 1 : disk'[curFile][i] = disk[curFile][i]
        /\ disk'[curFile][n] = app.next
    <3>1. disk[curFile] \in Seq(Blocks) /\ app.next \in Blocks
      BY <1>n, <2>1 DEF TypeInv, TypeOK, LibraryType
    <3>2. disk'[curFile] = Append(disk[curFile], app.next)
      BY <2>1
    <3>3. QED
      BY <3>1, <3>2
  <2> HIDE DEF n
  <2>4. \A f \in DOMAIN disk' : \A i \in DOMAIN disk'[f] :
           \/ i \in DOMAIN disk[f] /\ disk'[f][i] = disk[f][i]
           \/ f = curFile /\ i = n /\ disk'[f][i] = LastMarked + 1
    <3>1. \A i \in 1 .. n : i \in 1 .. n - 1 \/ i = n
      BY <2>3
    <3>2. QED
      BY <2>1, <2>2, <2>3, <3>1
  <2>5. NoneBeyond'
    BY <2>1, <2>2, <2>4, <1>n DEF NoneBeyond
  <2>6. ASSUME NEW f \in DOMAIN disk', NEW g \in DOMAIN disk',
               NEW i \in DOMAIN disk'[f], NEW j \in DOMAIN disk'[g], f < g \/ (f = g /\ i < j)
        PROVE disk'[f][i] <= disk'[g][j]
    <3>1. CASE g = curFile /\ j = n
      BY <2>1, <2>5, <3>1, <2>3 DEF NoneBeyond
    <3>2. CASE ~(g = curFile /\ j = n)
      <4>1. j \in DOMAIN disk[g] /\ disk'[g][j] = disk[g][j]
        BY <2>4, <3>2
      <4>2. ~(f = curFile /\ i = n)
        <5>1. SUFFICES ASSUME f = curFile, i = n PROVE FALSE
          OBVIOUS
        <5>2. g <= curFile /\ g \in Nat
          BY <2>2, <1>n DEF CurrentIsLast
        <5>3. g = curFile /\ n < j
          BY <2>6, <5>1, <5>2, <1>n
        <5>4. QED
          BY <5>3, <2>3
      <4>3. i \in DOMAIN disk[f] /\ disk'[f][i] = disk[f][i]
        BY <2>4, <4>2
      <4>4. QED
        BY <4>1, <4>3, <2>2, <2>6 DEF Ordered
    <3>3. QED
      BY <3>1, <3>2
  <2>7. QED
    BY <2>5, <2>6 DEF Ordered
<1>2. CASE /\ LastMarked <= LastMarked'
           /\ \A f \in DOMAIN disk' : disk'[f] = << >> \/ (f \in DOMAIN disk /\ disk'[f] = disk[f])
           /\ LastMarked' \in Int
  <2>1. \A f \in DOMAIN disk' : \A i \in DOMAIN disk'[f] : f \in DOMAIN disk /\ disk'[f] = disk[f]
    BY <1>2
  <2> HIDE DEF LastMarked
  <2>2. NoneBeyond'
    BY <1>2, <2>1, <1>n, <1>b DEF NoneBeyond
  <2>3. QED
    BY <2>1, <2>2 DEF Ordered
<1>3. CASE UNCHANGED <<curBlock, disk>>
  BY <1>2, <1>3, <1>n DEF LastMarked
<1>4. CASE CreateMirror \/ NextFile \/ Expire
  <2>1. curBlock' = curBlock
    BY <1>4 DEF CreateMirror, OpenMirror, LoadState, NextFile, Expire
  <2>2. \A f \in DOMAIN disk' : disk'[f] = << >> \/ (f \in DOMAIN disk /\ disk'[f] = disk[f])
    BY <1>4 DEF CreateMirror, OpenMirror, NextFile, Expire
  <2>3. QED
    BY <1>2, <2>1, <2>2, <1>n DEF LastMarked
<1>5. CASE WriteSecond
  <2>1. /\ UNCHANGED disk /\ curBlock' = app.next /\ app.next = LastMarked + 1
    BY <1>5 DEF WriteSecond, Half, Mark, NextFollowsLast, Writing
  <2>2. LastMarked <= LastMarked' /\ LastMarked' \in Int
    BY <2>1, <1>n DEF LastMarked
  <2>3. QED
    BY <1>2, <2>1, <2>2
<1>6. CASE WriteFirst /\ ~mirror.linked
  BY <1>6, <1>3 DEF WriteFirst, Half, Store
<1>7. QED
  BY <1>1, <1>3, <1>4, <1>5, <1>6
  DEF QuietNext, ReportBegin, ReportEnd, DropMirror, Destroy, SvcStart, RemoveRecord, SvcCleanup, SvcEnd,
      OpenTransfer, SendPast, SendMirrored, EndTransaction, CloseTransfer, Crash, SessionLost, ServerCrash

(* The inductive invariant of the order.                                   *)
OrderInv == count.switch = 0 => NextFollowsLast /\ NoneBeyond /\ Ordered

LEMMA OrderInductive ==
  ASSUME NumbersPastOne, TypeInv, LinkedIsThere, QuietInv, OrderInv, [Next]_vars
  PROVE OrderInv'
<1> SUFFICES ASSUME count'.switch = 0 PROVE (NextFollowsLast /\ NoneBeyond /\ Ordered)'
  BY DEF OrderInv
<1>1. /\ count.switch = 0 /\ QuietParts /\ UNCHANGED db /\ (QuietNext \/ UNCHANGED vars)
      /\ NextFollowsLast /\ NoneBeyond /\ Ordered
  BY QuietStep DEF OrderInv
<1>2. QED
  BY <1>1, NextFollowsLastKept, OrderKept DEF QuietParts

(* The files, one after the other, hold the blocks in order, over crashes  *)
(* of the application and of the server, until the operator switches the   *)
(* mirror: a block that is written again comes right after itself.         *)
THEOREM MirrorInOrder ==
  ASSUME NumbersPastOne
  PROVE Spec => []BlocksInOrder
<1>1. Init => OrderInv
  BY MirrorAssumption
  DEF Init, OrderInv, NextFollowsLast, LastMarked, Writing, NoMirror, NoneBeyond, Ordered
<1>2. TypeInv /\ CoverInv /\ QuietInv /\ OrderInv /\ [Next]_vars => OrderInv'
  BY NumbersPastOne, OrderInductive DEF CoverInv
<1>3. OrderInv => BlocksInOrder
  BY DEF OrderInv, Ordered, BlocksInOrder
<1>4. QED
  BY <1>1, <1>2, <1>3, TypeInductive, CoverCorrect, QuietCorrect, PTL DEF Spec

-----------------------------------------------------------------------------
(* No block goes into a file that was deleted, while the operator leaves   *)
(* the mirror as it is and there is one crash at most.  The current file   *)
(* is in the maintainer's list of closed files between the report that it  *)
(* is full and the step to the next one; an application that dies in       *)
(* between leaves it there, and its successor opens it again.              *)

MirrorOfQueue ==
  /\ mirror.on => db /\ app.pc # "down"
  /\ job = "switch" => mirror.bytes >= FileBlocks

(* The file holds what the library has counted.                            *)
BytesAreThere ==
  mirror.linked =>
    /\ mirror.bytes <= Len(disk[mirror.file])
    /\ job = "write2" => mirror.bytes < Len(disk[mirror.file])

(* The maintainer's queue is on disk too; it has no record of a file to    *)
(* come, and one at most of a file that is there.                          *)
OneRecord(q) ==
  /\ \A f \in Known(q) : f <= curFile
  /\ \A i, j \in DOMAIN q.closed : q.closed[i] = q.closed[j] => i = j
  /\ \A f \in q.opened : f \notin Range(q.closed)
RecordsAreSaved ==
  /\ saved = queue /\ OneRecord(queue)
  /\ db => maint.open /\ maint.phase \notin {"leaving", "ending"}
  /\ ~db => maint.phase = "off" /\ queue = NoRecords

LEMMA MirrorOfQueueKept ==
  ASSUME TypeInv, MirrorIsReady, MirrorOfQueue, QuietNext \/ UNCHANGED vars, UNCHANGED db
  PROVE MirrorOfQueue'
<1>t. app \in Apps /\ mirror \in Mirrors
  BY DEF TypeInv, TypeOK, LibraryType, Apps, Mirrors
<1>1. CASE UNCHANGED <<app, mirror, job>>
  BY <1>1 DEF MirrorOfQueue
<1>2. CASE CreateMirror
  BY <1>2, <1>t DEF CreateMirror, OpenMirror, MirrorIsReady, MirrorOfQueue, Apps
<1>3. CASE ReportBegin \/ ReportEnd \/ NextFile
  BY <1>3, <1>t DEF ReportBegin, ReportEnd, NextFile, MirrorOfQueue, Mirrors
<1>4. CASE WriteFirst \/ SendMirrored
  BY <1>4, <1>t DEF WriteFirst, SendMirrored, MirrorOfQueue, Mirrors
<1>5. CASE WriteSecond
  BY <1>5, <1>t DEF WriteSecond, MirrorOfQueue, Mirrors, Apps
<1>6. CASE DropMirror \/ Destroy \/ Crash
  BY <1>6, <1>t DEF DropMirror, Destroy, Crash, NoMirror, MirrorOfQueue
<1>7. CASE Expire
  BY <1>7, <1>t DEF Expire, MirrorOfQueue, Mirrors
<1>8. CASE OpenTransfer \/ SendPast
  BY <1>8, <1>t DEF OpenTransfer, SendPast, MirrorOfQueue, Apps
<1>9. CASE \E c \in BOOLEAN : EndTransaction(c)
  BY <1>9, <1>t DEF EndTransaction, MirrorOfQueue, Apps
<1>10. CASE CloseTransfer \/ ServerCrash
  BY <1>10, <1>t DEF CloseTransfer, ServerCrash, MirrorOfQueue, Apps
<1>11. QED
  BY <1>1, <1>2, <1>3, <1>4, <1>5, <1>6, <1>7, <1>8, <1>9, <1>10
  DEF QuietNext, SvcStart, RemoveRecord, SvcCleanup, SvcEnd, SessionLost

LEMMA BytesAreThereKept ==
  ASSUME TypeInv, LinkedIsThere, BytesAreThere, QuietNext \/ UNCHANGED vars
  PROVE BytesAreThere'
<1>t. /\ mirror \in Mirrors /\ curFile \in Nat
      /\ \A f \in DOMAIN disk : disk[f] \in Seq(Blocks) /\ Len(disk[f]) \in Nat
      /\ app.next \in Blocks
  BY DEF TypeInv, TypeOK, LibraryType, FilesType, Files, Mirrors
<1>1. CASE UNCHANGED <<mirror, disk>> /\ job' # "write2"
  BY <1>1 DEF BytesAreThere
<1>2. CASE UNCHANGED <<mirror, disk, job>>
  BY <1>2 DEF BytesAreThere
<1>3. CASE CreateMirror
  <2>1. /\ mirror'.file = curFile /\ job' = "begin" /\ curFile \in DOMAIN disk'
        /\ mirror'.bytes = IF curFile \in DOMAIN disk THEN Len(disk[curFile]) ELSE 0
        /\ disk'[curFile] = IF curFile \in DOMAIN disk THEN disk[curFile] ELSE << >>
    BY <1>3 DEF CreateMirror, OpenMirror
  <2>2. mirror'.bytes = Len(disk'[curFile]) /\ mirror'.bytes \in Nat
    BY <2>1, <1>t
  <2>3. QED
    BY <2>1, <2>2 DEF BytesAreThere
<1>4. CASE NextFile
  <2>1. mirror'.file = curFile + 1 /\ mirror'.bytes = 0 /\ job' = "switched"
    BY <1>4, <1>t DEF NextFile, Mirrors
  <2>2. disk'[curFile + 1] = IF curFile + 1 \in DOMAIN disk THEN disk[curFile + 1] ELSE << >>
    BY <1>4 DEF NextFile
  <2>3. Len(disk'[curFile + 1]) \in Nat
    BY <2>2, <1>t
  <2>4. QED
    BY <2>1, <2>3 DEF BytesAreThere
<1>5. CASE WriteFirst
  <2>1. CASE mirror.linked
    <3>1. /\ UNCHANGED mirror /\ mirror.file \in DOMAIN disk
          /\ disk'[mirror.file] = Append(disk[mirror.file], app.next)
      BY <1>5, <2>1 DEF WriteFirst, Half, Store, LinkedIsThere
    <3>2. Len(disk'[mirror.file]) = Len(disk[mirror.file]) + 1
      BY <3>1, <1>t
    <3>3. mirror.bytes \in Nat /\ Len(disk[mirror.file]) \in Nat
      BY <3>1, <1>t DEF Mirrors
    <3>4. QED
      BY <2>1, <3>1, <3>2, <3>3 DEF BytesAreThere
  <2>2. CASE ~mirror.linked
    BY <1>5, <2>2 DEF WriteFirst, BytesAreThere
  <2>3. QED
    BY <2>1, <2>2
<1>6. CASE WriteSecond
  <2>1. /\ mirror'.bytes = mirror.bytes + 1 /\ mirror'.file = mirror.file /\ mirror'.linked = mirror.linked
        /\ UNCHANGED disk /\ job' = "none" /\ job = "write2"
    BY <1>6, <1>t DEF WriteSecond, Half, Mark, Mirrors
  <2>2. mirror.linked => mirror.bytes \in Nat /\ Len(disk[mirror.file]) \in Nat
    BY <1>t DEF LinkedIsThere, Mirrors
  <2>3. QED
    BY <2>1, <2>2 DEF BytesAreThere
<1>7. CASE ReportEnd
  <2>1. CASE Served /\ mirrored
    BY <1>7, <2>1, <1>1 DEF ReportEnd
  <2>2. CASE ~(Served /\ mirrored)
    <3>1. /\ mirror'.bytes = 0 /\ mirror'.file = mirror.file /\ mirror'.linked = mirror.linked
          /\ UNCHANGED disk /\ job' = "write1"
      BY <1>7, <2>2, <1>t DEF ReportEnd, Mirrors
    <3>2. mirror.linked => Len(disk[mirror.file]) \in Nat
      BY <1>t DEF LinkedIsThere
    <3>3. QED
      BY <3>1, <3>2 DEF BytesAreThere
  <2>3. QED
    BY <2>1, <2>2
<1>8. CASE ReportBegin
  <2>1. /\ mirror'.bytes = mirror.bytes /\ mirror'.file = mirror.file /\ mirror'.linked = mirror.linked
        /\ UNCHANGED disk /\ job' \in {"none", "write1"}
    BY <1>8, <1>t DEF ReportBegin, Mirrors
  <2>2. QED
    BY <2>1 DEF BytesAreThere
<1>9. CASE Expire
  <2>1. /\ mirror'.bytes = mirror.bytes /\ mirror'.file = mirror.file /\ UNCHANGED job
        /\ \/ UNCHANGED <<disk, mirror>>
           \/ \E f \in DOMAIN disk : /\ disk' = [g \in DOMAIN disk \ {f} |-> disk[g]]
                                     /\ mirror'.linked => mirror.linked /\ ~(mirror.on /\ mirror.file = f)
    BY <1>9, <1>t DEF Expire, Mirrors
  <2>2. QED
    BY <2>1, <1>t DEF BytesAreThere, LinkedIsThere
<1>10. CASE DropMirror \/ Destroy \/ Crash
  BY <1>10 DEF DropMirror, Destroy, Crash, NoMirror, BytesAreThere
<1>11. CASE SendMirrored
  BY <1>11, <1>1 DEF SendMirrored
<1>12. QED
  BY <1>2, <1>3, <1>4, <1>5, <1>6, <1>7, <1>8, <1>9, <1>10, <1>11
  DEF QuietNext, SvcStart, RemoveRecord, SvcCleanup, SvcEnd, OpenTransfer, SendPast, EndTransaction,
      CloseTransfer, SessionLost, ServerCrash

LEMMA RangeOfTail ==
  ASSUME NEW S, NEW s \in Seq(S), s # << >>
  PROVE /\ Range(Tail(s)) \subseteq Range(s)
        /\ \A i \in DOMAIN Tail(s) : i + 1 \in DOMAIN s /\ Tail(s)[i] = s[i + 1]
        /\ DOMAIN Tail(s) \subseteq Nat /\ 1 \in DOMAIN s /\ Head(s) = s[1]
<1>1. /\ Len(s) \in Nat /\ Len(s) > 0 /\ DOMAIN s = 1 .. Len(s)
      /\ DOMAIN Tail(s) = 1 .. Len(s) - 1
      /\ \A i \in 1 .. Len(s) - 1 : Tail(s)[i] = s[i + 1]
  BY EmptySeq, HeadTailProperties
<1>2. \A i \in DOMAIN Tail(s) : i + 1 \in DOMAIN s /\ Tail(s)[i] = s[i + 1]
  BY <1>1
<1>3. QED
  BY <1>1, <1>2 DEF Range

\* A record is made of the current file only, when there is none.
LEMMA OneRecordKept ==
  ASSUME NEW q \in Queues, OneRecord(q), curFile \in Files
  PROVE /\ curFile \notin Known(q) => OneRecord(Append1(q, curFile))
        /\ OneRecord(Change(q, curFile))
        /\ q.closed # << >> => OneRecord([q EXCEPT !.closed = Tail(@)])
<1>t. q.closed \in Seq(Files) /\ q.opened \subseteq Files /\ curFile \in Nat
  BY DEF Queues, Files
<1>1. curFile \notin Known(q) => OneRecord(Append1(q, curFile))
  <2>1. Append1(q, curFile).closed = q.closed /\ Append1(q, curFile).opened = q.opened \cup {curFile}
    BY DEF Append1, Queues
  <2>2. QED
    BY <2>1, <1>t DEF OneRecord, Known
<1>2. OneRecord(Change(q, curFile))
  <2>1. CASE curFile \in q.opened
    <3> DEFINE c == Append(q.closed, curFile)
    <3>1. Change(q, curFile) = [opened |-> q.opened \ {curFile}, closed |-> c]
      BY <2>1 DEF Change
    <3>2. Range(c) = Range(q.closed) \cup {curFile}
      BY <1>t, RangeOfAppend
    <3>3. /\ Len(q.closed) \in Nat /\ DOMAIN q.closed = 1 .. Len(q.closed)
          /\ DOMAIN c = 1 .. Len(q.closed) + 1
          /\ \A i \in 1 .. Len(q.closed) : c[i] = q.closed[i]
          /\ c[Len(q.closed) + 1] = curFile
      BY <1>t
    <3>4. \A i \in DOMAIN q.closed : q.closed[i] # curFile
      BY <2>1 DEF OneRecord, Range
    <3>5. \A i \in DOMAIN c : \/ i \in DOMAIN q.closed /\ c[i] = q.closed[i] /\ c[i] # curFile
                              \/ i = Len(q.closed) + 1 /\ c[i] = curFile
      <4>1. \A i \in DOMAIN c : i \in 1 .. Len(q.closed) \/ i = Len(q.closed) + 1
        BY <3>3
      <4>2. QED
        BY <4>1, <3>3, <3>4
    <3> HIDE DEF c
    <3>6. \A i, j \in DOMAIN c : c[i] = c[j] => i = j
      BY <3>5 DEF OneRecord
    <3>7. QED
      BY <3>1, <3>2, <3>6, <1>t, <2>1 DEF OneRecord, Known
  <2>2. CASE curFile \notin q.opened
    BY <2>2 DEF Change
  <2>3. QED
    BY <2>1, <2>2
<1>3. ASSUME q.closed # << >> PROVE OneRecord([q EXCEPT !.closed = Tail(@)])
  <2>1. /\ [q EXCEPT !.closed = Tail(@)].closed = Tail(q.closed)
        /\ [q EXCEPT !.closed = Tail(@)].opened = q.opened
    BY DEF Queues
  <2>2. /\ Range(Tail(q.closed)) \subseteq Range(q.closed)
        /\ \A i \in DOMAIN Tail(q.closed) : i + 1 \in DOMAIN q.closed /\ Tail(q.closed)[i] = q.closed[i + 1]
        /\ DOMAIN Tail(q.closed) \subseteq Nat
    BY <1>t, <1>3, RangeOfTail
  <2>3. \A i, j \in DOMAIN Tail(q.closed) : Tail(q.closed)[i] = Tail(q.closed)[j] => i = j
    BY <2>2 DEF OneRecord
  <2>4. QED
    BY <2>1, <2>2, <2>3 DEF OneRecord, Known
<1>4. QED
  BY <1>1, <1>2, <1>3

LEMMA RecordsAreSavedKept ==
  ASSUME TypeInv, Undisturbed, RecordsAreSaved, QuietNext \/ UNCHANGED vars, UNCHANGED db
  PROVE RecordsAreSaved'
<1>t. /\ maint \in Maints /\ queue \in Queues /\ curFile \in Files
      /\ maint.phase = "deleted" => queue.closed # << >>
      /\ {db, mirrored} \subseteq BOOLEAN
  BY DEF TypeInv, TypeOK, ServerType, FilesType, Maints
<1>o. /\ curFile \notin Known(queue) => OneRecord(Append1(queue, curFile))
      /\ OneRecord(Change(queue, curFile))
      /\ queue.closed # << >> => OneRecord([queue EXCEPT !.closed = Tail(@)])
  BY <1>t, OneRecordKept DEF RecordsAreSaved
<1>1. CASE UNCHANGED <<queue, saved, maint, curFile>>
  BY <1>1 DEF RecordsAreSaved, OneRecord
<1>2. CASE SvcStart \/ Expire
  BY <1>2, <1>t DEF SvcStart, Expire, RecordsAreSaved, OneRecord, Maints, NoRecords
<1>3. CASE SvcCleanup \/ SvcEnd
  BY <1>3, <1>t DEF SvcCleanup, SvcEnd, RecordsAreSaved
<1>4. ASSUME NEW q, OneRecord(q), Save(q), db, UNCHANGED curFile,
             maint'.open = maint.open, maint'.phase \notin {"leaving", "ending"}
      PROVE RecordsAreSaved'
  BY <1>4 DEF Save, RecordsAreSaved, OneRecord
<1>5. CASE RemoveRecord
  <2>1. db /\ maint'.phase = "running" /\ maint'.open = maint.open
    BY <1>5, <1>t DEF RemoveRecord, RecordsAreSaved, Maints
  <2>2. QED
    BY <1>5, <1>4, <1>o, <1>t, <2>1 DEF RemoveRecord
<1>6. CASE ReportBegin
  <2>1. CASE Served /\ mirrored
    <3>1. db /\ OneRecord(IF curFile \in Known(queue) THEN queue ELSE Append1(queue, curFile))
      BY <2>1, <1>o DEF Undisturbed, RecordsAreSaved
    <3>2. UNCHANGED <<curFile, maint>>
      BY <1>6 DEF ReportBegin
    <3>3. QED
      BY <1>6, <1>4, <2>1, <3>1, <3>2 DEF ReportBegin, NewFile, RecordsAreSaved
  <2>2. CASE ~(Served /\ mirrored)
    BY <1>6, <2>2, <1>1 DEF ReportBegin
  <2>3. QED
    BY <2>1, <2>2
<1>7. CASE ReportEnd
  <2>1. CASE Served /\ mirrored
    BY <1>7, <1>4, <1>o, <2>1 DEF ReportEnd, CloseFile, RecordsAreSaved, Undisturbed
  <2>2. CASE ~(Served /\ mirrored)
    BY <1>7, <2>2, <1>1 DEF ReportEnd
  <2>3. QED
    BY <2>1, <2>2
<1>8. CASE NextFile
  <2>1. UNCHANGED <<queue, saved, maint>> /\ curFile' = curFile + 1
    BY <1>8 DEF NextFile
  <2>2. \A f \in Known(queue) : f \in Nat
    BY <1>t DEF Known, Queues, Range, Files
  <2>3. \A f \in Known(queue) : f <= curFile + 1
    BY <2>2, <1>t DEF RecordsAreSaved, OneRecord, Files
  <2>4. QED
    BY <2>1, <2>3 DEF RecordsAreSaved, OneRecord
<1>9. CASE ServerCrash
  <2>1. queue' = queue /\ saved' = saved /\ curFile' = curFile
    BY <1>9 DEF ServerCrash, RecordsAreSaved
  <2>2. maint'.open = db /\ maint'.phase = IF db THEN "starting" ELSE "off"
    BY <1>9 DEF ServerCrash
  <2>3. QED
    BY <2>1, <2>2 DEF RecordsAreSaved, OneRecord
<1>10. QED
  BY <1>1, <1>2, <1>3, <1>5, <1>6, <1>7, <1>8, <1>9
  DEF QuietNext, CreateMirror, OpenMirror, WriteFirst, WriteSecond, DropMirror, Destroy, OpenTransfer,
      SendPast, SendMirrored, EndTransaction, CloseTransfer, Crash, SessionLost

(* The current file is in the list of the closed ones, and where it is     *)
(* then: full on the disk, or gone while its record is being removed.      *)
CurrentIsClosed == curFile \in Range(queue.closed)
FullOnDisk      == curFile \in DOMAIN disk /\ Len(disk[curFile]) >= FileBlocks
BeingRemoved    == maint.phase = "deleted" /\ Head(queue.closed) = curFile

(* A full file is left at the next block: the report that it is full       *)
(* cannot fail while the connection is there.                              *)
WillLeave == mirror.bytes >= FileBlocks /\ job \in {"none", "begin", "switch"} /\ app.conn

ClosedIsLeft ==
  CurrentIsClosed /\ job # "next" =>
    /\ app.pc = "down" \/ app.conn
    /\ BeingRemoved \/ (FullOnDisk /\ (mirror.on => WillLeave))
UnlinkedIsLeft == mirror.on /\ ~mirror.linked /\ job # "next" => WillLeave

(* Before the first crash the file is closed in the midst of the switch    *)
(* only.                                                                   *)
BeforeCrash ==
  count.crash = 0 =>
    /\ CurrentIsClosed => job = "next" /\ (FullOnDisk \/ BeingRemoved)
    /\ mirror.on /\ ~mirror.linked => job = "next"

KeptParts == MirrorOfQueue /\ BytesAreThere /\ RecordsAreSaved
KeptInv   == count.switch = 0 => KeptParts
SafeParts == ClosedIsLeft /\ UnlinkedIsLeft /\ BeforeCrash /\ NoBlockIntoDeletedFile
SafeInv   == count.switch = 0 /\ count.crash <= 1 => SafeParts

LEMMA KeptCorrect == Spec => []KeptInv
<1>1. Init => KeptInv
  <2> SUFFICES ASSUME Init PROVE KeptParts
    BY DEF KeptInv
  <2>1. MirrorOfQueue /\ BytesAreThere
    BY DEF Init, MirrorOfQueue, BytesAreThere, NoMirror
  <2>2. DOMAIN NoRecords.closed = {} /\ Known(NoRecords) = {}
    BY DEF NoRecords, Known, Range
  <2>3. RecordsAreSaved
    BY <2>2 DEF Init, RecordsAreSaved, OneRecord, NoRecords
  <2>4. QED
    BY <2>1, <2>3 DEF KeptParts
<1>2. TypeInv /\ CoverInv /\ QuietInv /\ KeptInv /\ [Next]_vars => KeptInv'
  <2> SUFFICES ASSUME TypeInv, CoverInv, QuietInv, KeptInv, [Next]_vars, count'.switch = 0
               PROVE KeptParts'
    BY DEF KeptInv
  <2>1. /\ count.switch = 0 /\ QuietParts /\ UNCHANGED db /\ (QuietNext \/ UNCHANGED vars) /\ KeptParts
    BY QuietStep DEF KeptInv
  <2>2. QED
    BY <2>1, MirrorOfQueueKept, BytesAreThereKept, RecordsAreSavedKept DEF QuietParts, KeptParts, CoverInv
<1>3. QED
  BY <1>1, <1>2, TypeInductive, CoverCorrect, QuietCorrect, PTL DEF Spec

\* The current file comes into the list by the report of its end only; what
\* is being removed is not in the list any more when its record is gone.
LEMMA ClosedSteps ==
  ASSUME TypeInv, Undisturbed, RecordsAreSaved, QuietNext \/ UNCHANGED vars, CurrentIsClosed'
  PROVE /\ UNCHANGED curFile /\ ~NextFile
        /\ CurrentIsClosed \/ (ReportEnd /\ job' = "next")
        /\ BeingRemoved => BeingRemoved' \/ ServerCrash
<1>t. /\ maint \in Maints /\ queue \in Queues /\ queue.closed \in Seq(Files) /\ curFile \in Nat
      /\ maint.phase = "deleted" => queue.closed # << >>
  BY DEF TypeInv, TypeOK, ServerType, FilesType, Maints, Queues, Files
<1>1. CASE UNCHANGED <<queue, maint, curFile>> /\ ~NextFile
  BY <1>1 DEF CurrentIsClosed, BeingRemoved
<1>2. CASE NextFile
  <2>1. queue' = queue /\ curFile' = curFile + 1
    BY <1>2 DEF NextFile
  <2>2. curFile + 1 \in Known(queue)
    BY <2>1 DEF CurrentIsClosed, Known
  <2>3. QED
    BY <2>2, <1>t DEF RecordsAreSaved, OneRecord
<1>3. CASE SvcStart \/ Expire
  BY <1>3, <1>t DEF SvcStart, Expire, CurrentIsClosed, BeingRemoved, NextFile, Maints
<1>4. CASE SvcCleanup \/ SvcEnd
  BY <1>4, <1>t DEF SvcCleanup, SvcEnd, CurrentIsClosed, BeingRemoved, NextFile, Maints
<1>5. CASE RemoveRecord
  <2>1. queue'.closed = Tail(queue.closed) /\ UNCHANGED <<curFile, job>>
    BY <1>5, <1>t DEF RemoveRecord, Save, Queues
  <2>2. /\ Range(Tail(queue.closed)) \subseteq Range(queue.closed)
        /\ \A i \in DOMAIN Tail(queue.closed) :
             i + 1 \in DOMAIN queue.closed /\ Tail(queue.closed)[i] = queue.closed[i + 1]
        /\ DOMAIN Tail(queue.closed) \subseteq Nat /\ 1 \in DOMAIN queue.closed
        /\ Head(queue.closed) = queue.closed[1]
    BY <1>5, <1>t, RangeOfTail DEF RemoveRecord
  <2>3. PICK i \in DOMAIN Tail(queue.closed) : Tail(queue.closed)[i] = curFile
    BY <2>1 DEF CurrentIsClosed, Range
  <2>4. i + 1 \in DOMAIN queue.closed /\ queue.closed[i + 1] = curFile /\ i \in Nat /\ i + 1 # 1
    <3>1. i \in 1 .. Len(queue.closed) - 1
      BY <1>5, <1>t, EmptySeq, HeadTailProperties DEF RemoveRecord
    <3>2. QED
      BY <2>2, <2>3, <3>1, <1>t
  <2>5. Head(queue.closed) # curFile
    BY <2>2, <2>4 DEF RecordsAreSaved, OneRecord
  <2>6. CurrentIsClosed /\ ~NextFile
    BY <2>1, <2>2, <1>5 DEF CurrentIsClosed, RemoveRecord, NextFile
  <2>7. QED
    BY <2>1, <2>5, <2>6 DEF BeingRemoved
<1>6. CASE ReportBegin
  <2>1. queue'.closed = queue.closed /\ UNCHANGED <<curFile, maint>> /\ ~NextFile
    BY <1>6, <1>t DEF ReportBegin, NewFile, Save, Append1, Queues, NextFile
  <2>2. QED
    BY <2>1 DEF CurrentIsClosed, BeingRemoved
<1>7. CASE ReportEnd
  <2>1. /\ queue' = queue \/ (job' = "next" /\ queue'.closed = Append(queue.closed, curFile))
                          \/ (job' = "next" /\ queue' = queue)
        /\ UNCHANGED <<curFile, maint>>
    BY <1>7 DEF ReportEnd, CloseFile, Save, Change
  <2>2. queue.closed # << >> => Head(Append(queue.closed, curFile)) = Head(queue.closed)
    <3> SUFFICES ASSUME queue.closed # << >>
                 PROVE Head(Append(queue.closed, curFile)) = Head(queue.closed)
      OBVIOUS
    <3>1. Len(queue.closed) \in Nat /\ Len(queue.closed) > 0
      BY <1>t, EmptySeq
    <3>2. Head(Append(queue.closed, curFile)) = Append(queue.closed, curFile)[1]
          /\ Head(queue.closed) = queue.closed[1]
      BY <1>t, <3>1
    <3>3. QED
      BY <3>1, <3>2, <1>t
  <2>3. ~NextFile
    BY <1>7 DEF ReportEnd, NextFile
  <2>4. QED
    BY <1>7, <2>1, <2>2, <2>3, <1>t DEF CurrentIsClosed, BeingRemoved
<1>8. CASE ServerCrash
  <2>1. curFile' = curFile /\ (queue' = queue \/ queue' = NoRecords) /\ UNCHANGED job
    BY <1>8 DEF ServerCrash, RecordsAreSaved
  <2>2. queue' = queue
    BY <2>1 DEF CurrentIsClosed, NoRecords, Range
  <2>3. QED
    BY <1>8, <2>1, <2>2 DEF CurrentIsClosed, NextFile
<1>9. QED
  BY <1>1, <1>2, <1>3, <1>4, <1>5, <1>6, <1>7, <1>8
  DEF QuietNext, CreateMirror, OpenMirror, WriteFirst, WriteSecond, DropMirror, Destroy, OpenTransfer,
      SendPast, SendMirrored, EndTransaction, CloseTransfer, Crash, SessionLost, NextFile

\* A full file stays full on the disk until it is removed.
LEMMA FullSteps ==
  ASSUME TypeInv, [Next]_vars, FullOnDisk, UNCHANGED curFile
  PROVE FullOnDisk' \/ (Expire /\ BeingRemoved')
<1>t. /\ \A f \in DOMAIN disk : disk[f] \in Seq(Blocks) /\ Len(disk[f]) \in Nat
      /\ app.next \in Blocks /\ FileBlocks \in Nat /\ maint \in Maints
  BY MirrorAssumption DEF TypeInv, TypeOK, LibraryType, FilesType, ServerType, Maints
<1>1. CASE UNCHANGED disk
  BY <1>1 DEF FullOnDisk
<1>2. CASE \E f \in Files : Opened(f)
  BY <1>2 DEF Opened, FullOnDisk
<1>3. CASE WriteFirst /\ ~UNCHANGED disk
  <2>1. disk' = [disk EXCEPT ![mirror.file] = Append(disk[mirror.file], app.next)]
    BY <1>3 DEF WriteFirst, Half, Store
  <2>2. Len(Append(disk[curFile], app.next)) = Len(disk[curFile]) + 1
    BY <1>t DEF FullOnDisk
  <2>3. QED
    BY <2>1, <2>2, <1>t DEF FullOnDisk
<1>4. CASE Expire
  <2>1. CASE Head(queue.closed) = curFile
    BY <1>4, <2>1, <1>t DEF Expire, BeingRemoved, Maints
  <2>2. CASE Head(queue.closed) # curFile
    BY <1>4, <2>2 DEF Expire, FullOnDisk
  <2>3. QED
    BY <2>1, <2>2
<1>5. QED
  BY <1>1, <1>2, <1>3, <1>4, DiskSteps

\* The library leaves a file that it has found full.
LEMMA WillLeaveKept ==
  ASSUME TypeInv, Undisturbed, MirrorIsReady, WriterSends, MirrorOfQueue,
         mirror.on, WillLeave, QuietNext \/ UNCHANGED vars, ~ServerCrash, ~CreateMirror
  PROVE WillLeave' \/ ~mirror'.on \/ job' = "next"
<1>t. app \in Apps /\ mirror \in Mirrors
  BY DEF TypeInv, TypeOK, LibraryType, Apps, Mirrors
<1>1. CASE UNCHANGED <<app, mirror, job>>
  BY <1>1 DEF WillLeave
<1>2. CASE ReportBegin
  <2>1. mirror'.bytes = mirror.bytes /\ job' = "none" /\ UNCHANGED app
    BY <1>2, <1>t DEF ReportBegin, WillLeave, Mirrors
  <2>2. QED
    BY <2>1 DEF WillLeave
<1>3. CASE ReportEnd
  <2>1. Served /\ mirrored
    BY <1>3 DEF ReportEnd, WriterSends, Writing, WillLeave, MirrorIsReady, MirrorOfQueue, Undisturbed, Served
  <2>2. QED
    BY <1>3, <2>1 DEF ReportEnd
<1>4. CASE SendMirrored
  BY <1>4 DEF SendMirrored, WillLeave
<1>5. CASE DropMirror \/ Destroy \/ Crash
  BY <1>5 DEF DropMirror, Destroy, Crash, NoMirror
<1>6. CASE Expire
  <2>1. mirror'.bytes = mirror.bytes /\ UNCHANGED <<app, job>>
    BY <1>6, <1>t DEF Expire, Mirrors
  <2>2. QED
    BY <2>1 DEF WillLeave
<1>7. CASE OpenTransfer \/ SendPast \/ CloseTransfer
  BY <1>7, <1>t DEF OpenTransfer, SendPast, CloseTransfer, WillLeave, Apps
<1>8. CASE \E c \in BOOLEAN : EndTransaction(c)
  BY <1>8, <1>t DEF EndTransaction, WillLeave, Apps
<1>9. CASE NextFile \/ WriteFirst \/ WriteSecond
  BY <1>9 DEF NextFile, WriteFirst, WriteSecond, WillLeave
<1>10. QED
  BY <1>1, <1>2, <1>3, <1>4, <1>5, <1>6, <1>7, <1>8, <1>9
  DEF QuietNext, SvcStart, RemoveRecord, SvcCleanup, SvcEnd, SessionLost

\* A crash is counted.
LEMMA CrashSteps ==
  ASSUME TypeInv, QuietNext \/ UNCHANGED vars
  PROVE /\ count.crash \in Nat
        /\ Crash \/ ServerCrash => count'.crash = count.crash + 1
        /\ ~Crash /\ ~ServerCrash => count'.crash = count.crash
<1>t. count \in [crash : Nat, switch : Nat]
  BY DEF TypeInv, TypeOK, HistoryType
<1>1. Crash \/ ServerCrash => count'.crash = count.crash + 1
  BY <1>t DEF Crash, ServerCrash
<1>2. ~Crash /\ ~ServerCrash => UNCHANGED count
  BY DEF QuietNext, CreateMirror, ReportBegin, ReportEnd, NextFile, WriteFirst, WriteSecond, DropMirror,
     Destroy, SvcStart, Expire, RemoveRecord, SvcCleanup, SvcEnd, OpenTransfer, SendPast, SendMirrored,
     EndTransaction, CloseTransfer, SessionLost
<1>3. QED
  BY <1>t, <1>1, <1>2

\* The switch to the next file ends with that file, or by a crash.
LEMMA NextSteps ==
  ASSUME QuietNext \/ UNCHANGED vars, job = "next", job' # "next"
  PROVE NextFile \/ Crash
  BY DEF QuietNext, CreateMirror, ReportBegin, ReportEnd, WriteFirst, WriteSecond, DropMirror,
     Destroy, SvcStart, Expire, RemoveRecord, SvcCleanup, SvcEnd, OpenTransfer, SendPast, SendMirrored,
     EndTransaction, CloseTransfer, SessionLost, ServerCrash

\* A mirror loses its file to the maintainer only.
LEMMA UnlinkSteps ==
  ASSUME TypeInv, CurrentIsLast, QuietNext \/ UNCHANGED vars, mirror'.on, ~mirror'.linked
  PROVE /\ mirror.on /\ ~NextFile /\ ~CreateMirror
        /\ mirror.linked => Expire /\ CurrentIsClosed /\ ~BeingRemoved
<1>t. mirror \in Mirrors /\ queue.closed \in Seq(Files)
  BY DEF TypeInv, TypeOK, LibraryType, ServerType, Queues, Mirrors
<1>1. ~NextFile /\ ~CreateMirror
  <2>1. NextFile => mirror'.linked
    BY <1>t DEF NextFile, Mirrors
  <2>2. CreateMirror => mirror'.linked
    BY DEF CreateMirror, OpenMirror
  <2>3. QED
    BY <2>1, <2>2
<1>2. ~DropMirror /\ ~Destroy /\ ~Crash
  BY DEF DropMirror, Destroy, Crash, NoMirror
<1>3. CASE Expire
  <2>1. mirror.on
    BY <1>3, <1>t DEF Expire, Mirrors
  <2>2. ASSUME mirror.linked PROVE CurrentIsClosed /\ ~BeingRemoved
    <3>1. mirror.file = Head(queue.closed) /\ queue.closed # << >> /\ maint.phase = "running"
      BY <1>3, <2>2 DEF Expire
    <3>2. Head(queue.closed) \in Range(queue.closed)
      <4>1. 1 \in DOMAIN queue.closed /\ Head(queue.closed) = queue.closed[1]
        BY <3>1, <1>t, RangeOfTail
      <4>2. QED
        BY <4>1 DEF Range
    <3>3. QED
      BY <2>1, <3>1, <3>2 DEF CurrentIsLast, CurrentIsClosed, BeingRemoved
  <2>3. QED
    BY <1>1, <1>3, <2>1, <2>2
<1>4. CASE ~Expire
  <2>1. mirror'.on = mirror.on /\ mirror'.linked = mirror.linked
    <3>1. CASE ReportBegin \/ ReportEnd
      BY <3>1, <1>t DEF ReportBegin, ReportEnd, Mirrors
    <3>2. CASE WriteSecond
      BY <3>2, <1>t DEF WriteSecond, Mirrors
    <3>3. QED
      BY <1>1, <1>2, <1>4, <3>1, <3>2
      DEF QuietNext, WriteFirst, SvcStart, RemoveRecord, SvcCleanup, SvcEnd, OpenTransfer, SendPast,
          SendMirrored, EndTransaction, CloseTransfer, SessionLost, ServerCrash
  <2>2. QED
    BY <1>1, <2>1
<1>5. QED
  BY <1>3, <1>4

LEMMA SafeInductive ==
  ASSUME TypeInv, CoverInv, QuietParts, KeptParts, UNCHANGED db, QuietNext \/ UNCHANGED vars,
         [Next]_vars, SafeParts, count'.crash <= 1
  PROVE SafeParts'
<1> USE DEF QuietParts, KeptParts, SafeParts, CoverInv
<1>t. /\ app \in Apps /\ mirror \in Mirrors
      /\ count.crash \in Nat
      /\ Crash \/ ServerCrash => count'.crash = count.crash + 1
      /\ ~Crash /\ ~ServerCrash => count'.crash = count.crash
  BY CrashSteps DEF TypeInv, TypeOK, LibraryType, Apps, Mirrors
<1>0. Crash \/ ServerCrash => count.crash = 0
  BY <1>t
<1>1. ClosedIsLeft'
  <2> SUFFICES ASSUME CurrentIsClosed', job' # "next"
               PROVE /\ app'.pc = "down" \/ app'.conn
                     /\ BeingRemoved' \/ (FullOnDisk' /\ (mirror'.on => WillLeave'))
    BY DEF ClosedIsLeft
  <2>1. /\ UNCHANGED curFile /\ ~NextFile /\ CurrentIsClosed
        /\ BeingRemoved => BeingRemoved' \/ ServerCrash
    BY ClosedSteps
  <2>2. CASE job = "next"
    <3>1. Crash
      BY <2>1, <2>2, NextSteps
    <3>2. FullOnDisk \/ BeingRemoved
      BY <3>1, <2>1, <1>0 DEF BeforeCrash
    <3>3. app'.pc = "down" /\ ~mirror'.on /\ UNCHANGED <<curFile, disk, maint, queue>>
      BY <3>1, <1>t DEF Crash, NoMirror, Apps
    <3>4. QED
      BY <3>2, <3>3 DEF FullOnDisk, BeingRemoved
  <2>3. CASE job # "next"
    <3>1. ~ServerCrash /\ ~Crash
      BY <2>1, <2>3, <1>0 DEF BeforeCrash
    <3>2. /\ app.pc = "down" \/ app.conn
          /\ BeingRemoved \/ (FullOnDisk /\ (mirror.on => WillLeave))
      BY <2>1, <2>3 DEF ClosedIsLeft
    <3>3. app'.pc = "down" \/ app'.conn
      <4>1. UNCHANGED app \/ app'.pc = "down" \/ (app'.conn = app.conn /\ app.pc # "down") \/ app'.conn
        BY <3>1, <1>t DEF QuietNext, CreateMirror, ReportBegin, ReportEnd, NextFile, WriteFirst, WriteSecond,
           DropMirror, Destroy, SvcStart, Expire, RemoveRecord, SvcCleanup, SvcEnd, OpenTransfer, SendPast,
           SendMirrored, EndTransaction, CloseTransfer, SessionLost, Apps
      <4>2. QED
        BY <3>2, <4>1
    <3>4. CASE BeingRemoved
      BY <3>1, <3>3, <3>4, <2>1
    <3>5. CASE FullOnDisk /\ (mirror.on => WillLeave)
      <4>1. FullOnDisk' \/ BeingRemoved'
        BY <2>1, <3>5, FullSteps
      <4>2. CASE CreateMirror
        <5>1. /\ mirror'.bytes = Len(disk[curFile]) /\ job' = "begin" /\ app'.conn
          BY <4>2, <3>2, <3>5, <1>t DEF CreateMirror, OpenMirror, FullOnDisk, Apps
        <5>2. QED
          BY <5>1, <4>1, <3>3, <3>5 DEF WillLeave, FullOnDisk
      <4>3. CASE ~CreateMirror
        <5>1. mirror'.on => mirror.on
          <6>1. CASE ReportBegin \/ ReportEnd
            BY <6>1, <1>t DEF ReportBegin, ReportEnd, Mirrors
          <6>2. CASE WriteSecond
            BY <6>2, <1>t DEF WriteSecond, Mirrors
          <6>3. CASE Expire
            BY <6>3, <1>t DEF Expire, Mirrors
          <6>4. CASE DropMirror \/ Destroy
            BY <6>4 DEF DropMirror, Destroy, NoMirror
          <6>5. QED
            BY <4>3, <2>1, <3>1, <6>1, <6>2, <6>3, <6>4
            DEF QuietNext, WriteFirst, SvcStart, RemoveRecord, SvcCleanup, SvcEnd, OpenTransfer, SendPast,
                SendMirrored, EndTransaction, CloseTransfer, SessionLost
        <5>2. mirror'.on => WillLeave'
          BY <5>1, <3>1, <3>5, <4>3, WillLeaveKept
        <5>3. QED
          BY <4>1, <5>2, <3>3
      <4>4. QED
        BY <4>2, <4>3
    <3>6. QED
      BY <3>2, <3>4, <3>5
  <2>4. QED
    BY <2>2, <2>3
<1>2. UnlinkedIsLeft'
  <2> SUFFICES ASSUME mirror'.on, ~mirror'.linked, job' # "next" PROVE WillLeave'
    BY DEF UnlinkedIsLeft
  <2>1. /\ mirror.on /\ ~NextFile /\ ~CreateMirror
        /\ mirror.linked => Expire /\ CurrentIsClosed /\ ~BeingRemoved
    BY UnlinkSteps
  <2>2. ~Crash
    BY DEF Crash, NoMirror
  <2>3. job # "next"
    BY <2>1, <2>2, NextSteps
  <2>4. CASE mirror.linked
    <3>1. WillLeave
      BY <2>1, <2>3, <2>4 DEF ClosedIsLeft
    <3>2. QED
      BY <3>1, <2>1, <2>4, WillLeaveKept DEF Expire, ServerCrash
  <2>5. CASE ~mirror.linked
    <3>1. ~ServerCrash
      BY <2>1, <2>3, <2>5, <1>0 DEF BeforeCrash
    <3>2. WillLeave
      BY <2>1, <2>3, <2>5 DEF UnlinkedIsLeft
    <3>3. QED
      BY <3>1, <3>2, <2>1, WillLeaveKept
  <2>6. QED
    BY <2>4, <2>5
<1>3. BeforeCrash'
  <2> SUFFICES ASSUME count'.crash = 0
               PROVE /\ CurrentIsClosed' => job' = "next" /\ (FullOnDisk' \/ BeingRemoved')
                     /\ mirror'.on /\ ~mirror'.linked => job' = "next"
    BY DEF BeforeCrash
  <2>1. count.crash = 0 /\ ~Crash /\ ~ServerCrash
    BY <1>t
  <2>2. ASSUME CurrentIsClosed' PROVE job' = "next" /\ (FullOnDisk' \/ BeingRemoved')
    <3>1. /\ UNCHANGED curFile /\ ~NextFile
          /\ CurrentIsClosed \/ (ReportEnd /\ job' = "next")
          /\ BeingRemoved => BeingRemoved'
      BY <2>1, <2>2, ClosedSteps
    <3>2. CASE CurrentIsClosed
      <4>1. job = "next" /\ (FullOnDisk \/ BeingRemoved)
        BY <3>2, <2>1 DEF BeforeCrash
      <4>2. job' = "next"
        BY <4>1, <3>1, <2>1, NextSteps
      <4>3. QED
        BY <4>1, <4>2, <3>1, FullSteps
    <3>3. CASE ReportEnd /\ job' = "next" /\ ~CurrentIsClosed
      <4>1. job = "switch" /\ mirror.on /\ mirror.bytes >= FileBlocks
        BY <3>3 DEF ReportEnd, LinkedIsThere, MirrorOfQueue
      <4>2. mirror.linked
        BY <4>1, <2>1 DEF BeforeCrash
      <4>3. mirror.file = curFile /\ curFile \in DOMAIN disk /\ mirror.bytes <= Len(disk[curFile])
        BY <4>1, <4>2 DEF CurrentIsLast, LinkedIsThere, BytesAreThere
      <4>4. FullOnDisk
        <5>1. mirror.bytes \in Nat /\ Len(disk[curFile]) \in Nat /\ FileBlocks \in Nat
          BY <4>3, <1>t, MirrorAssumption DEF Mirrors, TypeInv, TypeOK, FilesType
        <5>2. QED
          BY <5>1, <4>1, <4>3 DEF FullOnDisk
      <4>5. UNCHANGED <<disk, curFile>>
        BY <3>3 DEF ReportEnd
      <4>6. QED
        BY <3>3, <4>4, <4>5 DEF FullOnDisk
    <3>4. QED
      BY <3>1, <3>2, <3>3
  <2>3. ASSUME mirror'.on, ~mirror'.linked PROVE job' = "next"
    <3>1. /\ mirror.on /\ ~NextFile /\ ~CreateMirror
          /\ mirror.linked => Expire /\ CurrentIsClosed
      BY <2>3, UnlinkSteps
    <3>2. job = "next"
      BY <3>1, <2>1 DEF BeforeCrash
    <3>3. QED
      BY <3>1, <3>2, <2>1, NextSteps
  <2>4. QED
    BY <2>2, <2>3
<1>4. NoBlockIntoDeletedFile'
  <2>1. CASE WriteFirst
    <3>1. mirror.on /\ job = "write1"
      BY <2>1 DEF WriteFirst, LinkedIsThere
    <3>2. mirror.linked
      BY <3>1 DEF UnlinkedIsLeft, WillLeave
    <3>3. QED
      BY <2>1, <3>2 DEF WriteFirst, Half, Store, NoBlockIntoDeletedFile
  <2>2. CASE ~WriteFirst
    <3>1. UNCHANGED lost
      BY <2>2, DiskSteps DEF Expire
    <3>2. QED
      BY <3>1 DEF NoBlockIntoDeletedFile
  <2>3. QED
    BY <2>1, <2>2
<1>5. QED
  BY <1>1, <1>2, <1>3, <1>4

LEMMA SafeCorrect == Spec => []SafeInv
<1>1. Init => SafeInv
  <2> SUFFICES ASSUME Init PROVE SafeParts
    BY DEF SafeInv
  <2>1. Range(queue.closed) = {} /\ ~mirror.on
    BY DEF Init, NoRecords, NoMirror, Range
  <2>2. QED
    BY <2>1 DEF Init, SafeParts, ClosedIsLeft, UnlinkedIsLeft, BeforeCrash, CurrentIsClosed,
       NoBlockIntoDeletedFile
<1>2. TypeInv /\ CoverInv /\ QuietInv /\ KeptInv /\ SafeInv /\ [Next]_vars => SafeInv'
  <2> SUFFICES ASSUME TypeInv, CoverInv, QuietInv, KeptInv, SafeInv, [Next]_vars,
                      count'.switch = 0, count'.crash <= 1
               PROVE SafeParts'
    BY DEF SafeInv
  <2>1. /\ count.switch = 0 /\ QuietParts /\ UNCHANGED db /\ (QuietNext \/ UNCHANGED vars) /\ KeptParts
    BY QuietStep DEF KeptInv
  <2>2. count.crash <= 1
    BY <2>1, CrashSteps
  <2>3. SafeParts
    BY <2>1, <2>2 DEF SafeInv
  <2>4. QED
    BY <2>1, <2>3, SafeInductive
<1>3. QED
  BY <1>1, <1>2, TypeInductive, CoverCorrect, QuietCorrect, KeptCorrect, PTL DEF Spec

(* One crash, of the application or of the server, at any point, loses     *)
(* nothing while the operator leaves the mirror as it is: every committed  *)
(* block is in a file of the mirror, was in one deleted in time, or went   *)
(* past a mirror that was not ready.                                       *)
THEOREM OneCrashLosesNothing ==
  Spec => [](count.switch = 0 /\ count.crash <= 1 => NoBlockIntoDeletedFile /\ CommittedAreMirrored)
<1>1. SafeInv => (count.switch = 0 /\ count.crash <= 1 => NoBlockIntoDeletedFile)
  BY DEF SafeInv, SafeParts
<1>2. QED
  BY <1>1, SafeCorrect, CommittedMirrored, PTL

=============================================================================
