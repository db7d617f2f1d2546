----------------------------- MODULE DboMirror -----------------------------
(***************************************************************************)
(* The mirror of a transfer queue of the Data Block Output function        *)
(* (src/dbo_cnz).  The application's library (dboapi_caa) copies each      *)
(* block it sends to a data file; the server (dboadm_caa) keeps the list   *)
(* of the files and a maintainer thread deletes each one some time after   *)
(* it was closed.  Library and server share the state file, which is       *)
(* mapped in the memory of both: the current file and the last block.      *)
(*                                                                         *)
(* The application, the threads that handle the server's events in it,     *)
(* the client's session, the handler of the operator's changes in IMM and  *)
(* the maintainer interleave; application and server may crash.  A         *)
(* command and its handler are one action: the library holds sendMutex_    *)
(* until the answer is there.  One transfer queue of a single-CP system,   *)
(* with a fixed removal delay.                                             *)
(***************************************************************************)
EXTENDS Integers, FiniteSets, SequencesExt

CONSTANTS
    FirstBlock,    \* number of the first block of the run
    FileBlocks,    \* blocks that fill a file (MAX_MIRROR_DATAFILE_SIZE)
    \* bounds of the search
    MaxBlock, MaxSwitches,
    MaxCrashes     \* of the application and of the server together

ASSUME MirrorAssumption ==
    /\ FirstBlock \in Nat \ {0} /\ FileBlocks \in Nat \ {0}
    /\ MaxBlock \in Nat /\ MaxCrashes \in Nat /\ MaxSwitches \in Nat

Files  == Nat \ {0}
Blocks == {b \in Nat : b >= FirstBlock}

VARIABLES
    \* the application and its library
    app,        \* what it does, is it connected, the next block, commits
    mirror,     \* mirror_: the DataMirror
    job,        \* what the thread that holds mirrorMutex_ has to do
    events,     \* threads that wait to handle an event of the server
    \* the state file and the data files
    curFile, curBlock,
    disk,       \* the files of the directory with their blocks
    \* the server
    db,         \* the queue is mirrored, in the database and in IMM
    mirrored,   \* mirrored_ of the TQ session
    attached,   \* the TQ session is open and has a client
    oper,       \* the handler of the operator's change in IMM
    maint,      \* the mirror maintainer
    queue,      \* its queue in memory
    saved,      \* its queue on disk
    \* history
    expired,    \* blocks of the files that the maintainer has deleted
    lost,       \* blocks written to a file already deleted
    passed,     \* blocks sent when no mirror was ready for them
    torn,       \* the application died between two steps of a file switch
    overtaken,  \* a maintainer was created while the last one was leaving
    count       \* crashes and switches

stateFile == <<curFile, curBlock>>
srvVars   == <<db, mirrored, oper, maint, queue, saved>>
history   == <<expired, lost, passed, torn, overtaken, count>>
vars == <<app, mirror, job, events, stateFile, disk, srvVars, attached, history>>

NoMirror  == [on |-> FALSE, ok |-> FALSE, file |-> 0, bytes |-> 0, linked |-> FALSE]
NoEvents  == [on |-> 0, off |-> 0]
NoRecords == [closed |-> << >>, opened |-> {}]

\* Either the queue has been mirrored from the start of the server or not.
Init ==
    /\ app = [pc |-> "down", conn |-> FALSE, next |-> FirstBlock, done |-> FirstBlock - 1]
    /\ mirror = NoMirror /\ job = "none" /\ events = NoEvents
    /\ curFile = 1 /\ curBlock = 0 /\ disk = [f \in {} |-> << >>]
    /\ db \in BOOLEAN /\ mirrored = db /\ attached = FALSE /\ oper = "idle"
    /\ maint = [phase |-> IF db THEN "running" ELSE "off", exit |-> FALSE,
                mapped |-> db, open |-> db]
    /\ queue = NoRecords /\ saved = NoRecords
    /\ expired = {} /\ lost = {} /\ passed = {}
    /\ torn = FALSE /\ overtaken = FALSE /\ count = [crash |-> 0, switch |-> 0]

-----------------------------------------------------------------------------
(* The queue of the maintainer: a multimap from the removal time of a file *)
(* to its name.  A file that is still written has the time UINT_MAX        *)
(* ("opened"); the others are in the order in which they were closed.      *)

Known(q)     == q.opened \cup Range(q.closed)
Append1(q, f) == [q EXCEPT !.opened = @ \cup {f}]
Change(q, f) == IF f \in q.opened
                THEN [opened |-> q.opened \ {f}, closed |-> Append(q.closed, f)]
                ELSE q

\* save() writes the whole map, if the queue file is open.
Save(q) == queue' = q /\ saved' = IF maint.open THEN q ELSE saved

\* load() adds the records of the file, which are older, to those in memory: a
\* multimap takes a record twice.
Loaded == [opened |-> queue.opened \cup saved.opened,
           closed |-> saved.closed \o queue.closed]

-----------------------------------------------------------------------------
(* The mirror maintainer (aes_dbo_mirrormaintainer).                       *)
(* phase: "off" no thread, "starting" activated but running_ is not yet    *)
(* set, "running" in the loop, "deleted" a file is removed and its record  *)
(* is not, "leaving" past the loop, "ending" running_ is reset and the     *)
(* thread has not ended.                                                   *)

Running == maint.phase \in {"running", "deleted", "leaving"}

\* create(): a running maintainer accepts the new order.  activate() does
\* nothing while the task still has a thread.
CreateMaintainer ==
    IF Running
    THEN maint' = [maint EXCEPT !.exit = FALSE] /\ UNCHANGED <<queue, saved>>
    ELSE /\ maint' = [phase |-> IF maint.phase = "off" THEN "starting" ELSE maint.phase,
                      exit |-> FALSE, mapped |-> TRUE, open |-> TRUE]
         /\ queue' = Loaded /\ UNCHANGED saved

\* remove(): closes the file that was written, and moves to the next one.
RemoveMaintainer ==
    /\ maint' = [maint EXCEPT !.exit = TRUE]
    /\ Save(IF maint.mapped THEN Change(queue, curFile) ELSE queue)
    /\ curFile' = IF maint.mapped /\ curFile \in queue.opened THEN curFile + 1 ELSE curFile

SvcStart ==
    /\ maint.phase = "starting" /\ maint' = [maint EXCEPT !.phase = "running"]
    /\ UNCHANGED <<app, mirror, job, events, stateFile, disk, db, mirrored,
                   oper, queue, saved, attached, history>>

\* The delay is long: it does not end while the application writes without
\* having noticed that the server is gone.
DelayIsOver == app.pc = "down" \/ app.conn

\* The removal time of the head has come: the file is removed ...
Expire ==
    /\ maint.phase = "running" /\ queue.closed # << >> /\ DelayIsOver
    /\ maint' = [maint EXCEPT !.phase = "deleted"]
    /\ LET f == Head(queue.closed) IN
       IF f \in DOMAIN disk
       THEN /\ disk' = [g \in DOMAIN disk \ {f} |-> disk[g]]
            /\ expired' = expired \cup Range(disk[f])
            /\ mirror' = IF mirror.on /\ mirror.file = f
                         THEN [mirror EXCEPT !.linked = FALSE] ELSE mirror
       ELSE UNCHANGED <<disk, expired, mirror>>
    /\ UNCHANGED <<app, job, events, stateFile, db, mirrored, oper, queue, saved,
                   attached, lost, passed, torn, overtaken, count>>

\* ... and then its record.
RemoveRecord ==
    /\ maint.phase = "deleted" /\ maint' = [maint EXCEPT !.phase = "running"]
    /\ Save([queue EXCEPT !.closed = Tail(@)])
    /\ UNCHANGED <<app, mirror, job, events, stateFile, disk, db, mirrored, oper,
                   attached, history>>

\* Mutant: the loop does not look at the queue.
LoopEndsAtOnce == maint.exit

LoopEnds == maint.exit /\ queue = NoRecords

SvcLeave ==
    /\ maint.phase = "running" /\ LoopEnds
    /\ maint' = [maint EXCEPT !.phase = "leaving"]
    /\ UNCHANGED <<app, mirror, job, events, stateFile, disk, db, mirrored, oper,
                   queue, saved, attached, history>>

\* The state file is unmapped, the queue closed and running_ reset.
SvcCleanup ==
    /\ maint.phase = "leaving"
    /\ maint' = [maint EXCEPT !.phase = "ending", !.mapped = FALSE, !.open = FALSE]
    /\ UNCHANGED <<app, mirror, job, events, stateFile, disk, db, mirrored, oper,
                   queue, saved, attached, history>>

SvcEnd ==
    /\ maint.phase = "ending" /\ maint' = [maint EXCEPT !.phase = "off"]
    /\ UNCHANGED <<app, mirror, job, events, stateFile, disk, db, mirrored, oper,
                   queue, saved, attached, history>>

-----------------------------------------------------------------------------
(* The server: the client's session and the TQ session.                    *)

\* A command of the client reaches the open TQ session.
Served == app.conn /\ attached

\* newMirrorFile() and newFile(): a file already known is left as it is.
NewFile(f) == Save(IF f \in Known(queue) THEN queue ELSE Append1(queue, f))

\* closeMirrorFile() and closeFile().
CloseFile(f) == Save(Change(queue, f))

\* The session finds the client's connection broken and closes the queue.
SessionLost ==
    /\ attached /\ ~app.conn /\ attached' = FALSE
    /\ UNCHANGED <<app, mirror, job, events, stateFile, disk, srvVars, history>>

\* The handler of a change in IMM: first the database ...
ChangeDatabase ==
    /\ oper = "idle" /\ count.switch < MaxSwitches
    /\ count' = [count EXCEPT !.switch = @ + 1]
    /\ db' = ~db /\ oper' = "session"
    /\ UNCHANGED <<app, mirror, job, events, stateFile, disk, mirrored, maint,
                   queue, saved, attached, expired, lost, passed, torn, overtaken>>

\* sendEventToUser: the library starts a thread for the event.
Event(e) == events' = IF Served THEN [events EXCEPT ![e] = @ + 1] ELSE events

\* ... then changeMirror of the session.  To turn the mirror off is left to
\* the client, if there is one.
ChangeSession ==
    /\ oper = "session"
    /\ \/ /\ db /\ ~mirrored
          /\ CreateMaintainer /\ Event("on") /\ oper' = "flag" /\ UNCHANGED <<mirrored, curFile>>
          /\ overtaken' = (overtaken \/ maint.phase \in {"leaving", "ending"})
       \/ /\ ~db /\ mirrored /\ attached
          /\ Event("off") /\ oper' = "idle"
          /\ UNCHANGED <<mirrored, curFile, maint, queue, saved, overtaken>>
       \/ /\ ~db /\ mirrored /\ ~attached
          /\ RemoveMaintainer /\ mirrored' = FALSE /\ oper' = "idle" /\ UNCHANGED <<events, overtaken>>
       \/ /\ db = mirrored /\ oper' = "idle"
          /\ UNCHANGED <<events, mirrored, curFile, maint, queue, saved, overtaken>>
    /\ UNCHANGED <<app, mirror, job, curBlock, disk, db, attached, expired, lost, passed, torn, count>>

\* The flag is set after the event was sent.
SetMirrored ==
    /\ oper = "flag" /\ mirrored' = TRUE /\ oper' = "idle"
    /\ UNCHANGED <<app, mirror, job, events, stateFile, disk, db, maint, queue,
                   saved, attached, history>>

\* The server dies; the one started next makes its sessions from IMM, and the
\* maintainer of a mirrored queue reads its queue from disk.
ServerCrash ==
    /\ count.crash < MaxCrashes
    /\ count' = [count EXCEPT !.crash = @ + 1]
    /\ app' = [app EXCEPT !.conn = FALSE]
    /\ attached' = FALSE /\ mirrored' = db /\ oper' = "idle"
    /\ maint' = [phase |-> IF db THEN "starting" ELSE "off", exit |-> FALSE,
                 mapped |-> db, open |-> db]
    /\ queue' = (IF db THEN saved ELSE NoRecords)
    /\ UNCHANGED <<mirror, job, events, stateFile, disk, db, saved, expired, lost, passed,
                   torn, overtaken>>

-----------------------------------------------------------------------------
(* The library: TQSender and DataMirror.                                   *)

Resend == app.done + 1

\* Mutant: the state file is given its initial values each time.
ClearState == curBlock' = 0

\* loadState keeps what the state file holds, if there is one.
LoadState == UNCHANGED curBlock

\* The constructor opens the current file and continues at its end.
OpenMirror ==
    /\ mirror' = [on |-> TRUE, ok |-> TRUE, file |-> curFile, linked |-> TRUE,
                  bytes |-> IF curFile \in DOMAIN disk THEN Len(disk[curFile]) ELSE 0]
    /\ disk' = [f \in DOMAIN disk \cup {curFile} |->
                   IF f \in DOMAIN disk THEN disk[f] ELSE << >>]
    /\ LoadState /\ job' = "begin"

\* openTransfer: CMD_OPEN is refused while the queue is open.
OpenTransfer ==
    /\ app.pc = "down" /\ ~attached /\ attached' = TRUE
    /\ app' = [app EXCEPT !.pc = IF db THEN "create" ELSE "idle", !.conn = TRUE,
                          !.next = Resend]
    /\ UNCHANGED <<mirror, job, events, stateFile, disk, srvVars, history>>

\* The answer said that the queue is mirrored.
CreateMirror ==
    /\ app.pc = "create" /\ job = "none"
    /\ OpenMirror /\ app' = [app EXCEPT !.pc = "idle"]
    /\ UNCHANGED <<events, curFile, srvVars, attached, history>>

\* reportToServer(CMD_MIRRORFILEBEG), of a new mirror ("begin") or a new file.
ReportBegin ==
    /\ job \in {"begin", "switched"}
    /\ job' = IF job = "begin" THEN "none" ELSE "write1"
    /\ IF Served /\ mirrored
       THEN NewFile(curFile) /\ UNCHANGED mirror
       ELSE mirror' = [mirror EXCEPT !.ok = FALSE] /\ UNCHANGED <<queue, saved>>
    /\ UNCHANGED <<app, events, stateFile, disk, db, mirrored, oper, maint,
                   attached, history>>

\* DataMirror::write takes a number up to the last one written for an old
\* block.  (It tests the addresses of two flags and not the flags: blocks 0
\* and 1 are never old.)
IsOld(b) == b <= curBlock /\ b > 1

\* send: a block that the mirror does not take goes to the stream only.
SendPast ==
    /\ app.pc = "idle" /\ job = "none" /\ app.next <= MaxBlock
    /\ mirror.ok => IsOld(app.next)
    /\ app' = [app EXCEPT !.next = @ + 1]
    /\ passed' = IF mirror.ok THEN passed ELSE passed \cup {app.next}
    /\ UNCHANGED <<mirror, job, events, stateFile, disk, srvVars, attached,
                   expired, lost, torn, overtaken, count>>

SendMirrored ==
    /\ app.pc = "idle" /\ job = "none" /\ app.next <= MaxBlock
    /\ mirror.ok /\ ~IsOld(app.next)
    /\ job' = IF mirror.bytes >= FileBlocks THEN "switch" ELSE "write1"
    /\ UNCHANGED <<app, mirror, events, stateFile, disk, srvVars, attached, history>>

\* switchFile: reports the end of the file.  If that fails the file is used
\* further, for as many blocks.
ReportEnd ==
    /\ job = "switch"
    /\ IF Served /\ mirrored
       THEN CloseFile(curFile) /\ job' = "next" /\ UNCHANGED mirror
       ELSE /\ mirror' = [mirror EXCEPT !.bytes = 0] /\ job' = "write1"
            /\ UNCHANGED <<queue, saved>>
    /\ UNCHANGED <<app, events, stateFile, disk, db, mirrored, oper, maint,
                   attached, history>>

\* switchFile: the next file.
NextFile ==
    /\ job = "next" /\ job' = "switched" /\ curFile' = curFile + 1
    /\ mirror' = [mirror EXCEPT !.file = curFile', !.bytes = 0, !.linked = TRUE]
    /\ disk' = [f \in DOMAIN disk \cup {curFile'} |->
                   IF f \in DOMAIN disk THEN disk[f] ELSE << >>]
    /\ UNCHANGED <<app, events, curBlock, srvVars, attached, history>>

\* DataMirror::write puts the block into the file and then its number into
\* the state file.
Store ==
    /\ IF mirror.linked
       THEN disk' = [disk EXCEPT ![mirror.file] = Append(@, app.next)] /\ UNCHANGED lost
       ELSE lost' = lost \cup {app.next} /\ UNCHANGED disk
    /\ UNCHANGED curBlock
Mark == curBlock' = app.next /\ UNCHANGED <<disk, lost>>

\* Mutant: the number is saved before the block.
HalfSwapped(k) == IF k = 1 THEN Mark ELSE Store

Half(k) == IF k = 1 THEN Store ELSE Mark

WriteFirst ==
    /\ job = "write1" /\ job' = "write2" /\ Half(1)
    /\ UNCHANGED <<app, mirror, events, curFile, srvVars, attached, expired,
                   passed, torn, overtaken, count>>

WriteSecond ==
    /\ job = "write2" /\ job' = "none" /\ Half(2)
    /\ mirror' = [mirror EXCEPT !.bytes = @ + 1]
    /\ app' = [app EXCEPT !.next = @ + 1]
    /\ UNCHANGED <<events, curFile, srvVars, attached, expired, passed, torn, overtaken, count>>

\* transactionCommit of all that was sent, and transactionTerminate.
EndTransaction(committed) ==
    /\ app.pc = "idle" /\ job = "none" /\ Served /\ app.next > Resend
    /\ app' = IF committed THEN [app EXCEPT !.done = app.next - 1]
                           ELSE [app EXCEPT !.next = Resend]
    /\ UNCHANGED <<mirror, job, events, stateFile, disk, srvVars, attached, history>>

\* closeTransfer: the server first, then the mirror, and at last the threads
\* of the events are joined.
CloseTransfer ==
    /\ app.pc = "idle" /\ Served /\ job \notin {"switch", "next", "switched", "write1", "write2"}
    /\ attached' = FALSE /\ app' = [app EXCEPT !.pc = "closing"]
    /\ UNCHANGED <<mirror, job, events, stateFile, disk, srvVars, history>>

DropMirror ==
    /\ app.pc = "closing" /\ job = "none" /\ mirror' = NoMirror
    /\ app' = [app EXCEPT !.pc = "joining"]
    /\ UNCHANGED <<job, events, stateFile, disk, srvVars, attached, history>>

\* destroy(), or close() of an application that has found the server lost.
Destroy ==
    /\ \/ app.pc = "joining"
       \/ app.pc # "down" /\ ~app.conn
    /\ job = "none" /\ events = NoEvents /\ mirror' = NoMirror
    /\ app' = [app EXCEPT !.pc = "down", !.conn = FALSE]
    /\ UNCHANGED <<job, events, stateFile, disk, srvVars, attached, history>>

\* The threads of the events: AES_EVMIRROROFF ...
EventOff ==
    /\ events.off > 0 /\ job = "none" /\ events' = [events EXCEPT !.off = @ - 1]
    /\ IF mirror.on
       THEN curBlock' = 0 /\ mirror' = NoMirror /\ job' = "remove"
       ELSE UNCHANGED <<curBlock, mirror, job>>
    /\ UNCHANGED <<app, curFile, disk, srvVars, attached, history>>

\* ... with CMD_REMOVEMIRROR ...
ReportRemove ==
    /\ job = "remove" /\ job' = "none"
    /\ IF Served
       THEN RemoveMaintainer /\ mirrored' = FALSE
       ELSE UNCHANGED <<maint, queue, saved, curFile, mirrored>>
    /\ UNCHANGED <<app, mirror, events, curBlock, disk, db, oper, attached, history>>

\* ... and AES_EVMIRRORON.
EventOn ==
    /\ events.on > 0 /\ job = "none" /\ events' = [events EXCEPT !.on = @ - 1]
    /\ IF mirror.on THEN UNCHANGED <<mirror, disk, curBlock, job>> ELSE OpenMirror
    /\ UNCHANGED <<app, curFile, srvVars, attached, history>>

\* The application dies, at any point.
Crash ==
    /\ app.pc # "down" /\ count.crash < MaxCrashes
    /\ count' = [count EXCEPT !.crash = @ + 1]
    /\ torn' = (torn \/ job = "next")
    /\ app' = [app EXCEPT !.pc = "down", !.conn = FALSE]
    /\ mirror' = NoMirror /\ job' = "none" /\ events' = NoEvents
    /\ UNCHANGED <<stateFile, disk, srvVars, attached, expired, lost, passed, overtaken>>

Library ==
    \/ CreateMirror \/ ReportBegin \/ ReportEnd \/ NextFile \/ WriteFirst
    \/ WriteSecond \/ DropMirror \/ Destroy \/ EventOff \/ ReportRemove \/ EventOn

Svc == SvcStart \/ Expire \/ RemoveRecord \/ SvcLeave \/ SvcCleanup \/ SvcEnd

Next ==
    \/ Library \/ Svc \/ OpenTransfer \/ SendPast \/ SendMirrored
    \/ \E c \in BOOLEAN : EndTransaction(c)
    \/ CloseTransfer \/ Crash
    \/ SessionLost \/ ChangeDatabase \/ ChangeSession \/ SetMirrored \/ ServerCrash

Spec == Init /\ [][Next]_vars

\* The threads run: the maintainer wakes up every two seconds, a command in
\* hand is finished, and a broken connection is noticed.
FairSpec ==
    /\ Spec /\ WF_vars(Library) /\ WF_vars(Svc) /\ WF_vars(SessionLost)
    /\ WF_vars(ChangeSession \/ SetMirrored)

-----------------------------------------------------------------------------
(* Properties.                                                             *)

LibraryType ==
    /\ app \in [pc : {"down", "create", "idle", "closing", "joining"}, conn : BOOLEAN,
                next : Blocks, done : Blocks \cup {FirstBlock - 1}]
    /\ mirror \in [on : BOOLEAN, ok : BOOLEAN, file : Nat, bytes : Nat, linked : BOOLEAN]
    /\ job \in {"none", "begin", "switch", "next", "switched", "write1", "write2", "remove"}
    /\ events \in [{"on", "off"} -> Nat]
FilesType ==
    /\ curFile \in Files /\ curBlock \in {0} \cup Blocks
    /\ DOMAIN disk \subseteq Files /\ \A f \in DOMAIN disk : disk[f] \in Seq(Blocks)
Queues == [closed : Seq(Files), opened : SUBSET Files]
ServerType ==
    /\ {db, mirrored, attached} \subseteq BOOLEAN /\ oper \in {"idle", "session", "flag"}
    /\ maint \in [phase : {"off", "starting", "running", "deleted", "leaving", "ending"},
                  exit : BOOLEAN, mapped : BOOLEAN, open : BOOLEAN]
    /\ {queue, saved} \subseteq Queues
HistoryType ==
    /\ expired \cup lost \cup passed \subseteq Blocks /\ {torn, overtaken} \subseteq BOOLEAN
    /\ count \in [crash : Nat, switch : Nat]
TypeOK == LibraryType /\ FilesType /\ ServerType /\ HistoryType

\* A block is never written to a file that the maintainer has deleted, where
\* nobody would find it: not after one crash between the report of a full file
\* and the step to the next one, nor with the operator switching the mirror.
\* With a second crash, of the server that has just deleted the file and not its
\* record, it happens: README, section 7.
NoBlockIntoDeletedFile == lost = {}

\* A block that the receiver has committed is in the mirror, or was in a file
\* that has been deleted when its time was over.  Blocks sent while no mirror
\* was ready are not mirrored.  The application starts again from the last
\* committed block, and DataMirror::write skips what it takes for old.
CommittedAreMirrored ==
    \A b \in FirstBlock .. app.done :
        b \in passed \cup expired \cup UNION {Range(disk[f]) : f \in DOMAIN disk}

\* The files of the mirror, one after the other, hold the blocks in order: a
\* block may be there twice, in place, and never again after a later one,
\* until the operator switches the mirror.
BlocksInOrder ==
    count.switch = 0 =>
        \A f, g \in DOMAIN disk : \A i \in DOMAIN disk[f], j \in DOMAIN disk[g] :
            f < g \/ (f = g /\ i < j) => disk[f][i] <= disk[g][j]

\* The maintainer has a record of every data file except the current one:
\* without it the file stays on the disk for good.  Two exceptions were found:
\* an application that dies between the report that a file is full and the step
\* to the next one, just when that file is deleted; and a maintainer created
\* again while its thread leaves, which has closed its queue.
FilesAreKnown ==
    torn \/ overtaken
        \/ \A f \in DOMAIN disk \ {curFile} : f \in Known(queue) \cup Known(saved)

\* No thread is in the loop, though none was told to leave: one was created
\* again while it left, and is not started; or the server crashed with the
\* mirror switched off in the database, and the next one makes no maintainer,
\* whatever files the one before had still to delete.
Unattended == maint.phase \in {"leaving", "ending", "off"} /\ ~maint.exit

Closed(f) == f \in Range(queue.closed) \cup Range(saved.closed)

\* The file was deleted after the application had died in the step to the next
\* one, which has begun the file again before its record is removed.
BegunAgain(f) == torn /\ maint.phase = "deleted" /\ f = Head(queue.closed)

\* A file on disk that is closed, in the maintainer's queue or in the one it has
\* saved, is deleted some day, also when the operator switches the mirror off
\* and the maintainer leaves, and when a crash takes the queue in memory; unless
\* the files are left unattended, and then from the time a maintainer is
\* created that runs; or the record that is about to be removed was of a file of
\* the same name.  (Within the bounds no later file is ever closed.)
ClosedAreDeleted ==
    \A f \in 1 .. MaxBlock + MaxSwitches - 1 :
        f \in DOMAIN disk /\ Closed(f)
            ~> f \notin DOMAIN disk \/ Unattended \/ BegunAgain(f)

\* The comment in create() says that a running maintainer accepts the new
\* order: a mirrored queue has a maintainer.  It does not hold: README, section 7.
MirroredIsMaintained ==
    mirrored /\ oper = "idle" => maint.phase \in {"starting", "running", "deleted"}

=============================================================================
