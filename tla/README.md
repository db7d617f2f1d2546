# AES: a TLA+ verification project

AES is a set of daemons and client libraries, written in C++ on
ACE, that carry data from applications on a control processor (CP) to destinations outside the node. This
directory holds TLA+ models of its core logic, TLC configurations that check them, and TLAPS proofs.

The models cover four of its programs. **DDT** (Direct Data Transfer) takes records over a protocol called
MTAP, acknowledges them once they are in a store of replicated checkpoints, and sends them from there to a
peer. **DBO** (Data Block Output) mirrors the blocks that an application sends. **AFP** (Automatic File
Processor) keeps queues of files and has **CDH** (CP Destination Handling) send them to destinations. What
they share is the promise of a queue: what was accepted is kept until it was delivered, in order, over
failures and restarts. The models are about that promise; formats, protocols and configuration are left out.

Contents: 1 Inventory · 2 Plan · 3 The modules and the code · 4 Runs and bounds · 5 Fairness · 6 Proofs ·
7 What the models found · 8 What is not modelled

## 1. Inventory

### DDT (`src/ddt_cnz/ddtadm_caa`)

| part | state | operations | talks to |
|---|---|---|---|
| store writer (`store/checkpoint/writer.cpp`, `storebase.cpp`, `state/*.cpp`) | current step, handle and name of the checkpoint, offset, index | write, getNumberOfWrittenRecord, getLastMessage, setMessageIndex, forceStoreChange, shutdown | checkpoint service; strategy (new store); memory |
| store reader (`reader.cpp`, same state classes) | current step, handle and name, offset, index, sections deleted, sections read and not committed, iterator | read, commit, close | checkpoint service; strategy (next store, removal) |
| strategy, producer list (`strategy.cpp`, `producerinfo.cpp`) | store names of every producer, in order; its writer and readers | makeWriter, makeReader, getNewStoreName, removeStoreName, resetReader, storeEmpty, rebuild, shutdown, clean | status handler, memory |
| status handler (`statushandler.cpp`) | a section per producer in a "status" checkpoint: the list of store names | load, add, remove | checkpoint service |
| memory controller (`memorycontroller.cpp`) | memory used, maximum | allocate, free, increaseUsed | |
| StoringManager (`store/storingmanager.cpp`) | one strategy per data source, a mutex, observers | getWriter, getReader, storeEmpty, subscribe, rebuildStoreState, shutdown | strategies, data sinks |
| block and file assemblers (`engine/blockassembler.cpp`, `fileassembler.cpp`, `dataassembler.cpp`, `timer.cpp`) | chunk, number of records in it, hold timer, remote file | svc loop, getChunk, transmitChunk, handleError, stop | store reader, data sink |
| data sink, peers, peer monitor (`engine/datasink.cpp`, `peer*.cpp`, `blockpeer.cpp`, `filepeer.cpp`) | active peer, valid and faulty peers, assemblers, timer | pushData with retries, failover, notifyValidPeer, switchActivePeer, surveillance | connections, assemblers |
| data sources, contexts (`engine/datasource*.cpp`, `context.cpp`) | sources with their peers and formats | create, modify, delete | all of the above |
| MTAP server (`mtap/*.cpp`) | sliding window (slots, base record number), sessions | put, synchronize, unlink, option negotiation | writer, client |
| operations, scheduler, IMM, alarms, daemon | queue of operations, objects of the configuration service | as in the listed files | all of the above |

Threads: one per MTAP data channel (owns a writer), one per assembler (owns a reader), the peer monitor,
the scheduler, the reactor. Writer and reader of one producer share nothing in memory but the list of names
and the memory counter, under the StoringManager's mutex; they meet in the *checkpoints*.

Hard behaviours. (a) Every operation of a writer or a reader is a loop over small steps, every one of which
may fail at the checkpoint service; the step reached is kept, and the *next call* repeats it. (b) Writer and
reader interleave between steps. (c) The list of stores, the info section (offset and index of a writer)
and the sections are persisted at different moments, so a restart or a crash meets them out of step. (d) A
write that times out may have been done. (e) Memory at its limit is cleared only by the reader removing a
store, and the reader never removes the last one. (f) Synchronisation and unlink of MTAP move the writer's
index and close stores early.

What makes the components correct: an acknowledged record is committed or still in a listed store; commits
are in order and without repetition; a store is dropped only when sent; a full store is never written again;
the memory counter is that of the list; what an operator reads as "last message" is the number acknowledged;
`storeEmpty` is answered yes only if nothing is left; an assembler commits what a peer took; all that was
acknowledged is delivered in the end and a producer that repeats its record is served in the end.

### The other programs

| part | state | what makes it correct |
|---|---|---|
| DBO (`src/dbo_cnz`): transfer queues of data blocks; the client library mirrors what it sends in files | per queue: destination set, open flag, mirror queue with removal times; client: current mirror file and block, flags shared through a mapped file | a block is mirrored once, mirrors are removed only after their delay, a transaction repeated after a lost link neither loses nor doubles blocks |
| CDH (`src/cdh_cnz`): destination sets with a primary, a secondary and a backup destination; FTP, SFTP and block destinations; notifications | active destination, state of every destination, notifications kept for resending | failover picks a destination that works and returns; a notification is not lost over a restart |
| AFP (`src/afp_cnz`): transfer queues of files kept as directory entries | a file's state (reported, being sent, failed, archived, removed), priorities, retries, removal timers | a file is sent until acknowledged, never removed before, states survive a restart |
| GCC (`src/gcc_cnz`), OHI (`src/ohi_cnz`): client libraries | connection, event subscriptions, handles | a handle's calls follow its protocol |
| GOHST (`src/gohst`): load generator | counters | test tool |
| `*_cxc`, `src/rose_units` | | packaging, exported UML |

`PROJECT.json` lists them with their files and, under `hazards`, what in them is hard to test, line by line.

## 2. Plan

| module | models | with |
|---|---|---|
| `DdtStore` | writer, reader, list of stores, memory, restarts of one producer | refines `DdtLog` |
| `DdtStore_proofs` | theorems about `DdtStore`: types, memory, counts, what it delivers, and that it is a log | EXTENDS it |
| `DdtBlockAssembler` | the block assembler that uses the reader | EXTENDS `DdtStore`, refines its specification |
| `DdtBlockAssembler_proofs` | theorems about the assembler | EXTENDS it and `DdtStore_proofs` |
| `MtapWindow` | the sliding window, its sessions and a CP that resends | an abstraction of the writer's calls |
| `MtapWindow_proofs` | theorems about the window | EXTENDS it |
| `DdtSink` | data sink, peers, peer monitor, loop of the file assemblers | |
| `DdtSink_proofs` | theorems about the sink | EXTENDS it |
| `DboMirror` | mirror of a transfer queue between library and server | |
| `DboMirror_proofs` | theorems about the mirror | EXTENDS it |
| `CdhDestSet` | a destination set: fail-over and commands | |
| `CdhDestSet_proofs` | theorems about the set | EXTENDS it |
| `CdhServR` | the tasks of the CDH server and what it remembers of them | a destination set is "delivered or not" |
| `CdhServR_proofs` | theorems about the server | EXTENDS it |
| `AfpQueue` | a transfer queue of AFP and its CDH task | CDH is a destination set's tasks, its record of what was sent last, and "delivers, fails, loses the answer" |
| `AfpQueue_proofs` | theorems about the queue | EXTENDS it |
| `MC*` | what TLC needs: tuples of model values, definitions for constants | |

Possible continuations, by value: `StoreEmptySound` over restarts, and the delivery over graceful
restarts (their invariants need what the info section says of a store that nobody has open); the blocks of the mirror
while the operator switches it, as a theorem; `AfpQueue` over `CdhServR` instead of the part of it that the queue sees; manual queues
and the statuses ARCHIVE and REMOVE of AFP; the arithmetic of the size of a store; the scheduler of operations
and the life of a data source; block peers.

## 3. The modules and the code

### `DdtStore`

One producer of one data source. *A record is a number*: the producer writes 1, 2, 3, ... and repeats a
record until `write` reports success, as the MTAP client does. `acked` is the history of what it was told
and `out` that of what was committed; the code has neither.

| variables | code |
|---|---|
| `made info data stub` | the checkpoints: existing, INFO section `offset_index`, record sections, `STUB` section |
| `saved` | the producer's section of the status checkpoint |
| `names used nextName` | `ProducerInfo::m_checkPointNames`, `MemoryController::m_usedMemory`, the clock that `assembleCheckPointName` takes names from |
| `wst wopen wname woff widx` | the writer's current state object, handle, `m_checkpointName`, `m_messageOffset`, `m_messageIndex` |
| `wop` | the loop that runs the steps: `init`, `first`/`loop` (write), `qfirst`/`qloop` (getNumberOfWrittenRecord), `force` |
| `rst ... rcur rop rres` | the reader's, with `m_deletedSections`, `m_readRecords`, `m_readNext`, the section at hand and the result of the last read |

One action is one `handleStep()` together with the `getNextStep()` that follows: the code holds no lock over
a loop of steps, so this is where the other thread can run. The results of `handleStep` that matter are
`ok`, `full`/`empty`, `again`, `waitcommit`, `err`, `iterr`. `WriterAfter` and `ReaderAfter` are the loops:
*the first step of a call is followed by getNextStep whatever it returned*, the later ones stop at an error
and leave the state as it was.

| actions | code |
|---|---|
| `WriterOpen WriterReadInfo WriterWrite WriterUpdateInfo WriterClose WriterGetNew` | the state classes and the Writer's methods they call |
| `MakeWriter WriterCall ForceStoreChange SetMessageIndex` | `Strategy::makeWriter`, `Writer::write` and `getNumberOfWrittenRecord`, `forceStoreChange`, `setMessageIndex` |
| `ReaderOpen ReaderReadInfo ReaderIterInit ReaderRead ReaderWait ReaderClose ReaderDelete ReaderGetNew` | the state classes and the Reader's methods |
| `MakeReader ReadCall CommitSent CommitNothing ResetReader` | `makeReader`, `read`, `commit(n)`, `commit(0)`, `resetReader`, as the assemblers call them |
| `Shutdown Crash` | `Strategy::shutdown` then `rebuild` in a new process; `rebuild` alone |

Failures: `Faults` names the kinds of service failure a configuration allows and `MaxFaults` bounds their
number. `late` is an append that timed out and was done; `del` a deletion that failed (the code logs it);
`flush` a shutdown whose info section is not written; the others are named after the step.

Abstractions: contents, sizes and formatting of records and sections; trace and debug files; the read
event (a reader's thread polls it: here it may read at any time); one producer (stores of several share
only the memory limit). The mutex of the StoringManager is held while a writer or reader is made and
initialised: the guards `wop # "init"`, `rop # "init"`.

### `DdtLog`

The promise: `Write` accepts the next record, `Deliver` delivers the next ones, once and in order, and does
so in the end. `ImplementsLog` in `DdtStore` maps `written <- acked`, `delivered <- out`. `SafeSpec` is the promise
without its liveness.

### `DdtBlockAssembler`

`EXTENDS DdtStore`, replacing its free user of the reader by `BlockAssembler::svc`: `pc` is the place in the
loop. `StartChunk`, `GetRecord`, `ReadReturned`, `PushChunk`, `CommitPushed`, `PushFails` follow the code; a crash
can come between the push and the commit. `sent` is the history of what a peer took. `UsesStoreAsSpecified`
(the assembler's behaviours are behaviours of `DdtStore!Spec`) is what makes the results of the free user
apply to it.

### `MtapWindow`

A channel of the MTAP server with the CP at the other end. The channel's reactor has one thread and handles
a PDU under the mutex, so a PDU is an action.

| variables | code |
|---|---|
| `active slot base` | `m_activeSessions`, `m_sortedPutRecords`, `m_baseOffsetRecNr` |
| `store` | the current store's number, `m_messageIndex`, whether older stores exist, what is written and where |
| `chan up file sent closing asker acked` | the CP: PDUs under way per connection (FIFO), its file, how far it is, what it may forget |

`HandleInput` is `handle_input` with the handler of the PDU: `PutRecord`, `Unlink`, `Synchronize`. They use
`Add`, `Ready`/`AtGap`/`Rotated` (how far store() gets), `Written`/`StoreChanged`/`OpenStore` (the writer's calls,
each may fail; `Written` puts a set of slots into the places that follow, the k-th slot into the k-th place),
`LastStored`/`Missing` (what a synchronisation answers). `HandleClose` is a lost connection seen by the
reactor. The CP is external: it resends what was not acknowledged, after the loss of *all* connections in
the middle of a file it synchronises once, it unlinks only with nothing under way, sends no record after it
asked to unlink, and repeats nothing but the unlink after a failed one. Records are not empty. A failing
write stores nothing.

### `DdtSink`

One action per section that a thread runs under `m_serialStreamMutex` or the StoringManager's mutex; a
section of several steps holds `serial` or `notifying`.

| variables | code |
|---|---|
| `valid status active` | peers not in `m_faultyPeers`, `Peer::m_status` with its copy in IMM, `m_activePeer` |
| `svc toStart running pushers` | place in `DataSink::svc`, its list of producers, `m_running`, `m_pushers` |
| `timerId armed queue mon todo shutDown` | the monitor: `m_timerId`, the reactor's timer, its message queue, place in its `svc`, peers to verify, `m_shutDown` |
| `at job event stopReq` | the assemblers: place in `svc`, open or push, `m_validPeerEvent`, `m_stopRequested` |
| `stop` | place in `DataSink::stop` |

Task of the sink: `SinkBegin SetActivePeer GetProducers StartAssembler Subscribe StartMonitor`. A producer:
`NewProducer KeepPusher`. An assembler: `GetReader Top`, then the outcome of a whole transfer with its
retries (`Succeed NoActivePeer FailWhileRunning FailDuringStop`), `Mark Schedule Switch` (the steps of
`switchActivePeerOnError`), `Awake StopWaiting`. The monitor: `Timeout GetMessage Verify NotifyValidPeer
Reschedule`. The operator: `SwitchActivePeerAction`. Stop: `StopBegin StopAllSurveillance Unsubscribe
StopPusher StopPushersEnd StopEnd`. Peers go down and come up (`PeerDown PeerUp`).

### `DboMirror`

| variables | code |
|---|---|
| `app mirror job events` | the sender, its `mirror_` (DataMirror), the step under `mirrorMutex_`, threads that handle events |
| `curFile curBlock disk` | the mapped state file, the data files and the blocks in them |
| `db mirrored attached oper` | the queue in the database, the session's `mirrored_`, its client, the operator's handler |
| `maint queue saved` | the maintainer thread, its `mirrorqueue` and that queue's file |

Library: `OpenTransfer CreateMirror SendPast SendMirrored ReportEnd NextFile ReportBegin WriteFirst
WriteSecond EndTransaction CloseTransfer DropMirror Destroy`, events `EventOff ReportRemove EventOn`. Server:
`ChangeDatabase ChangeSession SetMirrored SessionLost SvcStart DelayIsOver Expire SvcLeave SvcCleanup SvcEnd`.
`Crash` and `ServerCrash` end a process. A command and its handler are one action. A write of a block is two
(the block, its number), as is a switch of files. The state file survives a process; that three of its fields
lie past its end (`DataMirror.cpp:83`) matters to a reboot only.

### `CdhDestSet`

`slot member active newActive changeSlot used inProgress` are the members of `TransDestSet` of about the same
name; `phase result` the place of the thread in `intSendFile`. `Begin Send Answered NotAnswered StopSeen
SwitchDestAuto SwitchDestManual Leave` are the thread; `SwitchDestination AddDestination ChangeDestination
RemoveDestination SwapSlots SwapUsed` the commands, and `Activate` the end of a switch or change that found no
transfer. The thread takes `transDestMutex` in `SwitchDestAuto` and `SwitchDestManual` only: it sets
`transferInProgress` and reads `activeDest` without it, so that `Begin` and `Send` may fall between the look for a
transfer and `Activate` (`:764` and `:772`). `activating` says that the mutex is held there. The swap takes no
mutex: it is two actions. Any other command is one. `Impatient` allows a command on top of a deferred one.

### `CdhServR`

`tasks queue thread` are `sendFileTaskList_`, the message queue of the set's thread and its place; `sentList
sentFile` are `statusList_` and the lines of its file. `SendFile StopSendFile StopDone StopTimeout StopTasks`
come from the users' sessions, `Take Deliver NotDelivered SaveStatus SendFileDone SendFileReply` are the
thread, `Crash` a restart with `fileSentStatusRecover`. `Written` is what is left after the list was written
entry by entry. The users are AFP: they ask again with `retryAfterRestart` after their own restart.
`stopper` holds the stop commands that have not returned, by number: each has left the address of a semaphore on its
stack (`sem`, the number) in the task it stops, whether or not that task is stopped already. `restopped` marks the
users whose task was stopped a second time; what they are told is a limit of the code (7).

### `AfpQueue`

`tq` is `aes_afp_transferqueue`: the files' statuses, `older`, which is `timeSortedMap_` as a relation (a file reported
is put after those of `before`, wherever its date belongs), `last` and `next` (`lastFileToBeTransfered_Itr`,
`nextFileToBeTransfered_Itr`), `transferFile`, and the messages to the task.
`task manageQ callback` are `aes_afp_cdhtask`: what is in transfer, the resend flag, the message queue.
`Report TransferFailed TransferFailedFile RemoveFile StopSendAll DeleteFiles` are operations on the queue
under `synchOnFileMap`; `Finished ReadyAgain` are `changeFileStatus`, `Restarted` is `resendFiles`
with its loop over the files, `AllReadyAgain`. The
thread: `TakeFile Mark RetryNow Handle...`, one per message. The interface to CDH: `EventOk EventFailed
EventRetry EventNoServer FinishEvent`. `Crash` is a restart of AFP that reads the files' statuses from disk.
Of CDH there is what this queue sees. `cdh.tasks` are the queue's entries of `sendFileTaskList_`, in the order in which
the set's thread does them, `cdh.sent` its entry of `statusList_`, which holds one for each user, and `cdh.written` that
entry as far as it is in the list's file. `Kind` is `ServR::sendFile`: a task, "task exists", or "already sent" for a
marked request that the entry names. `Done` is `sendFileDone`; `OrphanDone` a task whose asker has gone. `CdhCrash`
leaves of the entry at most what is in the file, and not even that if another user's entry was written last, as the
file is emptied for each entry (`servr.cpp:5324`); a CDH that is stopped saves no more than that. External is
`CdhRestart`, and which answer CDH gives.

`outOfTurn` marks histories in which a known limit of the code (7) has struck; the properties are about the
others. `unsure` marks files that a crash of CDH took along, those whose entry among what was sent it took along, and
those that an operator sent again.

## 4. Runs and bounds

The bounds are constants whose names begin with `Max`; the guards that use them are the only cuts.

| run | what it shows | bounds |
|---|---|---|
| `store_faults` | two failures anywhere, synchronisations (also past the end of a store) and early closing: nothing acknowledged is lost, repeated or reordered, stores are dropped only when sent | 2 sections, memory 2, 3 stores, 3 records |
| `store_crash` | crashes, failed shutdowns and a failed close: nothing committed is delivered again, memory is recounted | memory 4, 4 stores, 4 records, 2 restarts |
| `store_restart` | two graceful restarts and a failure: nothing lost, count exact, `storeEmpty` sound | memory 4, 4 stores, 4 records |
| `store_live` | a failure anywhere with memory at its limit: the store implements `DdtLog`, and a producer is served in the end | memory 2, 4 stores, 3 records |
| `block_assembler` | what is committed was taken by a peer, also around a crash; a chunk is what its commit deletes; the assembler is a legal user of the store | chunk 3, memory 4, 4 records, 2 failures, 1 restart |
| `mtap_window` | what the CP may forget was written, once, in order, into the store of its file; a CP that resends is acknowledged | 2 connections of which 2 are lost in all, window 2, stores of 3, 2 files, a failure |
| `sink` | no faulty peer is forgotten, no assembler waits in vain, stop ends | 2 peers, a producer, a peer that fails, a status that is not written, a switch |
| `dbo_mirror` | committed blocks are in the mirror, in order; closed files are deleted, unless nobody is left to do it | 2 blocks, a block per file, 5 files, 2 switches, a crash |
| `cdh_dest_set` | the active destination is of the set, none is in two places, all are tried before giving up unless thread and command overtake each other, a transfer ends | 4 destinations, 3 slots, 3 commands |
| `cdh_servr` | one answer per request unless a stopped task is stopped again, success only for a delivered file, no second delivery of a file on record, no semaphore of a stop that has returned, an answer for each | 2 users, 2 files each, 3 events: a restart, a crash, two stops |
| `afp_queue` | deleted means delivered; SEND means under way; delivered twice only if unsure; the oldest first; every file leaves READY | 3 files, 1 retry, 2 events (crash, command, clock set back) |
| `cdh_sent_forgotten` | a violation, see 7 | 2 users, a file each, a crash |

Why the bounds suffice. *Store*: 2 sections give a first, a last, a full and a partly deleted state; 3
records with early closing spread over three stores, one more than memory holds; 4 fill two; the second
failure fails the repetition of the first. A chunk of 3 over stores of 2 is cut by its own end and by the
store's. Restarts have memory to spare because a restart with full memory is a known flaw (7). *Window*: 2
slots hold a gap and what follows it, 2 connections reorder, 2 files let a late record meet the next file;
a CP window of 3 exceeds the server's. *Sink*: two peers are the one that fails and the one that takes over;
with one failure the second is also seen to be the only one. Two producers were checked for the invariants
alone (1.8 million states), with the same result. *Mirror*: a block per file makes every block a switch of
files. Two crashes lose blocks (7), so there is one. *Destination set*: all three slots and one destination
outside; three commands are a deferred one and two that disturb it. *Server*: two stops are of one task, or of both users'
tasks, or one that waits and a `stopTasks`; in one history with each other and with a crash or a restart. *AFP*: three files are one under way, one
passed over and one to pass it.

Deadlock is checked in the runs of the store, where a reader can always read again; the others stop when all
files, records or blocks of the bound are served, and so their configurations say `CHECK_DEADLOCK FALSE`;
that nothing stops earlier is what their liveness properties say.

Every property is tested against a mutation of the code it speaks of (`mutants` in `PROJECT.json`): the
operators whose comment says "mutant" or "what forgetting it would leave" (`FreeNothing`, `CloseAlways`,
`StoreKept`, `Unmarked`, ...) are those mutations, used nowhere else.

Some properties are stated and hold under the same configurations but are not in a run, being near to others
that are: `FullStoreGrowsNot`, `EventuallyDelivered` (implied by `ImplementsLog`), `StatusTellsPeers`,
`NoBlockIntoDeletedFile`, `FilesAreKnown`, `MembersAreInSlots`, `ReadyWaitsForSend`. (`FullStoreGrowsNot`,
`StatusTellsPeers` and `MembersAreInSlots` are theorems, section 6.) `EveryProducerIsServed`,
`StopLeavesNoSurveillance`, `MirroredIsMaintained` and `AllExistingUsed` are comments of the code that do not hold (7). The type
invariants `TypeOK` of the later modules can be added to their runs in the same way.

## 5. Fairness

`ReaderFairness`: a thread inside a call takes its next step (WF of `WriterStep`, `ReaderStep`): nothing in
the loops blocks but the service calls, which return or time out. The assembler's thread makes its reader
and reads again and again (WF of `MakeReader`, `ReadCall`): its `svc` loops until stopped. `CommitSent` has
strong fairness: with records in the chunk the hold timer, a full chunk or `waitcommit` makes the assembler
transmit, again and again, and a transfer that is tried forever succeeds in the end; a single attempt may
always fail (`CommitNothing`), so weak fairness would not say it. A FileAssembler answers an error before it
reads on (WF of `CommitNothing` after an error, `ResetReader`), which is the order of its loop.
`WriterFairness`, the hypothesis of `EventuallyWritten`: a client repeats a record until acknowledged (WF of
`WriterCall`), and a writer that waits for the mutex or for memory gets them if they are free again and again
(SF of `MakeWriter`, `WriterGetNew`); the other hypothesis is that the memory counted is that of the stores,
because a removal that failed half-way keeps its memory for good (7).

`MtapWindow`: the reactor handles what has arrived and sees lost connections; the CP reconnects and resends
each record that is not acknowledged. `DdtSink`: every thread goes on; the mutex of the sink is granted in
the end to an assembler (SF of `Transfer`) and to the monitor (SF of `NotifyValidPeer`), the operating
system's mutexes being fair enough for that; peers need not come back, `WaitersGoOn` says what follows if
one does for good. `DboMirror`: the library, the maintainer, the session's end and the operator's handler go
on; the application need not. `CdhDestSet`: the thread goes on, a swap and an activation end; no fairness of commands.
`CdhServR`: the thread goes on, and each stop's wait ends, at the latest when its 30 seconds are over. `AfpQueue`: the thread goes on, CDH answers what it has, and
a crashed CDH is restarted (the cluster's availability manager does it).

Failures, crashes, restarts and operators have no fairness anywhere; they are finite by their bounds.

## 6. Proofs

Every theorem holds for every value of the constants that the module's assumption allows, any number of
failures, crashes and losses included, unless a hypothesis says otherwise. Each inductive invariant was checked
with TLC before it was proved; the step lemmas are one per action, the helpers have lemmas of their own.

### The store: `DdtStore_proofs`

* **TypeCorrect**: `TypeOK`. It is not inductive: opening a store needs the writer to *have* a name, `GETNEW` of
  a reader takes the head of a list that must not be empty, and a section that is read again must be one.
  `TypeInv` adds `WriterHasStore`, `ReaderHasStore`, `SectionAtHand`.
* **MemoryCorrect**: if the service removes checkpoints and saves the list when asked (`ListServiceWorks`: the
  faults `unlink`, `status` do not occur), `MemoryMatchesStores`, whatever else fails, with crashes and restarts.
  `MemoryInv` adds that the saved list is the list in memory (a restart recounts from it), and that a reader works
  on the *oldest* store of the list, hence what it removes is in the list. Without the assumption: 7, `unlink`.
* **CountCorrect**: in one process without synchronisations (`OneProcess`), `WrittenCountExact`. `CountInv` adds
  that offset plus index count the acknowledged records in *every* step of the writer, and that a store not yet
  opened has no info section, so that a writer that opens it keeps its count.
* **OnceCorrect**: `DeliveredOnce`, over crashes and restarts, if the service says of every write and deletion
  whether it was done (`ServiceIsSure`: no fault `late` or `del`; with one a section is delivered and deleted, then
  written again, 7). `OnceInv`: every record is in *one* place, a section of one store or once among those
  committed; and the sections that the reader has read are held, in order, and behind its iterator (`HandInv`),
  so that a commit deletes what it hands over.
* **NothingLost**, **InOrder**, **OnlySentDropped**, **FullStoresAreKept**: `NoAckedRecordLost`,
  `DeliveredInOrder`, `OnlySentStoresDropped`, `FullStoreGrowsNot`, for one process whose service is sure
  (`SureProcess`: `MaxRestarts = 0` and `ServiceIsSure`). `LogInv` = `OnceInv`, and *where* things are
  (`PlacesInv`: the list is in the order of creation, the reader is at its head or has just taken it off, the writer
  at its end and past all that is held there, a store is left only with its mark and empty), and *what follows what*
  (`FollowInv`: the sections held are the records after those committed, in the order of stores and sections; what
  was read is the next of them, and the iterator has passed no other). With a restart these fail for the reasons in
  7 (a crash, a failed close), so `MaxRestarts = 0` is not for convenience; graceful restarts that succeed are left
  to the runs `store_restart` and `store_crash`.
* **EmptyMeansSent**: `StoreEmptySound`, if besides nothing synchronises and no iterator fails (`CountedProcess`;
  with one that fails it is false, 7). `SentInv`: a record's number follows from the offset of its store and its
  section, the stores follow one another without overlap, and the reader's offset and deleted sections never count
  past what was committed, not even while it is being made and takes the info section's index for them.
* **StoreIsLog**: under the hypothesis of **NothingLost** every behaviour of the store is one of `DdtLog!SafeSpec`: each step is
  a `Write`, a `Deliver` or a stutter.

### The block assembler: `DdtBlockAssembler_proofs`

* **BlockAssemblerUsesStore**: every behaviour of the assembler is one of `DdtStore!Spec`, whatever fails. `LoopInv`
  ties its place in `svc` to the call the reader is in and to what the reader may return there; hence its commits
  are within what was read.
* **CommitDeletesChunk**, **CommittedWereTaken**: `ChunkIsWhatCommitDeletes`, `CommittedWereSent`, if no read of a
  section fails (`ReadsAreSure`; otherwise false, 7, `read`), crashes between push and commit included. `ChunkInv`:
  while a chunk is filled its records are all those read since the iterator was made.

### The window: `MtapWindow_proofs`

**TypeCorrect**, **NothingForgottenIsLost** (`AckedWereWritten`), **RecordsStoredOnce** (`WrittenOnce`),
**StoreIsOneFile** (`StoreHoldsFile`), **SlotsStayCurrent** (`SlotsAreCurrent`), for any number of connections,
slots, records and files, whatever writes fail and connections break. The one hypothesis is about the CP:
`SyncsWithinWindow`, it synchronises with fewer records not acknowledged than the window has slots; with as many
the base jumps over records that nobody has (7). `WindowInv` has four parts. `ChanInv`: a PDU under way is about the
CP's file at the point where it is, a SYNCHRONIZE is alone, an unlink the only one. `StoreInv`: what is written is
below the writer's index and of no later file. `FileInv`: the file is in one of three states. In `FileIsWritten` its
records below the base are written, and only those, each at the place of its number, and the writer's index is the
base (or the file's store has yet to be opened); in `FileIsComplete` a synchronisation has moved base and index to the
next store, and no record can come; in `FileIsClosed` the CP has asked for the end. Each of the three is needed:
a synchronisation after the last record leaves a base that says nothing of the file, and an unlink that fails sets it
to zero with the file written. `SyncIsDue` carries the
hypothesis to the synchronisation, which comes only with the first record of the file written.
What a write of several slots does is lemma `StoreGrows`, cited for `Add` and `Unlink`.

### The sink: `DdtSink_proofs`

**TypeCorrect**, **FaultyAreSupervised** (`FaultyIsSupervised`), **WaitersWillBeNotified** (`WaitersAreNotified`) and
**StatusIsThatOfPeers** (`StatusTellsPeers`), for any number of peers and producers, without hypotheses. `OrderInv` is
the order of start and stop. `SupervisedInv` adds that a set `m_timerId` means a timer, a message or a monitor at
work (a stale one would end the surveillance). `WaitInv` adds that a switch holds the mutex of the transfers and
has an active peer, so that an assembler that comes to wait is seen by the notification. `StatusInv` says what
the statuses are between the steps of a switch.

### The mirror: `DboMirror_proofs`

For any number of blocks, sizes of files and of the run:

* **TypeCorrect**, which needs that a record whose file is gone is still in the queue.
* **CommittedMirrored**: `NoBlockIntoDeletedFile => CommittedAreMirrored`, whatever crashes and whatever the operator
  does. `CoverInv` accounts for each block sent, and for each number up to the one in the state file: the library
  takes those for old, so they must be there although the application dies between a block and its number.
* **OneCrashLosesNothing**: `NoBlockIntoDeletedFile` and with it `CommittedAreMirrored` in full, with one crash at
  most and as long as the operator does not switch the mirror (`count.switch = 0`). With two crashes it is false
  (7); switches with one crash are left to the run. `SafeInv` follows the one case in which the current file is in
  the maintainer's list: between the report that it is full and the step to the next, or after a crash in there,
  when its successor finds it full and leaves it (`WillLeave`), or finds it gone while its record is
  being removed. It rests on `KeptInv`: a file holds what the library has counted, and has one record at most.
* **MirrorInOrder**: `BlocksInOrder`, over any number of crashes, if the numbers of the run start past 1
  (`NumbersPastOne`; otherwise false, 7). `OrderInv`: while the mirror is written, the next block is the one
  after the number in the state file, and no file holds a block beyond it. `QuietInv` says what holds until the
  first switch: the mirror is the last file, and an application connected to a mirrored queue has its mirror ready.

### CDH: `CdhDestSet_proofs`, `CdhServR_proofs`

* A destination set, if no command is given on top of a deferred one (`~Impatient`; otherwise false, 7):
  **ActiveStaysInSet**, **NoneTwice**, **NamesMatch** (`ActiveBelongsToSet`, `NoDestinationTwice`,
  `MembersAreInSlots`), **EachTriedOnce** (`AllTriedBeforeGivingUp`), **ThreadSurvives** (no null pointer).
  **TypeCorrect** needs no hypothesis. `SetInv` adds that a switch that is deferred, or about to be done, is to a
  member and a deferred change brings in none; `TransferInv` that the destinations tried are those of the slots
  marked used, also half way through a swap, until thread and command overtake each other (7).
* The server: **SemaphoresLive** (`SemaphoreLives`), **OneAnswerOnly** (`OneAnswer`), **ToldOnlyTruth**
  (`ServedWereDelivered`), **NoSecondDelivery** (`NotDeliveredTwice`), **TypeCorrect**, for any users, files, restarts,
  crashes and stop commands. `SemaphoreLives` is needed to know even the types: the thread signals the stop command
  whose number it finds in the task. `RequestInv` says who owes a user, no task of which was stopped twice, its answer:
  the thread, one stop that waits, or an answer in hand, and never two of them; `ServedInv` that lists and answers
  speak of what was delivered; `RecordInv`, which needs no such exception, that what is on record is in the list or was
  lost by a crash, and no repeated request for it is under way. **RecordsStayUntilCrash**: without a crash no record is
  lost, the counterpart of the violation in 7.

### AFP: `AfpQueue_proofs`

For any number of files, retries, commands and crashes; `BoundsAssumption` is the only assumption.

* **TypeCorrect**: `TypeOK`, and that `older` orders the files in the queue and only those, in every state, whatever
  the operator does. `TypeInv` adds that only files are queued and in transfer, and that a file not yet reported is
  not in the queue. `resendFiles` goes through any number of files: `AllReadyAgain` is a recursive function, shown to
  exist and to keep the types by the least number of files for which it would not.
* **InTurn**: the inductive invariant `IInv` of the properties below, which all begin with `~outOfTurn`: until a known
  limit (7) breaks the rotation. Crashes of CDH, retries, lost sessions, clocks set back, and restarts and commands that
  leave no older file behind do not break it. In turn:
  * `QueueOk`: one file at most is under way, and it is `last`; those in READY come after it, or after `next`, which is
    the oldest of them. In a restart this leaves one file in SEND to be found.
  * `Carried`, `OneRequest`, `RetryKnown`: the file under way is at the head of the task's queue or the
    current one, and then one request, one retry or one reconnection holds it. Since a request is always for the
    current file, the answer that names no file marks the right one.
  * `Session`: after a lost session the message that ends the transfer comes *before* the one that opens the session
    again, and after every retry left over. It is the part hardest to find: without it a retry of the old session could
    meet the request of the next file.
  * `Fresh`, `History`: what is sent again after it was delivered, or while CDH may be at work on it from before a
    restart of AFP, carries the mark (`Known`). `Recorded`: CDH's entry, and its line in the file, name a delivered
    file. The mark alone is not enough, since CDH remembers one file: `Known` adds that a file in SEND that was
    delivered is the one CDH has delivered last, with no task behind it that could replace the entry, and that one that
    CDH is at work on is its last task. So CDH answers "already sent" or "task exists", unless a crash has taken the
    entry.
* **DeletedCorrect** (`DeletedWereDelivered`), **SendUnderWay** (`SendIsUnderWay`), **DeliveredTwice**
  (`DeliveredTwiceIfUnsure`) and **ReadyWaits** (`ReadyWaitsForSend`, on which `ReadyIsServed` rests: a file in READY
  is never alone) follow from it.
* **OldestIsSentFirst** (`OldestFirst`), an action property: from `QueueOk` the next file in `changeFileStatus`,
  whether it is `next` or found by the scan, is the oldest in READY (`FinishedInOrder`); of the other steps only a
  report, `transferFailed` and a restart send a file.

### Model-checked only

* The properties of delivery, and `StoreEmptySound`, over restarts; `CommittedWereSent` with failing reads does not hold.
* `CommittedAreMirrored` with switches of the mirror.
* That AFP's queue, once out of turn, recovers: no property speaks of it but `TypeOK`.
* All liveness (`ImplementsLog` with its fairness, `EventuallyWritten`, `EventuallyAcked`, `WaitersGoOn` and the
  others), which is out of their reach together with ENABLED. Every invariant that a run checks is a theorem,
  with the hypotheses named above, and so is `OldestFirst`.

## 7. What the models found

The run of kind `violation`: `cdh_sent_forgotten`. CDH keeps a list of files sent, so that a user that asks
again after a restart is not served twice. Saving and removing write the list by one call of `writeToFile`
per entry, which truncates the file each time (`servr.cpp:4658`, `5315-5324`): only the last entry is there
after a restart. (Removing the only entry does not write the file at all, so that it comes back.)

### Limits of the store

Each line is reproduced by a configuration of `MCDdtStore` (`Spec`, `SyncIndexes = {}`, `FileUser = FALSE`)
with the property named.

| property | constants (S, M, faults, stores, records, failures, restarts) | what happens |
|---|---|---|
| `StoreEmptySound` | 2, 2, iter, 3, 2, 1, 0 | an iterator that fails while the reader is made counts all sections as deleted (`reader.cpp:260`) |
| `NoAckedRecordLost` | 2, 4, close, 4, 4, 1, 1 | close fails at shutdown on a full store: the destructor writes the next store's index into this one's info section (`writer.cpp:59`); the writer then skips sections as already stored |
| `NoAckedRecordLost` | 2, 4, crash, 3, 3, 1, 1 | after a crash the info section is old: new records meet old sections and are acknowledged without being stored (`writer.cpp:384`) |
| `DeliveredInOrder` | 2, 2, late, 3, 3, 1, 0 | a section written by a call that timed out is delivered and deleted before the record is repeated (`writer.cpp:394`) |
| `MemoryMatchesStores` | 2, 3, unlink, 4, 4, 2, 0 | a removal repeated after a failed unlink frees the memory again (`strategy.cpp:341`) |
| `WrittenCountExact` | 2, 4, open, 4, 4, 1, 1 | a restart between the naming of a store and its info section loses the offset (`storebase.cpp:266`) |
| `NoAckedRecordLost` | 2, 4, status, 4, 3, 1, 1 | a list that could not be saved is ignored (`strategy.cpp:304`) and forgotten at the restart |
| `NoAckedRecordLost` | 2, 2, none, 3, 4, 0, 1 | a writer that waits for memory after a forced change is restarted and gets the last store, which has its stub, and writes into it; the reader deletes it (`strategy.cpp:137`) |
| `EventuallyDelivered` (`FairReaderSpec`) | 2, 2, unlink, 4, 3, 1, 0 | the removal of a store whose unlink failed is repeated with a list of one name, which is refused for ever (`reader.cpp:389`); a block assembler stays there, a file assembler gets away by its `commit(0)` |
| `CommittedWereSent` (`MCDdtBlockAssembler`, chunk 2) | 2, 4, read, 4, 4, 1, 0 | after a read error the block assembler starts a new chunk without `commit(0)`; a later commit deletes records that were never pushed (`blockassembler.cpp:165`) |

After a synchronisation past the end of a store `storeEmpty`'s counters mean nothing (the index exceeds the
number of sections, `storebase.cpp:428`), which is why `StoreEmptySound` is not run with synchronisations. A
removal that took the name from the list and then failed keeps its memory; with one name left the reader
stays in that step and the writer starves, the reason for the hypothesis of `EventuallyWritten`.

### Limits of the MTAP window

* A CP that may have as many records unacknowledged as the window has slots (`ClientWindow = 2, SyncUnacked =
  2`, 1 file, no failure, 1 loss) sees `AckedWereWritten` violated: a synchronisation whose number is outside
  the window moves the base past records that are in no store (`slidingwindow.cpp:221-225`; the comment there
  and at `:356` take such numbers for impossible or already stored).
* The first synchronisation of a producer, with one store and index 0, takes everything before its number for
  stored; with older stores the number wraps to 2^32 - 1 and nothing is listed as missing.
* The number of the message file is not looked at: a resent record that arrives after the unlink is stored
  in the next file. The base goes to zero also when the unlink failed; the answer to an unlink has the result
  of the last write only. An empty record moves the base and not the writer's index.

### Limits of the sink

* A producer that appears between `getProducers` and `subscribe` (`datasink.cpp:104`, `:128`) gets no
  assembler until the sink is restarted (`EveryProducerIsServed`; the comment at `:106` says one thread per
  producer).
* A failure handled while stop runs can arm the timer after `stopAllSurveillance` (`peermonitor.cpp:174-196`,
  `datasink.cpp:171-176`; `StopLeavesNoSurveillance`, the comment in `peermonitor.h:82-84`).
* Stop during the start leaves the sink subscribed and assemblers out of its list. A block sent again after
  an answer that was lost reaches the peer twice (`blockpeer.cpp`). A file assembler tries to open the remote
  file until it is stopped.

### Limits of the mirror

* `aes_dbo_mirrormaintainer.cpp:247` "Accept the new order": a maintainer created while its thread is leaving
  is not started (`:494`); with `MaxCrashes = 0`, `MirroredIsMaintained` is violated.
* A server that crashes while mirroring is off in the database, with files still to be deleted, leaves them: the next
  one makes a maintainer only for a queue that is mirrored (`tqsession.cpp:86-95`), and the saved queue is read when
  the operator switches the mirror on again. `ClosedAreDeleted` excepts this and the case before (`Unattended`, for as
  long as it lasts), and a file that an application begins again after it died in the step to the next one, just
  between the removal of the file and that of its record (`BegunAgain`): the file stays on the disk.
* Two crashes lose committed blocks (`MaxCrashes = 2`, `MaxSwitches = 0` violates `CommittedAreMirrored`): the
  application dies between the report of a full file and the step to the next, the server between the deletion of
  that file and of its record (`mirrormaintainer.cpp:425-448`); the file, made again, is deleted again while it is
  written. Blocks 0 and 1 are never taken for old, because the addresses of two
  flags are tested (`DataMirror.cpp:469`): they are written again (`FirstBlock = 1` violates `BlocksInOrder`).
* The event that mirroring is on is sent before the session knows it (`tqsession.cpp:257-258`), so that the
  report of the first file may be refused and the application sends without a mirror, unnoticed. Switching off
  and on before the application answers leaves the database mirrored and the session not. Threads of the
  events OFF and ON are not ordered. A client that dies between them leaves `mirrored_` set.
* A failing write of a block is only logged. `save()` truncates before it writes. An answer that comes after
  the time limit is taken for the answer to the next command (`AES_DBO_AsynchComm.cpp:216-245`).

### Limits of CDH

* A command given while an earlier one is deferred replaces it: with `Impatient = TRUE` `ActiveBelongsToSet`
  is violated (a switch is pending, then a change replaces its target; comment at `transdestset.cpp:748`).
  Switching back to the active destination does not cancel a pending switch. A destination that a deferred
  change will bring in is not reserved. A deferred change of a slot that was removed after a fail-over follows
  a null pointer (phase `dead`).
* "All existing destinations in the destination set have been used once" (`transdestset.cpp:1473`, where
  `switchDestAuto` gives up) is false: with `AllExistingUsed` as the invariant of `cdh_dest_set`, TLC shows a file
  given up with a destination never tried and another tried twice. A switch finds no transfer (`:764`), the thread
  starts one and reads the old destination (`:1048`, `:1054`), the switch activates the new one (`:772`), the old
  one fails, and the new one's slot is marked. A fail-over between the two halves of a swap (`:475-489`)
  does the same. `AllTriedBeforeGivingUp` excludes these histories (`overtaken`), and nothing else but changes of the
  set. The swap's two halves are several writes each; what the thread sees between those falls under the same
  exclusion.
* `removeDestination` returns at `:332-335` without releasing the mutex. The swap takes none, and
  `transferInProgress` is cleared outside it (`:1134-1137`). `saveDestinationSets` does nothing (`servr.cpp:1988`).
* A task that is stopped stays in the list until the thread has done with it, and nobody looks whether it is stopped
  already (`servr.cpp:1565-1572`, `1687-1693`): every further `stopSendFile` or `stopTasks` answers the request again
  (`:1631-1640`, `:1654-1664`, `:1760-1774`). AFP looks at no file name in an answer and takes the second for that to
  its present file. `OneAnswer` and `ServedWereDelivered` are about the other users; about all they are violated.
* After a stop that timed out, or `stopTasks`, asking again at once gets "task exists". A file whose stop came
  too late was delivered although the user is told that it was stopped. After a restart of CDH alone, AFP asks
  again without the mark for a restart and the file is delivered twice. If AFP restarts as well, the mark is of no use
  when CDH's file of what was sent ended with another user's entry (`cdh_sent_forgotten`, above): delivered twice too.

### Limits of AFP

1. `eventSendFile` does not look at the file's name. A lost session can leave one FINISHED too many, RESEND
   can queue a file that is under way, and a later file is marked DELETE without being sent.
2. The `next` file is forgotten at a restart: an older READY file waits for another restart.
3. `transferFailed` overwrites `next`, and takes the oldest FAILED file for the oldest of all; a manual resend during a
   transfer breaks the rotation. A file reported after that with the clock set back may be older than `next` without
   becoming it, as it is compared with the file sent last (`sendFile`), and waits behind it.
4. Removing a file in SEND puts the path of its status file into `stopFileSet_`, where no file name is ever
   found; from then on the call to CDH precedes the status SEND, which can overwrite DELETE.
5. `stopSendAll` leaves files of the queue in SEND until a restart. A retry message that arrives after the
   answer makes the thread spin.
6. An iterator at its end is read (`aes_afp_transferqueue.cpp:2975`): the model takes either answer.

`outOfTurn` is set where 1 to 5 break the rotation.

## 8. What is not modelled

* DDT: connections and their protocols, block peers, the formatting and naming of files, the sizing of stores,
  `clean`, several producers sharing the memory limit, creation and deletion of data sources, the scheduler of
  operations, configuration objects, alarms, process start. `state/stop.cpp` is reached by no transition. MTAP:
  option negotiation, parameters, coding of PDUs.
* DBO: several CPs, a changed removal delay, graceful stop of the server, the receiver, commands, a torn
  save, `abort()` of a configuration change.
* CDH: transfer agents (FTP, SFTP, RPC) and their state, notifications, block transfer, deletion of a set,
  configuration objects. They are I/O and parsing for the most part; the resending of notifications is not.
* AFP: statuses PENDING, ARCHIVE and REMOVE, manual queues, `setStatusFile`, SENDRETRIES = -1, graceful stop,
  events and alarms of applications, templates of names, the lock of a queue, failing writes of status files,
  the API library.
* OHI and GCC: client libraries whose servers are partly outside the repository. GOHST is a test tool.
  Packaging and UML exports have no behaviour.

The programs have about 200 000 lines; the modules stand for the parts that decide what is kept, sent and
forgotten, which are a small share of them. Most of the rest is protocol code, configuration handlers, command
line tools and tracing.
