------------------------------ MODULE DdtStore ------------------------------
(***************************************************************************)
(* The record store of the Direct Data Transfer daemon for one producer of *)
(* one data source (src/ddt_cnz/ddtadm_caa/src/store).                     *)
(*                                                                         *)
(* A Writer appends records to a chain of checkpoints ("stores") kept by   *)
(* the SAF checkpoint service, a Reader hands them to an assembler and     *)
(* deletes what the assembler commits.  Both are small state machines      *)
(* (store/checkpoint/state) whose current state survives a failed call, so *)
(* that the next call repeats the failed step.  One action below is one    *)
(* handleStep() with the getNextStep() that follows it: between two of     *)
(* them the other thread may run.                                          *)
(*                                                                         *)
(* A record is a number: the producer writes 1, 2, 3, ... and repeats a    *)
(* record until write() reports success.                                   *)
(***************************************************************************)
EXTENDS Integers, FiniteSets, SequencesExt

CONSTANTS
    MaxSections,     \* m_maxNumberOfSections: records that fit in one store
    MaxUsableMemory, \* m_maxUsableMemory of the memory controller, in stores
    Faults,          \* kinds of service failure that may happen
    SyncIndexes,     \* indexes an MTAP synchronisation may set in the writer
    FileUser,        \* the assembler is a FileAssembler (else a BlockAssembler)
    \* bounds of the search
    MaxStores,       \* store names ever handed out
    MaxRecords,      \* records ever written
    MaxFaults,       \* service failures in a behaviour
    MaxRestarts      \* restarts of the daemon in a behaviour

FaultKinds == {"open", "close", "info", "stub", "append", "late", "iter",
               "read", "status", "unlink", "del", "flush", "crash"}

ASSUME ConstantsAssumption ==
    /\ MaxSections \in Nat \ {0}
    /\ MaxUsableMemory \in Nat \ {0}
    /\ MaxStores \in Nat \ {0}
    /\ MaxRecords \in Nat
    /\ MaxFaults \in Nat
    /\ MaxRestarts \in Nat
    /\ Faults \subseteq FaultKinds
    /\ SyncIndexes \subseteq Nat
    /\ FileUser \in BOOLEAN

Names    == 1 .. MaxStores   \* assembleCheckPointName: always a fresh name
NoName   == 0                \* the empty checkpoint name
Sections == 0 .. MaxSections - 1
Absent   == 0                \* no section with this id in the checkpoint
Infos    == [off : Nat, idx : Nat]
NoInfo   == [off |-> -1, idx |-> -1]

WriterStates == {"NONE", "OPEN", "READINFO", "WRITE", "UPDATEINFO", "CLOSE",
                 "GETNEW"}
WriterCalls  == {"idle", "init", "first", "loop", "qfirst", "qloop", "force"}
ReaderStates == {"NONE", "OPEN", "READINFO", "ITER_INIT", "READ", "WAIT_DATA",
                 "WAIT_ERROR", "WAIT_COMMIT", "CLOSE", "DELETE", "GETNEW"}
ReaderCalls  == {"idle", "init", "first", "loop"}
ReadResults  == {"none", "ok", "again", "waitcommit", "err", "iterr"}

VARIABLES
    \* the checkpoint service: what survives a restart of the daemon
    made,      \* the checkpoints that exist
    info,      \* info section of each: offset and index ("<off>_<idx>")
    data,      \* record in each section
    stub,      \* the checkpoints with the stub section that marks them full
    saved,     \* the producer's section of the status checkpoint
    \* shared by the threads of the daemon, under the StoringManager's mutex
    names,     \* ProducerInfo::m_checkPointNames
    used,      \* MemoryController::m_usedMemory, in stores
    nextName,  \* the next fresh name
    \* the writer
    wst, wopen, wname, woff, widx,
    wop,       \* the call in progress: which loop of the code runs the steps
    \* the reader
    rst, ropen, rname, roff, ridx, rdel,
    rread,     \* m_readRecords: ids of the sections read and not committed
    rmore,     \* m_readNext
    rcur,      \* m_sectionToReadDescriptor, also the iterator's position
    rop, rres, \* the call in progress, the result of the last read()
    \* history and bounds
    acked,     \* records 1..acked were acknowledged to the producer
    out,       \* records committed by the assembler, in order
    nfault, nrestart

ckptVars == <<made, info, data, stub>>
listVars == <<saved, names, used, nextName>>
wVars    == <<wst, wopen, wname, woff, widx>>
rVars    == <<rst, ropen, rname, roff, ridx, rdel, rread, rmore, rcur, rop, rres>>
vars     == <<ckptVars, listVars, wVars, wop, rVars, acked, out, nfault, nrestart>>

Init ==
    /\ made = {} /\ stub = {} /\ saved = << >>
    /\ info = [n \in Names |-> NoInfo]
    /\ data = [n \in Names |-> [i \in Sections |-> Absent]]
    /\ names = << >> /\ used = 0 /\ nextName = 1
    /\ wst = "NONE" /\ wopen = FALSE /\ wname = NoName /\ woff = 0 /\ widx = 0
    /\ wop = "idle"
    /\ rst = "NONE" /\ ropen = FALSE /\ rname = NoName /\ roff = 0 /\ ridx = 0
    /\ rdel = 0 /\ rread = << >> /\ rmore = TRUE /\ rcur = -1
    /\ rop = "idle" /\ rres = "none"
    /\ acked = 0 /\ out = << >> /\ nfault = 0 /\ nrestart = 0

-----------------------------------------------------------------------------
(* Failures of the checkpoint service.                                     *)

Fail(kind) == kind \in Faults /\ nfault < MaxFaults /\ nfault' = nfault + 1
NoFail     == nfault' = nfault

-----------------------------------------------------------------------------
(* Store names and memory (Strategy, StatusHandler, MemoryController).     *)
(* The StoringManager's mutex covers them.  It is held while a writer or a *)
(* reader is made and initialised: the steps that need it then wait, which *)
(* is the guard wop # "init" or rop # "init" of the other thread's steps.  *)

OneIsKept       == used + 1 < MaxUsableMemory
MemoryAvailable == used < MaxUsableMemory

\* StatusHandler writes the list of names to its section: the first time it
\* creates the section, later it overwrites it, which fails when the section
\* is missing.  "first" tells which of the two the code does.
Persist(first, list, ok) ==
    \/ /\ ok /\ NoFail
       /\ first \/ saved # << >>
       /\ saved' = list
    \/ /\ ~ok /\ saved' = saved
       /\ \/ Fail("status")
          \/ ~first /\ saved = << >> /\ NoFail

\* Strategy::getNewStoreName when memory is available: the result of
\* addStoreName is not looked at.
AllocateStore ==
    /\ MemoryAvailable
    /\ nextName \in Names            \* bound
    /\ nextName' = nextName + 1
    /\ used' = used + 1
    /\ names' = Append(names, nextName)
    /\ \E ok \in BOOLEAN : Persist(names = << >>, names', ok)

\* The memory of a store is given back (and what forgetting it would leave).
FreeNothing == used
Freed       == used - 1

\* ProducerInfo::getFirstCheckPoint and getLastCheckPoint.
NewestStore == Last(names)
OldestStore == Head(names)
FirstStore  == Head(names)
LastStore   == Last(names)

\* ProducerInfo::removeCheckPoint: a name is in the list at most once.
Without(list, name) == RemoveFirst(list, name)

-----------------------------------------------------------------------------
(* The writer.                                                             *)

\* getNextStep of the states of a writer, after a step with result r.
WriterNext(r) ==
    CASE r = "ok"   /\ wst = "OPEN"       -> "READINFO"
      [] r = "ok"   /\ wst = "READINFO"   -> "WRITE"
      [] r = "full" /\ wst = "WRITE"      -> "UPDATEINFO"
      [] r = "ok"   /\ wst = "UPDATEINFO" -> "CLOSE"
      [] r = "ok"   /\ wst = "CLOSE"      -> "GETNEW"
      [] r = "ok"   /\ wst = "GETNEW"     -> "OPEN"
      [] OTHER -> wst

InLoop(op) == CASE op = "first" -> "loop" [] op = "qfirst" -> "qloop" [] OTHER -> op

\* What the loops of write(), getNumberOfWrittenRecord(), forceStoreChange()
\* and initialize() do after a step: the first step of a call is followed by
\* getNextStep whatever it returned; the loop goes on while steps succeed; the
\* loops of initialize() and write() leave a full store's state for the next call.
WriterAfter(r) ==
    /\ wst' = IF r = "full" /\ wop \in {"init", "loop", "qloop"}
              THEN wst ELSE WriterNext(r)
    /\ wop' = IF r = "ok" \/ wop \in {"first", "qfirst"} THEN InLoop(wop) ELSE "idle"

WriterFrame == UNCHANGED <<rVars, out, nrestart>>

\* state::Open: openCheckpoint creates the checkpoint if it does not exist.
WriterOpen ==
    /\ wop # "idle" /\ wst = "OPEN"
    /\ \/ /\ wopen' = TRUE /\ made' = made \cup {wname}
          /\ NoFail /\ WriterAfter("ok")
       \/ /\ Fail("open") /\ WriterAfter("err")
          /\ UNCHANGED <<wopen, made>>
    /\ UNCHANGED <<info, data, stub, listVars, wname, woff, widx, acked>>
    /\ WriterFrame

\* state::ReadInfo: readInfoSection, or createInfoSection in a new checkpoint.
WriterReadInfo ==
    /\ wop # "idle" /\ wst = "READINFO"
    /\ \/ /\ info[wname] # NoInfo
          /\ woff' = info[wname].off /\ widx' = info[wname].idx
          /\ NoFail /\ WriterAfter("ok") /\ UNCHANGED info
       \/ /\ info[wname] = NoInfo
          /\ info' = [info EXCEPT ![wname] = [off |-> woff, idx |-> widx]]
          /\ NoFail /\ WriterAfter("ok") /\ UNCHANGED <<woff, widx>>
       \/ /\ Fail("info") /\ WriterAfter("err")
          /\ UNCHANGED <<info, woff, widx>>
    /\ UNCHANGED <<made, data, stub, listVars, wopen, wname, acked>>
    /\ WriterFrame

\* addSectionToCheckPoint: a section that exists counts as written.  "late" is
\* the time-out of which the code says the section might have been written.
AddSection ==
    LET rec == acked + 1 IN
    /\ wop' = "idle" /\ wst' = wst
    /\ \/ /\ data[wname][widx] # Absent
          /\ widx' = widx + 1 /\ acked' = rec
          /\ NoFail /\ UNCHANGED data
       \/ /\ data[wname][widx] = Absent
          /\ data' = [data EXCEPT ![wname][widx] = rec]
          /\ widx' = widx + 1 /\ acked' = rec
          /\ NoFail
       \/ /\ data[wname][widx] = Absent
          /\ data' = [data EXCEPT ![wname][widx] = rec]
          /\ Fail("late") /\ UNCHANGED <<widx, acked>>
       \/ /\ Fail("append") /\ UNCHANGED <<data, widx, acked>>

\* isCheckPointFull.
IsCheckPointFull == MaxSections <= widx

\* state::Write: isCheckPointFull; a call to write() then adds its section.
WriterWrite ==
    /\ wop # "idle" /\ wst = "WRITE"
    /\ \/ /\ IsCheckPointFull
          /\ WriterAfter("full") /\ NoFail
          /\ UNCHANGED <<data, widx, acked>>
       \/ /\ ~IsCheckPointFull /\ wop \in {"first", "loop"}
          /\ AddSection
       \/ /\ ~IsCheckPointFull /\ wop \notin {"first", "loop"}
          /\ wop' = "idle" /\ NoFail
          /\ UNCHANGED <<wst, data, widx, acked>>
    /\ UNCHANGED <<made, info, stub, listVars, wopen, wname, woff>>
    /\ WriterFrame

\* updateInfoSection: are there max records in the store?
HoldsMax(max) == max <= widx

\* Offset and index of the next record once max records filled a store.
SameOffset(max) == [off |-> woff, idx |-> 0]
NextStore(max)  == [off |-> woff + max, idx |-> 0]

\* updateInfoSection(max), with its result r.  A store that holds max records
\* gets the stub section, and index and offset move to the next store.
UpdateInfoSection(max, r) ==
    \/ /\ r = "ok" /\ ~wopen /\ NoFail
       /\ UNCHANGED <<info, stub, woff, widx>>
    \/ /\ r = "err" /\ wopen
       /\ (info[wname] = NoInfo /\ NoFail) \/ Fail("info")
       /\ UNCHANGED <<info, stub, woff, widx>>
    \/ /\ wopen /\ info[wname] # NoInfo
       /\ info' = [info EXCEPT ![wname] = [off |-> woff, idx |-> widx]]
       /\ \/ /\ r = "ok" /\ ~HoldsMax(max) /\ NoFail
             /\ UNCHANGED <<stub, woff, widx>>
          \/ /\ r = "ok" /\ HoldsMax(max) /\ NoFail
             /\ stub' = stub \cup {wname}
             /\ widx' = NextStore(max).idx /\ woff' = NextStore(max).off
          \/ /\ r = "err" /\ HoldsMax(max) /\ Fail("stub")
             /\ UNCHANGED <<stub, woff, widx>>

\* state::UpdateInfo.
WriterUpdateInfo ==
    /\ wop # "idle" /\ wst = "UPDATEINFO"
    /\ \E r \in {"ok", "err"} :
          UpdateInfoSection(MaxSections, r) /\ WriterAfter(r)
    /\ UNCHANGED <<made, data, listVars, wopen, wname, acked>>
    /\ WriterFrame

\* state::Close of a writer: closeCheckpoint.
WriterClose ==
    /\ wop # "idle" /\ wst = "CLOSE"
    /\ \/ wopen' = FALSE /\ NoFail /\ WriterAfter("ok")
       \/ wopen /\ Fail("close") /\ WriterAfter("err") /\ UNCHANGED wopen
    /\ UNCHANGED <<ckptVars, listVars, wname, woff, widx, acked>>
    /\ WriterFrame

\* state::GetNew of a writer: Strategy::getNewStoreName clears the name first.
WriterGetNew ==
    /\ wop # "idle" /\ wst = "GETNEW" /\ rop # "init"
    /\ \/ AllocateStore /\ wname' = nextName /\ WriterAfter("ok")
       \/ /\ ~MemoryAvailable
          /\ wname' = NoName /\ NoFail /\ WriterAfter("err")
          /\ UNCHANGED listVars
    /\ UNCHANGED <<ckptVars, wopen, woff, widx, acked>>
    /\ WriterFrame

\* Strategy::makeWriter: the last store of the producer, or a first one.
MakeWriter ==
    /\ wst = "NONE" /\ rop # "init"
    /\ \/ names = << >> /\ AllocateStore /\ wname' = nextName
       \/ /\ names # << >> /\ NoFail
          /\ wname' = LastStore /\ UNCHANGED listVars
    /\ wst' = "OPEN" /\ wop' = "init"
    /\ UNCHANGED <<ckptVars, wopen, woff, widx, acked>>
    /\ WriterFrame

\* Calls of Writer::write and Writer::getNumberOfWrittenRecord.
WriterCall ==
    /\ wst # "NONE" /\ wop = "idle"
    /\ \/ acked < MaxRecords /\ wop' = "first"
       \/ SyncIndexes # {} /\ wst # "WRITE" /\ wop' = "qfirst"
    /\ NoFail
    /\ UNCHANGED <<ckptVars, listVars, wVars, acked>>
    /\ WriterFrame

\* Writer::forceStoreChange (MTAP unlink): close the store as if it were full.
ForceStoreChange ==
    /\ wst # "NONE" /\ wop = "idle" /\ widx # 0
    /\ \/ UpdateInfoSection(widx, "ok") /\ wst' = "CLOSE" /\ wop' = "force"
       \/ UpdateInfoSection(widx, "err") /\ UNCHANGED <<wst, wop>>
    /\ UNCHANGED <<made, data, listVars, wopen, wname, acked>>
    /\ WriterFrame

\* SlidingWindow::synchronize moves the index only forward.
AnyIndex(i)     == TRUE
ForwardIndex(i) == i > widx

\* Writer::setMessageIndex.  SlidingWindow::synchronize calls it after a
\* successful getNumberOfWrittenRecord, never with a smaller index.
SetMessageIndex ==
    /\ wst = "WRITE" /\ wop = "idle" /\ NoFail
    /\ \E i \in SyncIndexes : ForwardIndex(i) /\ widx' = i
    /\ UNCHANGED <<ckptVars, listVars, wst, wopen, wname, woff, wop, acked>>
    /\ WriterFrame

WriterStep ==
    \/ WriterOpen \/ WriterReadInfo \/ WriterWrite
    \/ WriterUpdateInfo \/ WriterClose \/ WriterGetNew

-----------------------------------------------------------------------------
(* The reader.                                                             *)

\* state::Read on a store marked full whose sections were all read: is there
\* something to commit?
CloseAlways    == "CLOSE"
WaitAlways     == "WAIT_COMMIT"
NextAfterEmpty == IF rread = << >> THEN "CLOSE" ELSE "WAIT_COMMIT"

\* getNextStep of the states of a reader, after a step with result r.
ReaderNext(r) ==
    CASE r = "ok" /\ rst = "OPEN"          -> "READINFO"
      [] r = "ok" /\ rst = "READINFO"      -> "ITER_INIT"
      [] r = "ok" /\ rst = "ITER_INIT"     -> "READ"
      [] r = "empty" /\ rst = "READ"       -> NextAfterEmpty
      [] r = "again" /\ rst = "READ"       -> "WAIT_DATA"
      [] r = "err" /\ rst = "READ"         -> "WAIT_ERROR"
      [] rst \in {"WAIT_DATA", "WAIT_ERROR"} -> "ITER_INIT"
      [] r = "ok" /\ rst = "WAIT_COMMIT"   -> "ITER_INIT"
      [] r = "ok" /\ rst = "CLOSE"         -> "DELETE"
      [] r = "ok" /\ rst = "DELETE"        -> "GETNEW"
      [] r = "ok" /\ rst = "GETNEW"        -> "OPEN"
      [] OTHER -> rst

\* What the loops of initialize() and read() do after a step whose result is
\* not "there is a section to read".
ReaderAfter(r) ==
    \/ /\ rop = "first"
       /\ rst' = ReaderNext(r) /\ rop' = "loop" /\ UNCHANGED <<rdel, rres>>
    \/ /\ rop = "loop"
       /\ rst' = ReaderNext(r) /\ UNCHANGED rdel
       /\ IF r \in {"ok", "empty"}
          THEN UNCHANGED <<rop, rres>>
          ELSE rop' = "idle" /\ rres' = r
    \/ /\ rop = "init" /\ r = "ok"
       /\ rst' = ReaderNext(r) /\ UNCHANGED <<rop, rdel, rres>>
    \/ /\ rop = "init" /\ r # "ok"
       /\ rdel' = ridx /\ rop' = "idle" /\ UNCHANGED <<rst, rres>>

ReaderFrame == UNCHANGED <<wVars, wop, acked, out, nrestart>>

\* state::Open: a reader does not create the checkpoint.
ReaderOpen ==
    /\ rop # "idle" /\ rst = "OPEN"
    /\ \/ rname \in made /\ ropen' = TRUE /\ NoFail /\ ReaderAfter("ok")
       \/ /\ (rname \notin made /\ NoFail) \/ Fail("open")
          /\ ReaderAfter("err") /\ UNCHANGED ropen
    /\ UNCHANGED <<ckptVars, listVars, rname, roff, ridx, rread, rmore, rcur>>
    /\ ReaderFrame

\* readInfoSection in a reader forgets what was deleted in the previous store.
DeletedBefore == rdel
NothingDeleted == 0

\* state::ReadInfo: readInfoSection also resets the deleted sections.
ReaderReadInfo ==
    /\ rop # "idle" /\ rst = "READINFO"
    /\ \/ /\ info[rname] # NoInfo
          /\ roff' = info[rname].off /\ ridx' = info[rname].idx /\ rdel' = NothingDeleted
          /\ rst' = "ITER_INIT" /\ rop' = InLoop(rop)
          /\ NoFail /\ UNCHANGED rres
       \/ /\ (info[rname] = NoInfo /\ NoFail) \/ Fail("info")
          /\ ReaderAfter("err") /\ UNCHANGED <<roff, ridx>>
    /\ UNCHANGED <<ckptVars, listVars, ropen, rname, rread, rmore, rcur>>
    /\ ReaderFrame

\* state::IteratorInitialize: checkpointIteratorInit forgets the sections read.
ReaderIterInit ==
    /\ rop # "idle" /\ rst = "ITER_INIT"
    /\ rread' = << >> /\ rmore' = TRUE /\ rcur' = -1
    /\ \/ ropen /\ NoFail /\ ReaderAfter("ok")
       \/ ((~ropen /\ NoFail) \/ Fail("iter")) /\ ReaderAfter("iterr")
    /\ UNCHANGED <<ckptVars, listVars, ropen, rname, roff, ridx>>
    /\ ReaderFrame

\* saCkptSectionIterationNext: the ids that a section has, past the last one.
\* checkSectionToRead leaves out the info section and the stub.
AheadWithStub == {i \in 0 .. MaxSections : i > rcur /\
                    IF i = MaxSections THEN rname \in stub ELSE data[rname][i] # Absent}
Ahead         == {i \in Sections : i > rcur /\ data[rname][i] # Absent}

\* A section is at hand: read() reads it, initialize() notes its id.
SectionAvailable(i) ==
    /\ rcur' = i /\ rop' = "idle" /\ rst' = rst
    /\ \/ /\ rop = "init" /\ NoFail
          /\ rmore' = FALSE /\ rdel' = i /\ UNCHANGED <<rread, rres>>
       \/ /\ rop # "init" /\ NoFail
          /\ rread' = Append(rread, i) /\ rmore' = TRUE
          /\ rres' = "ok" /\ UNCHANGED rdel
       \/ /\ rop # "init" /\ Fail("read")
          /\ rmore' = FALSE /\ rres' = "err" /\ UNCHANGED <<rread, rdel>>

\* state::Read: getNextSectionToRead and checkSectionToRead.  The sections
\* come in the order of their ids, then the stub, then the info section.
ReaderRead ==
    /\ rop # "idle" /\ rst = "READ"
    /\ \/ /\ ~rmore /\ SectionAvailable(rcur)
       \/ /\ rmore
          /\ \E i \in Ahead : (\A j \in Ahead : i <= j) /\ SectionAvailable(i)
       \/ /\ rmore /\ UNCHANGED <<rread, rmore, rcur>>
          /\ \/ /\ Ahead = {} /\ NoFail
                /\ ReaderAfter(IF rname \in stub THEN "empty" ELSE "again")
             \/ Fail("iter") /\ ReaderAfter("err")
    /\ UNCHANGED <<ckptVars, listVars, ropen, rname, roff, ridx>>
    /\ ReaderFrame

\* state::WaitData repeats the result it was made with, which is "again" in
\* WAIT_DATA and "err" in WAIT_ERROR; state::WaitCommit asks checkForCommit again.
ReaderWait ==
    /\ rop # "idle" /\ NoFail
    /\ \/ rst = "WAIT_DATA" /\ ReaderAfter("again")
       \/ rst = "WAIT_ERROR" /\ ReaderAfter("err")
       \/ /\ rst = "WAIT_COMMIT"
          /\ ReaderAfter(IF rread = << >> THEN "ok" ELSE "waitcommit")
    /\ UNCHANGED <<ckptVars, listVars, ropen, rname, roff, ridx, rread, rmore, rcur>>
    /\ ReaderFrame

\* state::Close of a reader.
ReaderClose ==
    /\ rop # "idle" /\ rst = "CLOSE"
    /\ \/ ropen' = FALSE /\ NoFail /\ ReaderAfter("ok")
       \/ ropen /\ Fail("close") /\ ReaderAfter("err") /\ UNCHANGED ropen
    /\ UNCHANGED <<ckptVars, listVars, rname, roff, ridx, rread, rmore, rcur>>
    /\ ReaderFrame

\* saCkptCheckpointUnlink: checkpointPhysicalRemove.
Unlink(name) ==
    /\ made' = made \ {name} /\ stub' = stub \ {name}
    /\ info' = [info EXCEPT ![name] = NoInfo]
    /\ data' = [data EXCEPT ![name] = [i \in Sections |-> Absent]]

\* state::Delete: checkpointDelete.  StatusHandler::removeStoreName keeps at
\* least one name; the memory is freed before the checkpoint is unlinked.
ReaderDelete ==
    /\ rop # "idle" /\ rst = "DELETE" /\ wop # "init"
    /\ \/ /\ Len(names) <= 1 /\ NoFail /\ ReaderAfter("err")
          /\ UNCHANGED <<ckptVars, saved, names, used>>
       \/ /\ Len(names) > 1 /\ names' = Without(names, rname)
          /\ \/ /\ Persist(FALSE, names', FALSE) /\ ReaderAfter("err")
                /\ UNCHANGED <<ckptVars, used>>
             \/ /\ saved # << >> /\ saved' = names' /\ used' = Freed
                /\ \/ Unlink(rname) /\ NoFail /\ ReaderAfter("ok")
                   \/ Fail("unlink") /\ ReaderAfter("err") /\ UNCHANGED ckptVars
    /\ UNCHANGED <<nextName, ropen, rname, roff, ridx, rread, rmore, rcur>>
    /\ ReaderFrame

\* state::GetNew of a reader: the first store left in the list.
ReaderGetNew ==
    /\ rop # "idle" /\ rst = "GETNEW" /\ wop # "init"
    /\ rname' = FirstStore /\ NoFail /\ ReaderAfter("ok")
    /\ UNCHANGED <<ckptVars, listVars, ropen, roff, ridx, rread, rmore, rcur>>
    /\ ReaderFrame

\* Strategy::makeReader: a reader of the first store of the producer.
MakeReader ==
    /\ rst = "NONE" /\ names # << >> /\ wop # "init" /\ NoFail
    /\ rname' = FirstStore /\ rst' = "OPEN" /\ rop' = "init"
    /\ UNCHANGED <<ckptVars, listVars, ropen, roff, ridx, rdel, rread, rmore, rcur, rres>>
    /\ ReaderFrame

\* A call of Reader::read.  A FileAssembler first answers an error.
ReadCall ==
    /\ rst # "NONE" /\ rop = "idle" /\ NoFail
    /\ FileUser => rres \notin {"err", "iterr"}
    /\ rop' = "first" /\ rres' = "none"
    /\ UNCHANGED <<ckptVars, listVars, rst, ropen, rname, roff, ridx, rdel, rread, rmore, rcur>>
    /\ ReaderFrame

\* The sections of the first n records read.
AllButFirst(n) == {rread[k] : k \in 2 .. n}
FirstRead(n)   == {rread[k] : k \in 1 .. n}

\* Reader::commit(n): the first n sections read are deleted, a deletion that
\* fails is only logged, and reading starts again at what is left.
Commit(n) ==
    LET deleted == FirstRead(n) IN
    /\ rst # "NONE" /\ rop = "idle"
    /\ \E kept \in SUBSET deleted :
          /\ IF kept = {} THEN NoFail ELSE Fail("del")
          /\ data' = [data EXCEPT ![rname] = [i \in Sections |->
                        IF i \in deleted \ kept THEN Absent ELSE @[i]]]
    /\ out' = out \o [k \in 1 .. n |-> data[rname][rread[k]]]
    /\ rdel' = IF n = 0 THEN rdel ELSE rread[n] + 1
    /\ rst' = "ITER_INIT" /\ rread' = << >> /\ rres' = "none"
    /\ UNCHANGED <<made, info, stub, listVars, ropen, rname, roff, ridx, rmore, rcur, rop>>
    /\ UNCHANGED <<wVars, wop, acked, nrestart>>

\* The assembler commits what it transmitted, or nothing when that failed, once
\* its chunk is full, its hold timer expires or the store waits for a commit.
CommitSent == /\ rres \in {"ok", "again", "waitcommit"} /\ rread # << >>
              /\ \E n \in 1 .. Len(rread) : Commit(n)
CommitNothing == /\ \/ rres \in {"ok", "again", "waitcommit"} /\ rread # << >>
                    \/ FileUser /\ rres \in {"again", "err"}
                 /\ Commit(0)

\* FileAssembler::handleError: resetReader when the iterator could not be
\* initialised.  The new reader is made at once: MakeReader follows, and then
\* the commit(0) that svc() makes after every error.
ResetReader ==
    /\ FileUser /\ rop = "idle" /\ rres = "iterr" /\ NoFail
    /\ rst' = "NONE" /\ ropen' = FALSE /\ rname' = NoName
    /\ roff' = 0 /\ ridx' = 0 /\ rdel' = 0
    /\ rread' = << >> /\ rmore' = TRUE /\ rcur' = -1 /\ rres' = "err"
    /\ UNCHANGED <<ckptVars, listVars, rop>>
    /\ ReaderFrame

ReaderStep ==
    \/ ReaderOpen \/ ReaderReadInfo \/ ReaderIterInit \/ ReaderRead
    \/ ReaderWait \/ ReaderClose \/ ReaderDelete \/ ReaderGetNew

-----------------------------------------------------------------------------
(* Restarts of the daemon.                                                 *)

\* Strategy::shutdown waits for the calls in progress; the writer writes its
\* info section.  When the close fails the destructor writes it once more, with
\* the index and the offset as the first update left them.
Flush ==
    LET flushed == wopen /\ info[wname] # NoInfo
        full    == flushed /\ HoldsMax(MaxSections)
    IN  /\ wop = "idle" /\ rop = "idle"
        /\ \/ Fail("flush") /\ UNCHANGED <<info, stub>>
           \/ /\ stub' = IF full THEN stub \cup {wname} ELSE stub
              /\ \/ /\ NoFail
                    /\ info' = IF flushed
                               THEN [info EXCEPT ![wname] = [off |-> woff, idx |-> widx]]
                               ELSE info
                 \/ /\ full /\ Fail("close")
                    /\ info' = [info EXCEPT ![wname] = NextStore(MaxSections)]

\* rebuild: the memory of the stores that StatusHandler::load found.
UsedStill == used + Len(saved)
Reloaded  == Len(saved)

\* Strategy::rebuild in the next process: StatusHandler::load reads the list of
\* names, and their memory is in use.
NewProcess ==
    /\ wst # "NONE" /\ nrestart < MaxRestarts /\ nrestart' = nrestart + 1
    /\ names' = saved /\ used' = Reloaded
    /\ wst' = "NONE" /\ wopen' = FALSE /\ wname' = NoName /\ woff' = 0 /\ widx' = 0
    /\ wop' = "idle"
    /\ rst' = "NONE" /\ ropen' = FALSE /\ rname' = NoName /\ roff' = 0 /\ ridx' = 0
    /\ rdel' = 0 /\ rread' = << >> /\ rmore' = TRUE /\ rcur' = -1
    /\ rop' = "idle" /\ rres' = "none"
    /\ UNCHANGED <<made, data, saved, nextName, acked, out>>

Shutdown == Flush /\ NewProcess
Crash    == Fail("crash") /\ UNCHANGED <<info, stub>> /\ NewProcess

-----------------------------------------------------------------------------
WriterActions == MakeWriter \/ WriterCall \/ ForceStoreChange \/ SetMessageIndex \/ WriterStep
UserActions   == MakeReader \/ ReadCall \/ CommitSent \/ CommitNothing \/ ResetReader

Next == WriterActions \/ UserActions \/ ReaderStep \/ Shutdown \/ Crash

Spec == Init /\ [][Next]_vars

\* A thread in a call goes on with it.  An assembler's thread makes its reader
\* and keeps reading, and its hold timer makes it transmit and commit what it has
\* read, again and again; a FileAssembler answers every error before it reads on.
ReaderFairness ==
    /\ WF_vars(WriterStep) /\ WF_vars(ReaderStep)
    /\ WF_vars(ReadCall) /\ WF_vars(MakeReader)
    /\ SF_vars(CommitSent)
    /\ WF_vars(FileUser /\ rres = "err" /\ CommitNothing) /\ WF_vars(ResetReader)

\* The producer's data channel has its writer, and the producer repeats a record
\* until it is acknowledged.  A mutex that is released again and again, by a
\* reader that is reset each time, is got in the end.
WriterFairness ==
    WF_vars(WriterCall) /\ SF_vars(MakeWriter) /\ SF_vars(WriterGetNew)

FairReaderSpec == Spec /\ ReaderFairness

-----------------------------------------------------------------------------
(* Properties.                                                             *)

\* The type of every variable.
CkptType ==
    /\ made \subseteq Names /\ stub \subseteq Names
    /\ info \in [Names -> Infos \cup {NoInfo}]
    /\ data \in [Names -> [Sections -> Nat]]
ListType ==
    /\ saved \in Seq(Names) /\ names \in Seq(Names)
    /\ used \in Int /\ nextName \in 1 .. MaxStores + 1
WriterType ==
    /\ wst \in WriterStates /\ wop \in WriterCalls
    /\ wopen \in BOOLEAN /\ wname \in Names \cup {NoName}
    /\ woff \in Nat /\ widx \in Nat
ReaderType ==
    /\ rst \in ReaderStates /\ rop \in ReaderCalls /\ rres \in ReadResults
    /\ ropen \in BOOLEAN /\ rname \in Names \cup {NoName}
    /\ roff \in Nat /\ ridx \in Nat /\ rdel \in Nat
    /\ rread \in Seq(Sections) /\ rmore \in BOOLEAN /\ rcur \in Sections \cup {-1}
HistoryType ==
    /\ acked \in Nat /\ out \in Seq(Nat)
    /\ nfault \in Nat /\ nrestart \in Nat
TypeOK == CkptType /\ ListType /\ WriterType /\ ReaderType /\ HistoryType

Stored(n) == {data[n][i] : i \in Sections} \ {Absent}

\* Every record acknowledged to the producer was either handed over by a commit
\* or is in a store that the producer's list still names: rotation, deletion,
\* failed steps and retries lose nothing.
NoAckedRecordLost ==
    \A r \in 1 .. acked :
        \/ r \in ToSet(out)
        \/ \E n \in ToSet(names) : r \in Stored(n)

\* The assembler commits record 1, 2, 3, ...: nothing skipped, repeated or
\* reordered across stores, re-reads and failed reads.
DeliveredInOrder == \A k \in 1 .. Len(out) : out[k] = k

\* No record is delivered twice.
DeliveredOnce == \A j, k \in 1 .. Len(out) : out[j] = out[k] => j = k

\* StoringManager::storeEmpty, asked by whoever deletes the data source when
\* the manager's mutex is free, of a producer whose writer and reader exist.
StoreEmpty == Len(names) <= 1 /\ woff + widx <= roff + rdel

\* When storeEmpty says that all records were sent, they were.
StoreEmptySound ==
    wst # "NONE" /\ rst # "NONE" /\ wop # "init" /\ rop # "init" /\ StoreEmpty
        => Len(out) = acked

\* Writer::getLastMessage, which an operator reads, is the number of records
\* acknowledged, whatever the stores it went through and across restarts.
WrittenCountExact == wst = "WRITE" => woff + widx = acked

\* The memory accounted for is that of the stores in the list.
MemoryMatchesStores == used = Len(names)

\* A store marked full by its stub section gains no record until it is deleted:
\* the reader may delete it once it has committed what it saw.
FullStoreGrowsNot ==
    [][\A n \in stub : Stored(n)' \subseteq Stored(n)]_vars

\* A store leaves the list only when its acknowledged records were committed.
OnlySentStoresDropped ==
    [][\A n \in ToSet(names) \ ToSet(names') :
          Stored(n) \cap (1 .. acked) \subseteq ToSet(out)]_vars

\* Every record acknowledged is committed in the end.
EventuallyDelivered ==
    \A r \in 1 .. MaxRecords : acked >= r ~> r \in ToSet(out)

\* A producer that goes on gets all its records acknowledged: full memory clears
\* as the reader deletes stores, a failed step is repeated by the next call.  A
\* removal that failed after it took the store's name from the list has lost the
\* store's memory for the life of the process, and then the writer may starve.
EventuallyWritten ==
    WriterFairness /\ []MemoryMatchesStores => <>(acked = MaxRecords)

\* The store implements the log.
Log == INSTANCE DdtLog WITH written <- acked, delivered <- out
ImplementsLog == Log!Spec

=============================================================================
