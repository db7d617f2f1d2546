----------------------- MODULE DdtBlockAssembler_proofs -----------------------
(***************************************************************************)
(* What holds of the block assembler for chunks, stores and memory of any  *)
(* size, any number of records, failures and restarts.                     *)
(*                                                                         *)
(* Whatever fails, the assembler uses the store as its specification says  *)
(* (BlockAssemblerUsesStore).  Unless a read of a section fails, it        *)
(* commits what a peer took, and deletes what is in its chunk.  LoopInv is *)
(* what holds whatever fails, ChunkInv what holds then: the reader has     *)
(* read since its iterator was made the records in the chunk, no more.     *)
(***************************************************************************)
EXTENDS DdtBlockAssembler, DdtStore_proofs

\* The thread of the assembler is in a call of the reader, and gets its result.
Returned == pc = "reading" /\ rop = "idle"

\* The records in the chunk, the one that read() has just returned included.
Gathered == IF Returned /\ rres = "ok" THEN Len(chunk) + 1 ELSE Len(chunk)

\* The place of the thread and its chunk, and the calls that the reader is in.
AsmType == pc \in {"start", "get", "reading", "send", "pushed"} /\ chunk \in Seq(Nat)
CallIsOfThread ==
    /\ pc \in {"get", "send", "pushed"} => rop = "idle" /\ rst # "NONE"
    /\ pc = "reading" => rop # "init" /\ rst # "NONE"
    /\ rop \in {"first", "loop"} => pc = "reading"

\* With records in the chunk the reader stays at its store, and its iterator is
\* not made anew before the call returns.
Waits == {"WAIT_DATA", "WAIT_ERROR", "WAIT_COMMIT"}
ChunkGoesOn ==
    chunk # << >> => /\ pc = "get" => rst = "READ"
                     /\ pc = "reading" /\ rop = "first" => rst = "READ"
                     /\ pc = "reading" /\ rop = "loop" => rst \in Waits

\* What a call returns fits the records read.
ResultFits == Returned => /\ rres = "ok" => rst = "READ"
                          /\ rres = "waitcommit" => rread # << >>
GatheredWereRead == pc # "start" => Gathered <= Len(rread)

\* A chunk is sent when the store is ready for a commit.
ReadyToCommit ==
    pc \in {"send", "pushed"} =>
        rres \in {"ok", "again", "waitcommit"} /\ rread # << >>

LoopInv == /\ AsmType /\ CallIsOfThread /\ ChunkGoesOn
           /\ ResultFits /\ GatheredWereRead /\ ReadyToCommit

-----------------------------------------------------------------------------
(* The assembler is a user of the store.                                   *)

\* The results that end a call, and the state in which they leave the reader.
LEMMA ReaderAfterCall ==
    ASSUME NEW r \in StepResults, ReaderAfter(r), rop \in {"first", "loop"}
    PROVE  /\ rst' = ReaderNext(r)
           /\ rop = "first" => rop' = "loop" /\ rres' = rres
           /\ rop = "loop" /\ r \in {"ok", "empty"} => rop' = "loop" /\ rres' = rres
           /\ rop = "loop" /\ r \notin {"ok", "empty"} => rop' = "idle" /\ rres' = r
  BY DEF ReaderAfter

\* A writer changes no section that holds a record, and nothing of the reader.
LEMMA WriterKeepsHeld ==
    ASSUME TypeInv, WriterActions
    PROVE  /\ UNCHANGED <<rVars, out>>
           /\ \A n \in Names, i \in Sections : Held(n, i) => data'[n][i] = data[n][i]
<1>1. UNCHANGED <<rVars, out>>
  BY DEF WriterActions, WriterStep, WriterOpen, WriterReadInfo, WriterWrite, WriterUpdateInfo,
         WriterClose, WriterGetNew, MakeWriter, WriterCall, ForceStoreChange, SetMessageIndex,
         WriterFrame
<1>2. data' = data \/ (WriterWrite /\ AddSection)
  BY DEF WriterActions, WriterStep, WriterOpen, WriterReadInfo, WriterWrite, WriterUpdateInfo,
         WriterClose, WriterGetNew, MakeWriter, WriterCall, ForceStoreChange, SetMessageIndex,
         ckptVars
<1>3. ASSUME AddSection, NEW n \in Names, NEW i \in Sections, Held(n, i)
      PROVE  data'[n][i] = data[n][i]
  <2>1. data \in [Names -> [Sections -> Nat]]
    BY DataType
  <2>2. data' = data \/ (~ Held(wname, widx) /\ data' = [data EXCEPT ![wname][widx] = acked + 1])
    BY <1>3 DEF AddSection, Held
  <2>3. QED BY <1>3, <2>1, <2>2 DEF Held
<1>4. QED BY <1>1, <1>2, <1>3

\* The assembler's own steps are calls that the specification of the store
\* allows its user.
LEMMA CommitIsSpecified ==
    ASSUME TypeInv, LoopInv, CommitPushed \/ PushFails
    PROVE  /\ CommitSent \/ CommitNothing
           /\ \E n \in 0 .. Len(rread) : Commit(n)
<1>1. /\ rres \in {"ok", "again", "waitcommit"} /\ rread # << >>
      /\ Len(chunk) \in Nat /\ Len(rread) \in Nat /\ Len(chunk) <= Len(rread)
  BY ReadType DEF CommitPushed, PushFails, LoopInv, ReadyToCommit, GatheredWereRead, AsmType,
         Gathered, Returned
<1>2. Commit(Len(chunk)) \/ Commit(0)
  BY DEF CommitPushed, PushFails, CommitNone
<1>3. CASE Commit(0)
  BY <1>1, <1>3 DEF CommitNothing
<1>4. CASE Commit(Len(chunk)) /\ Len(chunk) # 0
  BY <1>1, <1>4 DEF CommitSent
<1>5. QED BY <1>1, <1>2, <1>3, <1>4

LEMMA StepIsSpecified == ASSUME TypeInv, LoopInv, [BNext]_bVars PROVE [Next]_vars
<1>1. CASE StartChunk \/ ReadReturned \/ PushChunk \/ UNCHANGED bVars
  BY <1>1 DEF StartChunk, ReadReturned, PushChunk, bVars
<1>2. CASE CommitPushed \/ PushFails
  BY <1>2, CommitIsSpecified DEF Next, UserActions
<1>3. CASE GetRecord \/ BShutdown \/ BCrash
  BY <1>3 DEF GetRecord, BShutdown, BCrash, Next, UserActions
<1>4. CASE WriterActions \/ MakeReader \/ ReaderStep
  BY <1>4 DEF Next, UserActions
<1>5. QED BY <1>1, <1>2, <1>3, <1>4 DEF BNext

\* The steps of the reader in a call of the assembler.
LEMMA LoopReaderStep ==
    ASSUME TypeInv, LoopInv, ReaderStep, UNCHANGED aVars, pc = "reading",
           rop \in {"first", "loop"}
    PROVE  LoopInv'
<1> USE DEF LoopInv
<1>1. /\ chunk \in Seq(Nat) /\ Len(chunk) \in Nat /\ Len(rread) \in Nat
      /\ chunk = << >> <=> Len(chunk) = 0
      /\ rread \in Seq(Sections) /\ Len(chunk) <= Len(rread)
  BY ReadType, EmptySeq DEF AsmType, GatheredWereRead, Gathered, Returned
<1>2. AsmType' /\ ReadyToCommit' /\ UNCHANGED <<pc, chunk>>
  BY DEF AsmType, ReadyToCommit, aVars
<1>3. CASE rst \notin {"READ"} \cup Waits
  <2>1. chunk = << >> /\ chunk' = << >> /\ Len(rread') \in Nat
    BY <1>2, <1>3, ReadType, TypeStep DEF ChunkGoesOn, Next, TypeInv, TypeOK, ReaderType
  <2>2. /\ rop' \in {"loop", "idle"} /\ rst' # "NONE"
        /\ rop' = "idle" => rres' \in {"err", "iterr"}
    <3>1. CASE ReaderReadInfo
      BY <3>1, ReaderAfterCall
      DEF ReaderReadInfo, ReaderNext, StepResults, InLoop, CallIsOfThread
    <3>2. CASE ReaderOpen \/ ReaderIterInit \/ ReaderClose \/ ReaderDelete \/ ReaderGetNew
      <4>1. \E r \in {"ok", "err", "iterr"} : ReaderAfter(r)
        BY <3>2 DEF ReaderOpen, ReaderIterInit, ReaderClose, ReaderDelete, ReaderGetNew
      <4>2. QED BY <1>3, <4>1, ReaderAfterCall DEF StepResults, ReaderNext, CallIsOfThread
    <3>3. QED BY <1>3, <3>1, <3>2 DEF ReaderStep, ReaderRead, ReaderWait, Waits
  <2>3. QED
    BY <1>1, <1>2, <2>1, <2>2
    DEF CallIsOfThread, ChunkGoesOn, ResultFits, GatheredWereRead, Gathered, Returned
<1>4. CASE rst \in Waits
  <2>1. UNCHANGED rread /\ \E r \in {"ok", "again", "err", "waitcommit"} :
           /\ ReaderAfter(r)
           /\ r = "ok" => rread = << >> /\ rst = "WAIT_COMMIT"
           /\ r = "waitcommit" => rread # << >> /\ rst = "WAIT_COMMIT"
    BY <1>4 DEF ReaderStep, ReaderOpen, ReaderReadInfo, ReaderIterInit, ReaderRead, ReaderWait,
                ReaderClose, ReaderDelete, ReaderGetNew, Waits
  <2>2. chunk # << >> => rop = "loop"
    BY <1>4 DEF ChunkGoesOn, Waits
  <2>3. PICK r \in {"ok", "again", "err", "waitcommit"} :
           /\ ReaderAfter(r)
           /\ r = "ok" => rread = << >> /\ rst = "WAIT_COMMIT"
           /\ r = "waitcommit" => rread # << >> /\ rst = "WAIT_COMMIT"
    BY <2>1
  <2>4. /\ rop = "first" => rop' = "loop"
        /\ rop = "loop" /\ r # "ok" => rop' = "idle" /\ rres' = r
        /\ rop = "loop" /\ r = "ok" => rop' = "loop"
    BY <2>3, ReaderAfterCall DEF StepResults
  <2>5. rst' \in {"ITER_INIT", "WAIT_COMMIT"}
    BY <1>4, <2>3, ReaderAfterCall DEF StepResults, ReaderNext, Waits
  <2>6. chunk # << >> => rread # << >>
    BY <1>1
  <2>7. CallIsOfThread'
    BY <1>2, <2>4, <2>5 DEF CallIsOfThread
  <2>8. ChunkGoesOn'
    BY <1>2, <2>2, <2>3, <2>4, <2>6 DEF ChunkGoesOn
  <2>9. Returned' => rop = "loop" /\ rres' = r /\ r # "ok"
    BY <2>4 DEF Returned
  <2>10. ResultFits' /\ GatheredWereRead'
    BY <1>1, <1>2, <2>1, <2>3, <2>9 DEF ResultFits, GatheredWereRead, Gathered
  <2>11. QED
    BY <1>2, <2>7, <2>8, <2>10
<1>5. CASE rst = "READ"
  <2>1. ReaderRead
    BY <1>5 DEF ReaderStep, ReaderOpen, ReaderReadInfo, ReaderIterInit, ReaderWait,
                ReaderClose, ReaderDelete, ReaderGetNew
  <2>2. ASSUME NEW i \in Sections, SectionAvailable(i)
        PROVE  LoopInv'
    <3>1. /\ rop' = "idle" /\ rst' = "READ"
          /\ \/ rres' = "ok" /\ Len(rread') = Len(rread) + 1
             \/ rres' = "err" /\ UNCHANGED rread
      BY <1>1, <1>5, <2>2, AppendProperties DEF SectionAvailable
    <3>2. QED
      BY <1>1, <1>2, <3>1 DEF CallIsOfThread, ChunkGoesOn, ResultFits, GatheredWereRead,
                              Gathered, Returned
  <2>3. ASSUME UNCHANGED rread, NEW r \in {"empty", "again", "err"}, ReaderAfter(r)
        PROVE  LoopInv'
    <3>1. chunk # << >> => rop = "first" /\ rread # << >>
      BY <1>1, <1>5, EmptySeq DEF ChunkGoesOn, Waits
    <3>2. /\ rst' = ReaderNext(r) /\ rop' \in {"loop", "idle"}
          /\ rop = "first" => rop' = "loop"
          /\ rop' = "idle" => rres' \in {"again", "err"}
      BY <2>3, ReaderAfterCall DEF StepResults
    <3>3. rst' # "NONE" /\ (rread # << >> => rst' \in Waits)
      BY <1>5, <3>2 DEF ReaderNext, NextAfterEmpty, Waits
    <3>4. QED
      BY <1>1, <1>2, <2>3, <3>1, <3>2, <3>3
      DEF CallIsOfThread, ChunkGoesOn, ResultFits, GatheredWereRead, Gathered, Returned
  <2>4. QED
    <3>1. CASE ~rmore /\ SectionAvailable(rcur)
      BY <2>2, <3>1 DEF TypeInv, SectionAtHand
    <3>2. CASE \E i \in Ahead : SectionAvailable(i)
      BY <2>2, <3>2 DEF Ahead
    <3>3. CASE UNCHANGED rread /\ \E r \in {"empty", "again", "err"} : ReaderAfter(r)
      BY <2>3, <3>3
    <3>4. QED BY <2>1, <3>1, <3>2, <3>3 DEF ReaderRead
<1>6. QED BY <1>3, <1>4, <1>5

\* Making and initialising a reader, before the loop of the assembler begins.
LEMMA LoopReaderInit ==
    ASSUME TypeInv, LoopInv, MakeReader \/ (ReaderStep /\ rop = "init"), UNCHANGED aVars
    PROVE  LoopInv'
<1>1. pc = "start"
  BY DEF LoopInv, CallIsOfThread, AsmType, MakeReader
<1>2. rop' \in {"init", "idle"}
  BY DEF MakeReader, ReaderStep, ReaderOpen, ReaderReadInfo, ReaderIterInit, ReaderRead,
         ReaderWait, ReaderClose, ReaderDelete, ReaderGetNew, ReaderAfter, SectionAvailable,
         InLoop
<1>3. QED
  BY <1>1, <1>2 DEF LoopInv, AsmType, CallIsOfThread, ChunkGoesOn, ResultFits,
                    GatheredWereRead, ReadyToCommit, Returned, aVars

\* Steps that leave the reader and the assembler alone.
LEMMA LoopKept ==
    ASSUME LoopInv, UNCHANGED <<rVars, aVars>> PROVE LoopInv'
  BY DEF LoopInv, AsmType, CallIsOfThread, ChunkGoesOn, ResultFits, GatheredWereRead,
         ReadyToCommit, Returned, Gathered, rVars, aVars

\* A process that begins: the loop of the assembler is at its start.
LEMMA LoopRestarted ==
    ASSUME NewProcess, pc' = "start", chunk' \in Seq(Nat)
    PROVE  LoopInv'
  BY DEF NewProcess, LoopInv, AsmType, CallIsOfThread, ChunkGoesOn, ResultFits,
         GatheredWereRead, ReadyToCommit, Returned

LEMMA LoopOwnStep ==
    ASSUME TypeInv, LoopInv,
           StartChunk \/ GetRecord \/ ReadReturned \/ PushChunk \/ CommitPushed \/ PushFails
    PROVE  LoopInv'
<1>1. /\ chunk \in Seq(Nat) /\ Len(chunk) \in Nat /\ Len(rread) \in Nat
      /\ rread \in Seq(Sections)
      /\ chunk = << >> <=> Len(chunk) = 0
      /\ rread = << >> <=> Len(rread) = 0
  BY ReadType, EmptySeq DEF LoopInv, AsmType
<1> USE DEF LoopInv
<1>2. CASE StartChunk
  BY <1>1, <1>2 DEF StartChunk, AsmType, CallIsOfThread, ChunkGoesOn, ResultFits,
                    GatheredWereRead, ReadyToCommit, Returned, Gathered, vars, rVars
<1>3. CASE GetRecord
  BY <1>1, <1>3 DEF GetRecord, ReadCall, AsmType, CallIsOfThread, ChunkGoesOn, ResultFits,
                    GatheredWereRead, ReadyToCommit, Returned, Gathered
<1>4. CASE ReadReturned
  <2>1. /\ pc = "reading" /\ rop = "idle" /\ rst # "NONE"
        /\ UNCHANGED <<rst, rop, rres, rread>>
    BY <1>4 DEF ReadReturned, CallIsOfThread, vars, rVars
  <2>2. CASE rres = "ok" /\ chunk' = Append(chunk, data[rname][rread[Len(rread)]])
               /\ pc' \in {"get", "send"}
    <3>1. Len(chunk) + 1 <= Len(rread) /\ rst = "READ"
      BY <2>1, <2>2 DEF GatheredWereRead, Gathered, Returned, ResultFits
    <3>2. data[rname][rread[Len(rread)]] \in Nat
      BY <1>1, <2>1, <3>1, DataType, ReadType DEF TypeInv, ReaderHasStore
    <3>3. chunk' \in Seq(Nat) /\ Len(chunk') = Len(chunk) + 1
      BY <1>1, <2>2, <3>2, AppendProperties
    <3>4. QED
      BY <1>1, <2>1, <2>2, <3>1, <3>3
      DEF AsmType, CallIsOfThread, ChunkGoesOn, ResultFits, GatheredWereRead, ReadyToCommit,
          Returned, Gathered
  <2>3. CASE /\ rres = "waitcommit" \/ (rres = "again" /\ chunk # << >>)
             /\ pc' = "send" /\ UNCHANGED chunk
    BY <1>1, <2>1, <2>3 DEF AsmType, CallIsOfThread, ChunkGoesOn, ResultFits,
                            GatheredWereRead, ReadyToCommit, Returned, Gathered
  <2>4. CASE pc' = "start" /\ UNCHANGED chunk
    BY <1>1, <2>1, <2>4 DEF AsmType, CallIsOfThread, ChunkGoesOn, ResultFits,
                            GatheredWereRead, ReadyToCommit, Returned
  <2>5. QED BY <1>4, <2>2, <2>3, <2>4 DEF ReadReturned, HoldTimeElapsed
<1>5. CASE PushChunk
  BY <1>1, <1>5 DEF PushChunk, AsmType, CallIsOfThread, ChunkGoesOn, ResultFits,
                    GatheredWereRead, ReadyToCommit, Returned, Gathered, vars, rVars
<1>6. CASE CommitPushed \/ PushFails
  BY <1>1, <1>6 DEF CommitPushed, PushFails, Commit, AsmType, CallIsOfThread, ChunkGoesOn,
                    ResultFits, GatheredWereRead, ReadyToCommit, Returned
<1>7. QED BY <1>2, <1>3, <1>4, <1>5, <1>6

LEMMA LoopStep == ASSUME TypeInv, LoopInv, [BNext]_bVars PROVE LoopInv'
<1>1. CASE StartChunk \/ GetRecord \/ ReadReturned \/ PushChunk \/ CommitPushed \/ PushFails
  BY <1>1, LoopOwnStep
<1>2. CASE BShutdown
  BY <1>2, LoopRestarted DEF BShutdown, Shutdown, LoopInv, AsmType, aVars
<1>3. CASE BCrash
  <2>1. << >> \in Seq(Nat)
    OBVIOUS
  <2>2. QED BY <1>3, <2>1, LoopRestarted DEF BCrash, Crash
<1>4. CASE WriterActions /\ UNCHANGED aVars
  BY <1>4, WriterKeepsHeld, LoopKept
<1>5. CASE MakeReader /\ UNCHANGED aVars
  BY <1>5, LoopReaderInit
<1>6. CASE ReaderStep /\ UNCHANGED aVars
  <2>1. rop # "idle" /\ rop \in ReaderCalls
    BY <1>6 DEF ReaderStep, ReaderOpen, ReaderReadInfo, ReaderIterInit, ReaderRead,
                ReaderWait, ReaderClose, ReaderDelete, ReaderGetNew, TypeInv, TypeOK, ReaderType
  <2>2. CASE rop = "init"
    BY <1>6, <2>2, LoopReaderInit
  <2>3. CASE rop \in {"first", "loop"}
    BY <1>6, <2>3, LoopReaderStep DEF LoopInv, CallIsOfThread
  <2>4. QED BY <2>1, <2>2, <2>3 DEF ReaderCalls
<1>7. CASE UNCHANGED bVars
  BY <1>7, LoopKept DEF bVars, vars
<1>8. QED
  BY <1>1, <1>2, <1>3, <1>4, <1>5, <1>6, <1>7 DEF BNext

LEMMA LoopInit == BInit => TypeInv /\ LoopInv
<1> SUFFICES ASSUME BInit PROVE TypeInv /\ LoopInv
  OBVIOUS
<1>1. TypeInv
  BY TypeInit DEF BInit
<1>2. pc = "start" /\ chunk \in Seq(Nat) /\ rop = "idle"
  BY DEF BInit, Init
<1>3. QED
  BY <1>1, <1>2 DEF LoopInv, AsmType, CallIsOfThread, ChunkGoesOn, ResultFits,
                    GatheredWereRead, ReadyToCommit, Returned

LEMMA AssemblerTypes == BSpec => [](TypeInv /\ LoopInv)
<1>1. TypeInv /\ LoopInv /\ [BNext]_bVars => (TypeInv /\ LoopInv)'
  BY StepIsSpecified, TypeStep, LoopStep
<1>2. QED
  BY <1>1, LoopInit, PTL DEF BSpec

\* Whatever fails, the assembler is a legal user of the store: it commits only
\* when the store is ready for it, never more than was read, and every behaviour
\* of the store with the assembler is one that the store's specification allows.
THEOREM BlockAssemblerUsesStore == BSpec => UsesStoreAsSpecified
<1>1. BInit => Init
  BY DEF BInit
<1>2. TypeInv /\ LoopInv /\ [BNext]_bVars => [Next]_vars
  BY StepIsSpecified
<1>3. QED
  BY <1>1, <1>2, AssemblerTypes, PTL DEF BSpec, Spec, UsesStoreAsSpecified

-----------------------------------------------------------------------------
(* What a commit deletes.                                                  *)

\* A section that the reader finds can be read.  Without it the theorems below
\* fail: the assembler begins a new chunk after a read that failed, and the
\* records of the old one stay among those that the reader counts as read.
ReadsAreSure == "read" \notin Faults

\* While the assembler fills its chunk the records in it are all those that the
\* reader has read; it begins a chunk with none.
AllGathered ==
    /\ pc = "start" /\ rst = "READ" => rread = << >>
    /\ pc \in {"get", "reading"} /\ (rst = "READ" \/ chunk # << >>) => Len(rread) = Gathered
    /\ Returned /\ rst = "READ" => rres = "ok"
ChunkIsRead ==
    pc # "start" => \A k \in 1 .. Len(chunk) : chunk[k] = data[rname][rread[k]]

\* A peer took what was committed, and between a push and its commit the chunk.
SentIsOut == sent = IF pc = "pushed" THEN out \o chunk ELSE out

ChunkInv == HandInv /\ AllGathered /\ ChunkIsRead /\ SentIsOut

\* The records in the hand of a reader stay where they are, whatever fails.
LEMMA HandStep == ASSUME TypeInv, HandInv, [Next]_vars PROVE HandInv'
<1>1. CASE WriterActions
  <2>1. \A n \in Names, i \in Sections : Held(n, i) => Held(n, i)'
    BY <1>1, WriterKeepsHeld DEF Held
  <2>2. QED BY <1>1, <2>1, WriterKeepsHeld, HandKept DEF rVars
<1>2. CASE UserActions
  BY <1>2, HandUserStep
<1>3. CASE ReaderStep
  BY <1>3, HandReaderStep
<1>4. CASE Shutdown \/ Crash
  BY <1>4, HandEmptied DEF Shutdown, Crash, NewProcess
<1>5. CASE UNCHANGED vars
  BY <1>5, HandKept DEF vars, rVars, ckptVars, Held
<1>6. QED BY <1>1, <1>2, <1>3, <1>4, <1>5 DEF Next

\* The lengths that the proofs below compare.
LEMMA Lengths ==
    ASSUME TypeInv, LoopInv
    PROVE  /\ chunk \in Seq(Nat) /\ Len(chunk) \in Nat
           /\ chunk = << >> <=> Len(chunk) = 0
           /\ rread \in Seq(Sections) /\ Len(rread) \in Nat
           /\ rread = << >> <=> Len(rread) = 0
           /\ \A k \in 1 .. Len(rread) : rread[k] \in Sections
           /\ pc # "start" => Len(chunk) <= Len(rread)
           /\ rst # "NONE" => rname \in Names
  BY ReadType, EmptySeq
  DEF LoopInv, AsmType, GatheredWereRead, Gathered, TypeInv, ReaderHasStore

\* The records in the chunk stay where they were read.
LEMMA ChunkStays ==
    ASSUME TypeInv, LoopInv, HandInv, ChunkIsRead, UNCHANGED <<pc, chunk, rname>>,
           chunk # << >> /\ pc # "start" =>
               /\ \A k \in 1 .. Len(rread) : rread'[k] = rread[k]
               /\ \A i \in Sections : Held(rname, i) => data'[rname][i] = data[rname][i]
    PROVE  ChunkIsRead'
<1> SUFFICES ASSUME pc # "start", NEW k \in 1 .. Len(chunk)
             PROVE  chunk[k] = data'[rname][rread'[k]]
  BY DEF ChunkIsRead
<1>1. k \in 1 .. Len(rread) /\ chunk # << >> /\ rread[k] \in Sections
  BY Lengths
<1>2. Held(rname, rread[k])
  BY <1>1 DEF HandInv, ReadAreHeld
<1>3. QED BY <1>1, <1>2 DEF ChunkIsRead

LEMMA ChunkReaderStep ==
    ASSUME ReadsAreSure, TypeInv, LoopInv, ChunkInv, ReaderStep, UNCHANGED aVars,
           pc = "reading", rop \in {"first", "loop"}
    PROVE  AllGathered' /\ ChunkIsRead'
<1>1. UNCHANGED <<pc, chunk>>
  BY DEF aVars
<1>2. AllGathered /\ HandInv /\ ChunkIsRead
  BY DEF ChunkInv
<1>3. CASE rst \notin {"READ"} \cup Waits
  <2>1. chunk = << >> /\ Len(chunk) = 0
    BY <1>3, Lengths DEF LoopInv, ChunkGoesOn
  <2>2. ChunkIsRead'
    BY <1>1, <2>1 DEF ChunkIsRead
  <2>3. rst' = "READ" => rread' = << >> /\ rop' = "loop"
    <3>1. CASE ReaderIterInit
      BY <3>1, ReaderAfterCall DEF ReaderIterInit, StepResults, ReaderNext
    <3>2. CASE ReaderReadInfo
      BY <3>2, ReaderAfterCall DEF ReaderReadInfo, StepResults, ReaderNext
    <3>3. CASE ReaderOpen \/ ReaderClose \/ ReaderDelete \/ ReaderGetNew
      <4>1. \E r \in {"ok", "err"} : ReaderAfter(r)
        BY <3>3 DEF ReaderOpen, ReaderClose, ReaderDelete, ReaderGetNew
      <4>2. rst \in {"OPEN", "CLOSE", "DELETE", "GETNEW"}
        BY <3>3 DEF ReaderOpen, ReaderClose, ReaderDelete, ReaderGetNew
      <4>3. QED BY <4>1, <4>2, ReaderAfterCall DEF StepResults, ReaderNext
    <3>4. QED BY <1>3, <3>1, <3>2, <3>3 DEF ReaderStep, ReaderRead, ReaderWait, Waits
  <2>4. AllGathered'
    BY <1>1, <2>1, <2>3, EmptySeq DEF AllGathered, Gathered, Returned
  <2>5. QED BY <2>2, <2>4
<1>4. CASE rst \in Waits
  <2>1. UNCHANGED <<rread, rname, data>> /\ rst' # "READ"
        /\ \E r \in {"ok", "again", "err", "waitcommit"} :
              ReaderAfter(r) /\ (r = "ok" => rread = << >>)
    BY <1>4 DEF ReaderStep, ReaderOpen, ReaderReadInfo, ReaderIterInit, ReaderRead, ReaderWait,
                ReaderClose, ReaderDelete, ReaderGetNew, Waits, ReaderAfter, ReaderNext, ckptVars
  <2>2. Returned' => rres' # "ok"
    BY <2>1, ReaderAfterCall DEF StepResults, Returned
  <2>3. AllGathered'
    BY <1>1, <1>2, <2>1, <2>2 DEF AllGathered, Gathered, Returned
  <2>4. ChunkIsRead'
    BY <1>1, <1>2, <2>1, ChunkStays
  <2>5. QED BY <2>3, <2>4
<1>5. CASE rst = "READ"
  <2>1. ReaderRead /\ Len(rread) = Len(chunk)
    BY <1>2, <1>5 DEF ReaderStep, ReaderOpen, ReaderReadInfo, ReaderIterInit, ReaderWait,
                      ReaderClose, ReaderDelete, ReaderGetNew, AllGathered, Gathered, Returned
  <2>2. UNCHANGED <<data, rname>>
    BY <2>1 DEF ReaderRead, ckptVars
  <2>3. ASSUME NEW i \in Sections, SectionAvailable(i)
        PROVE  AllGathered' /\ ChunkIsRead'
    <3>1. rop' = "idle" /\ rst' = "READ" /\ rres' = "ok" /\ rread' = Append(rread, i)
      BY <1>5, <2>3 DEF SectionAvailable, ReadsAreSure, Fail
    <3>2. Len(rread') = Len(rread) + 1 /\ \A k \in 1 .. Len(rread) : rread'[k] = rread[k]
      BY <3>1, Lengths, AppendProperties
    <3>3. AllGathered'
      BY <1>1, <2>1, <3>1, <3>2 DEF AllGathered, Gathered, Returned
    <3>4. ChunkIsRead'
      BY <1>1, <1>2, <2>2, <3>2, ChunkStays
    <3>5. QED BY <3>3, <3>4
  <2>4. ASSUME UNCHANGED rread, NEW r \in {"empty", "again", "err"}, ReaderAfter(r)
        PROVE  AllGathered' /\ ChunkIsRead'
    <3>1. rst' # "READ" /\ (rop' = "idle" => rres' # "ok")
      BY <1>5, <2>4, ReaderAfterCall DEF StepResults, ReaderNext, NextAfterEmpty
    <3>2. AllGathered'
      BY <1>1, <2>1, <2>4, <3>1 DEF AllGathered, Gathered, Returned
    <3>3. ChunkIsRead'
      BY <1>1, <1>2, <2>2, <2>4, ChunkStays
    <3>4. QED BY <3>2, <3>3
  <2>5. QED
    <3>1. CASE ~rmore /\ SectionAvailable(rcur)
      BY <2>3, <3>1 DEF TypeInv, SectionAtHand
    <3>2. CASE \E i \in Ahead : SectionAvailable(i)
      BY <2>3, <3>2 DEF Ahead
    <3>3. CASE UNCHANGED rread /\ \E r \in {"empty", "again", "err"} : ReaderAfter(r)
      BY <2>4, <3>3
    <3>4. QED BY <2>1, <3>1, <3>2, <3>3 DEF ReaderRead
<1>6. QED BY <1>3, <1>4, <1>5

\* Making and initialising a reader reads nothing.
LEMMA ChunkReaderInit ==
    ASSUME LoopInv, ChunkInv, MakeReader \/ (ReaderStep /\ rop = "init"), UNCHANGED aVars
    PROVE  AllGathered' /\ ChunkIsRead'
<1>1. pc = "start" /\ pc' = "start"
  BY DEF LoopInv, CallIsOfThread, AsmType, MakeReader, aVars
<1>2. rst = "READ" => rread = << >>
  BY <1>1 DEF ChunkInv, AllGathered
<1>3. rst' = "READ" => rread' = << >>
  <2>1. CASE MakeReader
    BY <2>1 DEF MakeReader
  <2>2. CASE ReaderIterInit
    BY <2>2 DEF ReaderIterInit
  <2>3. CASE ReaderRead /\ rop = "init"
    BY <1>2, <2>3 DEF ReaderRead, ReaderAfter, SectionAvailable
  <2>4. CASE ReaderReadInfo /\ rop = "init"
    BY <2>4 DEF ReaderReadInfo, ReaderAfter, ReaderNext
  <2>5. CASE (ReaderOpen \/ ReaderClose \/ ReaderDelete \/ ReaderGetNew) /\ rop = "init"
    <3>1. \E r \in {"ok", "err"} : ReaderAfter(r)
      BY <2>5 DEF ReaderOpen, ReaderClose, ReaderDelete, ReaderGetNew
    <3>2. rst \in {"OPEN", "CLOSE", "DELETE", "GETNEW"}
      BY <2>5 DEF ReaderOpen, ReaderClose, ReaderDelete, ReaderGetNew
    <3>3. QED BY <2>5, <3>1, <3>2 DEF ReaderAfter, ReaderNext
  <2>6. CASE ReaderWait /\ rop = "init"
    <3>1. rst \in Waits /\ \E r : ReaderAfter(r)
      BY <2>6 DEF ReaderWait, Waits
    <3>2. rst' \in {rst, "ITER_INIT"}
      BY <2>6, <3>1 DEF ReaderAfter, ReaderNext, Waits
    <3>3. QED BY <3>1, <3>2 DEF Waits
  <2>7. QED BY <2>1, <2>2, <2>3, <2>4, <2>5, <2>6 DEF ReaderStep
<1>4. QED
  BY <1>1, <1>3 DEF AllGathered, ChunkIsRead, Returned

\* A commit of the chunk hands over what is in the chunk.
LEMMA CommitHandsOver ==
    ASSUME TypeInv, LoopInv, ChunkInv
    PROVE  /\ CommitPushed => out' = out \o chunk
           /\ PushFails => out' = out
<1>1. ASSUME CommitPushed PROVE out' = out \o chunk
  <2>1. out' = out \o [k \in 1 .. Len(chunk) |-> data[rname][rread[k]]] /\ pc = "pushed"
    BY <1>1 DEF CommitPushed, Commit
  <2>2. \A k \in 1 .. Len(chunk) : chunk[k] = data[rname][rread[k]]
    BY <2>1 DEF ChunkInv, ChunkIsRead
  <2>3. chunk = [k \in 1 .. Len(chunk) |-> chunk[k]]
    <3>1. chunk \in [1 .. Len(chunk) -> Nat]
      BY Lengths, LenProperties
    <3>2. QED BY <3>1
  <2>4. QED BY <2>1, <2>2, <2>3
<1>2. ASSUME PushFails PROVE out' = out
  <2>1. out' = out \o [k \in 1 .. 0 |-> data[rname][rread[k]]]
    BY <1>2 DEF PushFails, CommitNone, Commit
  <2>2. [k \in 1 .. 0 |-> data[rname][rread[k]]] = << >>
    OBVIOUS
  <2>3. QED BY <2>1, <2>2, OutType, ConcatEmptySeq
<1>3. QED BY <1>1, <1>2

LEMMA ChunkOwnStep ==
    ASSUME TypeInv, LoopInv, ChunkInv,
           StartChunk \/ GetRecord \/ ReadReturned \/ PushChunk \/ CommitPushed \/ PushFails
    PROVE  AllGathered' /\ ChunkIsRead' /\ SentIsOut'
<1> USE DEF ChunkInv
<1>1. CASE StartChunk
  <2>1. /\ pc = "start" /\ pc' = "get" /\ chunk' = << >>
        /\ UNCHANGED <<rst, rop, rread, sent, out>>
    BY <1>1 DEF StartChunk, vars, rVars
  <2>2. QED
    BY <2>1, Lengths, EmptySeq
    DEF AllGathered, ChunkIsRead, SentIsOut, Gathered, Returned
<1>2. CASE GetRecord
  BY <1>2 DEF GetRecord, ReadCall, AllGathered, ChunkIsRead, SentIsOut, Gathered, Returned,
              ckptVars, ReaderFrame
<1>3. CASE ReadReturned
  <2>1. /\ pc = "reading" /\ rop = "idle"
        /\ UNCHANGED <<rst, rop, rres, rread, rname, data, sent, out>>
    BY <1>3 DEF ReadReturned, vars, rVars, ckptVars
  <2>2. SentIsOut'
    BY <1>3, <2>1 DEF ReadReturned, SentIsOut
  <2>3. CASE rres = "ok" /\ chunk' = Append(chunk, data[rname][rread[Len(rread)]])
               /\ pc' \in {"get", "send"}
    <3>1. rst = "READ" /\ Len(rread) = Len(chunk) + 1 /\ rread # << >>
      BY <2>1, <2>3, Lengths DEF LoopInv, ResultFits, AllGathered, Gathered, Returned
    <3>2. data[rname][rread[Len(rread)]] \in Nat
      BY <3>1, Lengths, DataType
    <3>3. /\ Len(chunk') = Len(chunk) + 1
          /\ \A k \in 1 .. Len(chunk) : chunk'[k] = chunk[k]
          /\ chunk'[Len(chunk) + 1] = data[rname][rread[Len(rread)]]
      BY <2>3, <3>2, Lengths, AppendProperties
    <3>4. AllGathered'
      BY <2>1, <2>3, <3>1, <3>3 DEF AllGathered, Gathered, Returned
    <3>5. ChunkIsRead'
      BY <2>1, <3>1, <3>3, Lengths DEF ChunkIsRead
    <3>6. QED BY <2>2, <3>4, <3>5
  <2>4. CASE pc' = "send" /\ UNCHANGED chunk
    BY <2>1, <2>2, <2>4 DEF AllGathered, ChunkIsRead, Returned
  <2>5. CASE rres \in {"again", "err", "iterr"} /\ pc' = "start" /\ UNCHANGED chunk
    BY <2>1, <2>2, <2>5 DEF AllGathered, ChunkIsRead, Returned
  <2>6. QED BY <1>3, <2>3, <2>4, <2>5 DEF ReadReturned
<1>4. CASE PushChunk
  BY <1>4 DEF PushChunk, AllGathered, ChunkIsRead, SentIsOut, Returned, vars, rVars, ckptVars
<1>5. CASE CommitPushed \/ PushFails
  <2>1. pc' = "start" /\ rst' = "ITER_INIT" /\ UNCHANGED <<chunk, sent>>
    BY <1>5 DEF CommitPushed, PushFails, Commit
  <2>2. sent = out'
    BY <1>5, CommitHandsOver DEF CommitPushed, PushFails, SentIsOut
  <2>3. QED BY <2>1, <2>2 DEF AllGathered, ChunkIsRead, SentIsOut, Returned
<1>6. QED BY <1>1, <1>2, <1>3, <1>4, <1>5

LEMMA ChunkStep ==
    ASSUME ReadsAreSure, TypeInv, LoopInv, ChunkInv, [BNext]_bVars PROVE ChunkInv'
<1>1. HandInv'
  BY StepIsSpecified, HandStep DEF ChunkInv
<1>2. CASE StartChunk \/ GetRecord \/ ReadReturned \/ PushChunk \/ CommitPushed \/ PushFails
  BY <1>1, <1>2, ChunkOwnStep DEF ChunkInv
<1>3. CASE BShutdown \/ BCrash
  <2>1. pc' = "start" /\ rst' = "NONE" /\ out' = out
    BY <1>3 DEF BShutdown, BCrash, Shutdown, Crash, NewProcess, aVars
  <2>2. sent' = out
    <3>1. CASE BShutdown
      BY <3>1 DEF BShutdown, aVars, ChunkInv, SentIsOut
    <3>2. CASE BCrash
      <4>1. sent \in {out, out \o chunk} /\ sent' = SubSeq(sent, 1, Len(out))
        BY <3>2 DEF BCrash, ChunkInv, SentIsOut
      <4>2. out = SubSeq(out, 1, Len(out)) /\ out = SubSeq(out \o chunk, 1, Len(out))
        BY OutType, Lengths
      <4>3. QED BY <4>1, <4>2
    <3>3. QED BY <1>3, <3>1, <3>2
  <2>3. QED
    BY <1>1, <2>1, <2>2 DEF ChunkInv, AllGathered, ChunkIsRead, SentIsOut, Returned
<1>4. CASE WriterActions /\ UNCHANGED aVars
  <2>1. UNCHANGED <<pc, chunk, sent, out, rst, rop, rres, rread, rname>>
    BY <1>4, WriterKeepsHeld DEF aVars, rVars
  <2>2. chunk # << >> /\ pc # "start" =>
          \A i \in Sections : Held(rname, i) => data'[rname][i] = data[rname][i]
    <3>1. pc # "start" => rname \in Names
      BY Lengths DEF LoopInv, CallIsOfThread, AsmType
    <3>2. QED BY <1>4, <3>1, WriterKeepsHeld
  <2>3. ChunkIsRead'
    BY <2>1, <2>2, ChunkStays DEF ChunkInv
  <2>4. AllGathered' /\ SentIsOut'
    BY <2>1 DEF ChunkInv, AllGathered, SentIsOut, Gathered, Returned
  <2>5. QED BY <1>1, <2>3, <2>4 DEF ChunkInv
<1>5. CASE (MakeReader \/ ReaderStep) /\ UNCHANGED aVars
  <2>1. SentIsOut'
    <3>1. UNCHANGED out
      BY <1>5 DEF MakeReader, ReaderStep, ReaderOpen, ReaderReadInfo, ReaderIterInit,
                  ReaderRead, ReaderWait, ReaderClose, ReaderDelete, ReaderGetNew, ReaderFrame
    <3>2. QED BY <1>5, <3>1 DEF ChunkInv, SentIsOut, aVars
  <2>2. CASE MakeReader \/ rop = "init"
    BY <1>1, <1>5, <2>1, <2>2, ChunkReaderInit DEF ChunkInv
  <2>3. CASE ReaderStep /\ rop # "init"
    <3>1. rop # "idle" /\ rop \in ReaderCalls
      BY <2>3 DEF ReaderStep, ReaderOpen, ReaderReadInfo, ReaderIterInit, ReaderRead,
                  ReaderWait, ReaderClose, ReaderDelete, ReaderGetNew, TypeInv, TypeOK,
                  ReaderType
    <3>2. rop \in {"first", "loop"} /\ pc = "reading"
      BY <2>3, <3>1 DEF ReaderCalls, LoopInv, CallIsOfThread
    <3>3. QED BY <1>1, <1>5, <2>1, <2>3, <3>2, ChunkReaderStep DEF ChunkInv
  <2>4. QED BY <1>5, <2>2, <2>3
<1>6. CASE UNCHANGED bVars
  <2>1. UNCHANGED <<pc, chunk, sent, out, rst, rop, rres, rread, rname, data>>
    BY <1>6 DEF bVars, aVars, vars, rVars, ckptVars
  <2>2. QED
    BY <1>1, <2>1 DEF ChunkInv, AllGathered, ChunkIsRead, SentIsOut, Gathered, Returned
<1>7. QED
  BY <1>2, <1>3, <1>4, <1>5, <1>6 DEF BNext

LEMMA ChunkCorrect ==
    ASSUME ReadsAreSure PROVE BSpec => [](TypeInv /\ LoopInv /\ ChunkInv)
<1>1. BInit => ChunkInv
  BY DEF BInit, Init, ChunkInv, HandInv, ReadAreHeld, IteratorIsPast, NothingInHand,
         AllGathered, ChunkIsRead, SentIsOut, Returned
<1>2. TypeInv /\ LoopInv /\ ChunkInv /\ [BNext]_bVars => ChunkInv'
  BY ChunkStep
<1>3. QED
  BY <1>1, <1>2, AssemblerTypes, PTL DEF BSpec

\* A commit deletes exactly the records in the chunk, whatever else fails, for
\* chunks and stores of any size (DataAssembler::getChunk, transmitChunk).
THEOREM CommitDeletesChunk ==
    ASSUME ReadsAreSure PROVE BSpec => []ChunkIsWhatCommitDeletes
<1>1. TypeInv /\ LoopInv /\ ChunkInv => ChunkIsWhatCommitDeletes
  <2> SUFFICES ASSUME TypeInv, LoopInv, ChunkInv, pc \in {"send", "pushed"}
               PROVE  /\ Len(chunk) <= Len(rread)
                      /\ \A k \in 1 .. Len(chunk) : chunk[k] = data[rname][rread[k]]
    BY DEF ChunkIsWhatCommitDeletes
  <2>1. QED BY Lengths DEF ChunkInv, ChunkIsRead
<1>2. QED
  BY <1>1, ChunkCorrect, PTL

\* What was committed, and so deleted, a peer took, in the same order and without
\* a gap, around any crashes and restarts (BlockAssembler::transmitChunk).
THEOREM CommittedWereTaken == ASSUME ReadsAreSure PROVE BSpec => []CommittedWereSent
<1>1. TypeInv /\ LoopInv /\ ChunkInv => CommittedWereSent
  <2> SUFFICES ASSUME TypeInv, LoopInv, ChunkInv PROVE IsPrefix(out, sent)
    BY DEF CommittedWereSent
  <2>1. sent = out \o chunk \/ sent = out \o << >>
    BY OutType, ConcatEmptySeq DEF ChunkInv, SentIsOut
  <2>2. \A t \in Seq(Nat) : IsPrefix(out, out \o t)
    <3> SUFFICES ASSUME NEW t \in Seq(Nat) PROVE IsPrefix(out, out \o t)
      OBVIOUS
    <3>1. out \in Seq(Nat) /\ Len(out) <= Len(out \o t)
      BY OutType, ConcatProperties
    <3>2. \A k \in 1 .. Len(out) : out[k] = (out \o t)[k]
      BY <3>1, ConcatProperties
    <3>3. QED BY <3>1, <3>2, OutType DEF IsPrefix
  <2>3. chunk \in Seq(Nat)
    BY Lengths
  <2>4. << >> \in Seq(Nat)
    OBVIOUS
  <2>5. QED BY <2>1, <2>2, <2>3, <2>4
<1>2. QED
  BY <1>1, ChunkCorrect, PTL

=============================================================================
