------------------------- MODULE DdtBlockAssembler -------------------------
(***************************************************************************)
(* The thread that empties a store towards a data sink in blocks:          *)
(* BlockAssembler::svc with DataAssembler::getChunk                        *)
(* (src/ddt_cnz/ddtadm_caa/src/engine), composed with the store.  It reads *)
(* records into a chunk, pushes the chunk to a peer and commits to the     *)
(* store as many records as the chunk holds.                               *)
(***************************************************************************)
EXTENDS DdtStore

CONSTANT ChunkRecords  \* records that fit in a chunk

ASSUME ChunkAssumption == ChunkRecords \in Nat \ {0} /\ ~FileUser

VARIABLES
    pc,     \* where svc() is: "start", "get", "reading", "send",
            \* "pushed"
    chunk,  \* the records in the chunk; recordCounter is its length
    sent    \* records pushed to a peer that took them, in order; those that a
            \* crash left in the store are to be sent again, and taken out

aVars == <<pc, chunk, sent>>
bVars == <<vars, aVars>>

BInit == Init /\ pc = "start" /\ chunk = << >> /\ sent = << >>

\* The loop starts over: a new chunk, nothing told to the store.
StartChunk ==
    /\ pc = "start" /\ rst # "NONE" /\ rop = "idle"
    /\ pc' = "get" /\ chunk' = << >>
    /\ UNCHANGED <<vars, sent>>

\* getChunk: the next read while the chunk has room.
GetRecord ==
    /\ pc = "get" /\ ReadCall
    /\ pc' = "reading" /\ UNCHANGED <<chunk, sent>>

\* The hold timer elapsed while the thread waited for data: with records in the
\* chunk, it is sent as it is.
TimerElapsed    == rres = "again"
HoldTimeElapsed == rres = "again" /\ chunk # << >>

\* read() returned.  A record goes into the chunk; with a record short of a
\* full chunk the assembler waits for new data or for its timer, and on new data
\* it starts over; any other error starts it over.
ReadReturned ==
    /\ pc = "reading" /\ rop = "idle"
    /\ \/ /\ rres = "ok"
          /\ chunk' = Append(chunk, data[rname][rread[Len(rread)]])
          /\ pc' = IF Len(chunk) + 1 < ChunkRecords THEN "get" ELSE "send"
       \/ /\ rres = "waitcommit" /\ pc' = "send" /\ UNCHANGED chunk
       \/ /\ rres \in {"again", "err", "iterr"} /\ pc' = "start" /\ UNCHANGED chunk
       \/ HoldTimeElapsed /\ pc' = "send" /\ UNCHANGED chunk
    /\ UNCHANGED <<vars, sent>>

\* Records committed after a push that failed: none, and not the whole chunk.
CommitChunk == Len(chunk)
CommitNone  == 0

\* transmitChunk: push the chunk, then commit what was pushed, or nothing.
PushChunk ==
    /\ pc = "send"
    /\ sent' = sent \o chunk /\ pc' = "pushed"
    /\ UNCHANGED <<vars, chunk>>
CommitPushed ==
    /\ pc = "pushed" /\ Commit(Len(chunk))
    /\ pc' = "start" /\ UNCHANGED <<chunk, sent>>
PushFails ==
    /\ pc = "send" /\ Commit(CommitNone)
    /\ pc' = "start" /\ UNCHANGED <<chunk, sent>>

\* DataAssembler::stop joins the thread, which looks for the stop event where
\* its loop starts over; a crash loses the chunk at any point.
BShutdown == pc = "start" /\ Shutdown /\ UNCHANGED aVars
BCrash ==
    /\ Crash /\ pc' = "start" /\ chunk' = << >>
    /\ sent' = SubSeq(sent, 1, Len(out))

BNext ==
    \/ StartChunk \/ GetRecord \/ ReadReturned \/ PushChunk \/ CommitPushed
    \/ PushFails \/ BShutdown \/ BCrash
    \/ (WriterActions \/ MakeReader \/ ReaderStep) /\ UNCHANGED aVars

BSpec == BInit /\ [][BNext]_bVars

-----------------------------------------------------------------------------
(* Properties.                                                             *)

\* What was committed, and so deleted from the store, is what the peers took, in
\* the order in which they took it; a crash only lets records be sent again.
CommittedWereSent == IsPrefix(out, sent)

\* A chunk holds the records that the commit of its length will delete.
ChunkIsWhatCommitDeletes ==
    pc \in {"send", "pushed"} =>
        /\ Len(chunk) <= Len(rread)
        /\ \A k \in 1 .. Len(chunk) : chunk[k] = data[rname][rread[k]]

\* To the store, the assembler is the user its specification assumes.
UsesStoreAsSpecified == Spec

=============================================================================
