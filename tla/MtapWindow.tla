----------------------------- MODULE MtapWindow -----------------------------
(***************************************************************************)
(* A data channel of the MTAP server of the Direct Data Transfer daemon    *)
(* (src/ddt_cnz/ddtadm_caa/src/mtap): a CP sends the records of a message  *)
(* file over several connections, a sliding window puts them in order and  *)
(* hands them to the writer of the store, and the CP may lose its          *)
(* connections, reconnect and synchronise.                                 *)
(*                                                                         *)
(* The reactor of the channel has one thread and holds the channel's mutex *)
(* while it handles a PDU: one PDU is one action.  A connection is FIFO,   *)
(* the connections are not ordered among themselves.                       *)
(***************************************************************************)
EXTENDS Integers, FiniteSets, SequencesExt

CONSTANTS
    Sessions,      \* descriptors of the connections (DEFAULT_NUM_OF_CONNECTIONS)
    Window,        \* DEFAULT_WIN_SIZE
    StoreRecords,  \* records in a message file and in a store (Parameter_NoOfRecords)
    NumberLimit,   \* record numbers are unsigned: 2^32 in the code
    \* the CP
    ClientWindow,  \* records it sends without an acknowledgement
    SyncUnacked,   \* records not acknowledged when it has to synchronise, at most
    \* bounds of the search
    MaxFiles,      \* message files
    MaxFaults,     \* failures of the store
    MaxLosses      \* connections lost

ASSUME WindowAssumption ==
    /\ Sessions # {} /\ IsFiniteSet(Sessions) /\ "none" \notin Sessions
    /\ Window \in Nat \ {0} /\ StoreRecords \in Nat \ {0}
    /\ ClientWindow \in Nat \ {0} /\ SyncUnacked \in Nat
    /\ NumberLimit \in Nat /\ NumberLimit > StoreRecords + Window
    /\ MaxFiles \in Nat /\ MaxFaults \in Nat /\ MaxLosses \in Nat

Indexes == 0 .. Window - 1
Files   == 1 .. MaxFiles
Numbers == 0 .. StoreRecords - 1
Records == [file : Files, rec : Numbers]
NoFd    == "none"
Empty   == [file |-> 0, rec |-> 0, fd |-> NoFd]
Slots   == [file : Files, rec : Numbers, fd : Sessions]
PDUs    == [type : {"put", "sync", "unlinkfile", "unlinkall"},
            file : Files, rec : Numbers]

VARIABLES
    \* the channel
    active,   \* m_activeSessions
    slot,     \* m_sortedPutRecords
    base,     \* m_baseOffsetRecNr
    \* the writer and the stores of the producer
    store,    \* number of the current store, m_messageIndex, is there an older
              \* store, and the records written, each with its place
    \* the CP and the connections
    chan,     \* PDUs under way on each connection
    up,       \* connections that the CP holds
    file,     \* the message file it sends
    sent,     \* number of records of it sent
    closing,  \* it has asked for the end of the file: it sends no more records
    asker,    \* connection on which it waits for an answer, or NoFd
    acked,    \* records acknowledged, those of earlier files included
    nfault, nloss

winVars == <<slot, base>>
cpVars  == <<file, sent, closing, asker>>
vars    == <<active, winVars, store, chan, up, cpVars, acked, nfault, nloss>>

NoSlots == [i \in Indexes |-> Empty]

Init ==
    /\ active = {} /\ slot = NoSlots /\ base = 0
    /\ store = [cur |-> 1, idx |-> 0, older |-> FALSE, written |-> {}]
    /\ chan = [s \in Sessions |-> << >>] /\ up = {}
    /\ file = 1 /\ sent = 0 /\ closing = FALSE /\ asker = NoFd /\ acked = {}
    /\ nfault = 0 /\ nloss = 0

Fail   == nfault < MaxFaults /\ nfault' = nfault + 1
NoFail == nfault' = nfault

-----------------------------------------------------------------------------
(* The writer, as the window uses it: a store takes StoreRecords records,  *)
(* and a write to a full one opens the next.  DdtStore has the details.    *)

\* The place of the k-th of the next records written.
PlaceOf(k) ==
    LET p == (IF store.idx < StoreRecords THEN store.idx ELSE StoreRecords) + k
    IN  [store |-> store.cur + p \div StoreRecords, idx |-> p % StoreRecords]

\* How many slots of a set come before one.
Before(is, i) == Cardinality({j \in is : j < i})

\* Writer::write of the records in a set of slots, one after the other.
RecordOf(x) == [file |-> x.file, rec |-> x.rec]
Written(sl, is) ==
    LET last == PlaceOf(Cardinality(is) - 1) IN
    IF is = {} THEN store
    ELSE [cur     |-> last.store,
          idx     |-> last.idx + 1,
          older   |-> store.older \/ last.store # store.cur,
          written |-> store.written \cup
              {[place |-> PlaceOf(Before(is, i)), record |-> RecordOf(sl[i])] : i \in is}]

\* A store closed before it is full (Writer::forceStoreChange), unless empty.
StoreKept(st) == st
StoreChanged(st) ==
    IF st.idx = 0 THEN st
    ELSE [st EXCEPT !.cur = @ + 1, !.idx = 0, !.older = TRUE]

\* The reader of the producer deletes the older stores.
ReaderDeletes ==
    /\ store.older /\ store' = [store EXCEPT !.older = FALSE]
    /\ UNCHANGED <<active, winVars, chan, up, cpVars, acked, nfault, nloss>>

-----------------------------------------------------------------------------
(* SlidingWindow.                                                          *)

\* store() writes from the front up to the first gap: how many records it can
\* have written when it stops, and is that at the gap?
Ready(sl) == {n \in 0 .. Window : \A i \in 0 .. n - 1 : sl[i] # Empty}
AtGap(sl, n) == n < Window => sl[n] = Empty

\* std::rotate by n, the first n slots being cleaned.
RotatedOnly(sl, n) == [i \in Indexes |-> sl[(i + n) % Window]]
Rotated(sl, n) == [i \in Indexes |-> IF i + n \in Indexes THEN sl[i + n] ELSE Empty]

\* clean(fd), and its counterpart in synchronize.
NotCleaned(fd)    == slot
CleanedOf(fd)     == [i \in Indexes |-> IF slot[i].fd = fd THEN Empty ELSE slot[i]]
CleanedExcept(fd) == [i \in Indexes |-> IF slot[i].fd = fd THEN slot[i] ELSE Empty]

\* An answer reaches the CP if it still holds the connection.
Acknowledge(xs) == acked' = acked \cup {RecordOf(x) : x \in {y \in xs : y.fd \in up}}

\* checkRange.
StoredOrNext(r)  == base >= r
AlreadyStored(r) == base > r
OutOfRange(r)    == base <= r /\ r - base >= Window

\* add() and store().  A write that fails is answered with an error: its slot
\* is cleaned and the base stays at its number.
Add(x) ==
    LET sl == [slot EXCEPT ![x.rec - base] = x] IN
    \E n \in Ready(sl) :
       /\ store' = Written(sl, 0 .. n - 1)
       /\ base' = base + n
       /\ Acknowledge({sl[i] : i \in 0 .. n - 1})
       /\ \/ AtGap(sl, n) /\ NoFail /\ slot' = Rotated(sl, n)
          \/ ~AtGap(sl, n) /\ Fail /\ slot' = Rotated([sl EXCEPT ![n] = Empty], n)

\* handleRequest of a PUT_RECORD.  A record below the base is answered as stored
\* (PutRecord::createResponse), one beyond the window with an error.
PutRecord(x) ==
    /\ \/ AlreadyStored(x.rec) /\ NoFail /\ Acknowledge({x}) /\ UNCHANGED <<winVars, store>>
       \/ OutOfRange(x.rec) /\ NoFail /\ UNCHANGED <<winVars, store, acked>>
       \/ ~AlreadyStored(x.rec) /\ ~OutOfRange(x.rec) /\ Add(x)
    /\ UNCHANGED <<active, up, cpVars>>

\* The CP goes on to its next file when the unlink succeeded.
Answered(fd, ok) ==
    /\ asker' = IF asker = fd THEN NoFd ELSE asker
    /\ IF ok /\ asker = fd THEN file' = file + 1 /\ sent' = 0 /\ closing' = FALSE
                           ELSE UNCHANGED <<file, sent, closing>>

\* unlink(): what waits behind a gap is written all the same, and the next
\* record is number 0 whatever failed; the answer has the result of the last
\* write.  UNLINK_ALL_FILES closes the store too.
Unlink(fd, all) ==
    \E lost \in SUBSET {i \in Indexes : slot[i] # Empty}, closed \in BOOLEAN, moved \in BOOLEAN :
      LET waiting == {i \in Indexes : slot[i] # Empty} \ lost
          after   == Written(slot, waiting)
          result  == \A j \in lost : \E i \in waiting : j < i
      IN  /\ closed \/ (all /\ after.idx # 0)   \* forceStoreChange may fail
          /\ closed => moved                   \* before or after its first step
          /\ IF lost = {} /\ closed THEN NoFail ELSE Fail
          /\ store' = IF all /\ moved THEN StoreChanged(after) ELSE after
          /\ slot' = NoSlots /\ base' = 0
          /\ Acknowledge({slot[i] : i \in waiting})
          /\ Answered(fd, result /\ closed)
          /\ UNCHANGED <<active, up>>

\* Unsigned arithmetic.
Same(n) == n
Dec(n) == (n + NumberLimit - 1) % NumberLimit
Inc(n) == (n + 1) % NumberLimit

\* Farther from the last record written than the window.
Beyond(r, last) == r > last /\ r - last + 1 > Window

\* synchronize(): the last record stored, as the CP is told, from the index of
\* the writer.  "older": are there other stores?
LastStored(index, older, r) ==
    IF index = 0 /\ ~older THEN r
    ELSE IF Beyond(r, Dec(index)) THEN r - Window + 1
    ELSE Dec(index)

\* Synchronize::createResponse: the records that the CP has to send again.
Missing(r, last) ==
    IF last < r THEN last .. (IF r - last + 1 > Window THEN last + Window - 1 ELSE r)
    ELSE {}

\* getNumberOfWrittenRecord() opens the next store when the current one is full.
\* The reader may delete the older stores before they are counted.
OpenStore ==
    IF store.idx < StoreRecords THEN {store}
    ELSE {[StoreChanged(store) EXCEPT !.older = o] : o \in BOOLEAN}

\* handleRequest of a SYNCHRONIZE: the other connections are closed.  The CP
\* takes the records that it need not send again for stored, unless it has given
\* them up with their file; after an error it reconnects.
Synchronize(fd, r) ==
    /\ \/ \E st \in OpenStore :
             LET last == LastStored(st.idx, st.older, r) IN
             /\ NoFail
             /\ base' = Inc(last)
             /\ store' = [st EXCEPT !.idx = Inc(last)]      \* setMessageIndex
             /\ acked' = IF asker = fd /\ ~closing
                         THEN acked \cup {[file |-> file, rec |-> n] :
                                              n \in (0 .. r) \ Missing(r, last)}
                         ELSE acked
             /\ up' = up \cap {fd}
       \/ Fail /\ up' = {} /\ UNCHANGED <<base, store, acked>>
    /\ slot' = CleanedExcept(fd)
    /\ active' = {fd}
    /\ asker' = NoFd /\ UNCHANGED <<file, sent, closing>>

-----------------------------------------------------------------------------
(* DataChannel.                                                            *)

\* handle_input: the next PDU of a connection.  SYNCHRONIZE drops what is under
\* way on the others.
HandleInput(fd) ==
    /\ fd \in active /\ chan[fd] # << >>
    /\ LET pdu  == Head(chan[fd])
           rest == [chan EXCEPT ![fd] = Tail(@)]
       IN  \/ /\ pdu.type = "put" /\ chan' = rest
              /\ PutRecord([file |-> pdu.file, rec |-> pdu.rec, fd |-> fd])
           \/ /\ pdu.type \in {"unlinkfile", "unlinkall"} /\ chan' = rest
              /\ Unlink(fd, pdu.type = "unlinkall")
           \/ /\ pdu.type = "sync"
              /\ chan' = [s \in Sessions |-> IF s = fd THEN rest[s] ELSE << >>]
              /\ Synchronize(fd, pdu.rec)
    /\ UNCHANGED nloss

\* handle_close, called when a connection that the CP lost reads as closed; what
\* was under way on it may have been read before or not.
HandleClose(fd) ==
    /\ fd \in active \ up
    /\ active' = active \ {fd} /\ chan' = [chan EXCEPT ![fd] = << >>]
    /\ slot' = CleanedOf(fd)
    /\ UNCHANGED <<base, store, up, cpVars, acked, nfault, nloss>>

-----------------------------------------------------------------------------
(* The CP (external).                                                      *)

Unacked == {r \in 0 .. sent - 1 : [file |-> file, rec |-> r] \notin acked}

Send(s, type, r) ==
    chan' = [chan EXCEPT ![s] = Append(@, [type |-> type, file |-> file, rec |-> r])]

UnderWay(type, r) ==
    \E s \in Sessions : \E k \in DOMAIN chan[s] : chan[s][k].type = type /\ chan[s][k].rec = r

\* Is there a record stored of the file that the CP sends?
FileKnown == \E w \in store.written : w.record = [file |-> file, rec |-> 0]

\* addSession.  After the loss of all its connections in the middle of a file
\* the CP synchronises on the first new one.
Connect(s) ==
    /\ s \notin up \cup active /\ asker = NoFd /\ file \in Files
    /\ active' = active \cup {s} /\ up' = up \cup {s}
    /\ IF up = {} /\ sent > 0
       THEN Send(s, "sync", sent - 1) /\ asker' = s
       ELSE UNCHANGED <<chan, asker>>
    /\ UNCHANGED <<winVars, store, file, sent, closing, acked, nfault, nloss>>

\* A connection breaks.  The CP gives up the others when it waits for an answer.
\* It loses the last one in the middle of a file only when a record of the file is
\* stored: the first SYNCHRONIZE of a producer takes everything for stored.
Lose(s) ==
    /\ s \in up /\ nloss < MaxLosses /\ nloss' = nloss + 1
    /\ up' = IF asker = NoFd THEN up \ {s} ELSE {}
    /\ up' = {} /\ sent > 0 => FileKnown /\ Cardinality(Unacked) <= SyncUnacked
    /\ asker' = NoFd
    /\ UNCHANGED <<active, winVars, store, chan, file, sent, closing, acked, nfault>>

SendRecord(s) ==
    /\ s \in up /\ asker = NoFd /\ ~closing /\ file \in Files
    /\ sent < StoreRecords /\ Cardinality(Unacked) < ClientWindow
    /\ Send(s, "put", sent) /\ sent' = sent + 1
    /\ UNCHANGED <<active, winVars, store, up, file, closing, asker, acked, nfault, nloss>>

\* One copy of a record is under way at a time (bound).
ResendRecord(s, r) ==
    /\ s \in up /\ asker = NoFd /\ ~closing /\ r \in Unacked /\ ~UnderWay("put", r)
    /\ Send(s, "put", r)
    /\ UNCHANGED <<active, winVars, store, up, cpVars, acked, nfault, nloss>>

\* The end of a file: all its records are stored, or the CP closes it early and
\* may have given up some.  No record is under way any more.
SendUnlink(s) ==
    /\ s \in up /\ asker = NoFd /\ file \in Files /\ sent > 0
    /\ \A q \in Sessions : chan[q] = << >>
    /\ \/ sent = StoreRecords /\ Unacked = {} /\ Send(s, "unlinkfile", 0)
       \/ sent < StoreRecords /\ Send(s, "unlinkall", 0)
    /\ asker' = s /\ closing' = TRUE
    /\ UNCHANGED <<active, winVars, store, up, file, sent, acked, nfault, nloss>>

-----------------------------------------------------------------------------
Next ==
    \/ ReaderDeletes
    \/ \E s \in Sessions :
          \/ HandleInput(s) \/ HandleClose(s)
          \/ Connect(s) \/ Lose(s) \/ SendRecord(s) \/ SendUnlink(s)
          \/ \E r \in Numbers : ResendRecord(s, r)

Spec == Init /\ [][Next]_vars

\* The reactor serves every connection; the CP reconnects, and repeats a record
\* until it is acknowledged (DEFAULT_NUM_OF_RESENDS, DEFAULT_RECONN_TIME).
Fairness ==
    /\ \A s \in Sessions : WF_vars(HandleInput(s)) /\ WF_vars(HandleClose(s))
    /\ WF_vars(\E s \in Sessions : Connect(s))
    /\ \A r \in Numbers : WF_vars(\E s \in Sessions : ResendRecord(s, r))

FairSpec == Spec /\ Fairness

-----------------------------------------------------------------------------
(* Properties.                                                             *)

\* The type of every variable.
TypeOK ==
    /\ active \subseteq Sessions /\ up \subseteq Sessions
    /\ slot \in [Indexes -> Slots \cup {Empty}] /\ base \in 0 .. NumberLimit - 1
    /\ store.cur \in Nat /\ store.idx \in Nat /\ store.older \in BOOLEAN
    /\ chan \in [Sessions -> Seq(PDUs)]
    /\ file \in 1 .. MaxFiles + 1 /\ sent \in 0 .. StoreRecords /\ closing \in BOOLEAN
    /\ asker \in Sessions \cup {NoFd} /\ acked \subseteq Records

\* A record that the CP may forget, because it was acknowledged or because a
\* synchronisation told the CP that it is not missing, is in a store.
AckedWereWritten ==
    \A r \in acked : \E w \in store.written : w.record = r

\* No record is stored twice, by a resend, by a synchronisation or by both.
WrittenOnce ==
    \A v, w \in store.written : v.record = w.record => v = w

\* A store holds records of one message file, in the order of their numbers.
StoreHoldsFile ==
    \A v, w \in store.written : v.place.store = w.place.store =>
        /\ v.record.file = w.record.file
        /\ v.place.idx < w.place.idx <=> v.record.rec < w.record.rec

\* A record waits in the slot of its number, also after a synchronisation moved
\* the base, and its connection is one that can be answered: send_data looks
\* the session up without a check.
SlotsAreCurrent ==
    \A i \in Indexes : slot[i] # Empty =>
        slot[i].rec = base + i /\ slot[i].file = file /\ slot[i].fd \in active

\* A record sent is acknowledged in the end, unless the CP ends its file: no gap,
\* failed write, lost connection or synchronisation blocks the window for good.
EventuallyAcked ==
    \A r \in Numbers :
        sent > r ~> (sent <= r \/ [file |-> file, rec |-> r] \in acked \/ closing)

=============================================================================
