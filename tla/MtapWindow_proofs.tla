------------------------- MODULE MtapWindow_proofs -------------------------
(***************************************************************************)
(* Theorems about the sliding window of MTAP, for any number of            *)
(* connections, slots, records, files, failures and losses: what the CP    *)
(* may forget was written, once, in order, into the store of its file.     *)
(***************************************************************************)
EXTENDS MtapWindow, FiniteSetTheorems, SequenceTheorems, TLAPS

\* The one assumption about the CP: a synchronisation is about fewer records
\* than the window has slots.  With more, the base moves past records that are
\* in no store (slidingwindow.cpp:221).
SyncsWithinWindow == SyncUnacked < Window

-----------------------------------------------------------------------------
(* The types.                                                              *)

StoreType == [cur : Nat, idx : 0 .. StoreRecords, older : BOOLEAN,
              written : SUBSET [place : [store : Nat, idx : Numbers], record : Records]]

TypeInv ==
    /\ active \subseteq Sessions /\ up \subseteq Sessions
    /\ slot \in [Indexes -> Slots \cup {Empty}] /\ base \in Nat
    /\ store \in StoreType
    /\ chan \in [Sessions -> Seq(PDUs)]
    /\ file \in 1 .. MaxFiles + 1 /\ sent \in 0 .. StoreRecords /\ closing \in BOOLEAN
    /\ asker \in Sessions \cup {NoFd} /\ acked \subseteq Records
    /\ nfault \in Nat /\ nloss \in Nat
    /\ sent > 0 \/ asker # NoFd => file \in Files

-----------------------------------------------------------------------------
(* The connections and what is under way on them.                          *)

\* The CP holds connections that the server has, and waits on one of them.
ConnectionsKnown ==
    /\ up \subseteq active
    /\ asker # NoFd => asker \in up
    /\ \A s \in Sessions \ active : chan[s] = << >>

\* Every PDU is about the file that the CP sends, at the point where it is.
PduIsAt(pdu, f, n, ended) ==
    /\ pdu.file = f
    /\ pdu.type = "put" => ~ended /\ pdu.rec < n
    /\ pdu.type = "unlinkfile" => ended /\ n = StoreRecords
    /\ pdu.type = "unlinkall"  => ended /\ n < StoreRecords

PdusAreCurrent ==
    \A s \in Sessions : \A k \in 1 .. Len(chan[s]) : PduIsAt(chan[s][k], file, sent, closing)

\* A SYNCHRONIZE is alone on its connection, on which no record has come yet.
\* The CP sends nothing else before it is answered.
SyncUnderWay(s) == \E k \in 1 .. Len(chan[s]) : chan[s][k].type = "sync"

SyncIsAlone ==
    \A s \in Sessions : SyncUnderWay(s) =>
        /\ Len(chan[s]) = 1 /\ sent > 0 /\ chan[s][1].rec = sent - 1
        /\ up = {} \/ asker # NoFd
        /\ \A i \in Indexes : slot[i].fd # s

\* The CP waits for the answer to one request; an unlink is the only PDU.
AskerWaits ==
    asker # NoFd =>
        /\ Len(chan[asker]) = 1 /\ chan[asker][1].type # "put"
        /\ IF chan[asker][1].type = "sync" THEN up = {asker}
           ELSE \A s \in Sessions \ {asker} : chan[s] = << >>

ChanInv == ConnectionsKnown /\ PdusAreCurrent /\ SyncIsAlone /\ AskerWaits

-----------------------------------------------------------------------------
(* The stores, and the window on the file that the CP sends.               *)

Known(r) == \E w \in store.written : w.record = [file |-> file, rec |-> r]

\* What is written is below the writer's index, and of this file or of earlier ones.
WrittenIsBelow ==
    \A w \in store.written :
        /\ w.record.file <= file /\ w.place.store <= store.cur
        /\ w.place.store = store.cur => w.place.idx < store.idx

StoreInv == WrittenIsBelow /\ WrittenOnce /\ StoreHoldsFile /\ AckedWereWritten

SlotsAreSent == \A i \in Indexes : slot[i] # Empty => slot[i].rec < sent

\* The records of the file below the base, and no others, are written, each at the
\* place of its number; the writer's index is the base.  It has yet to begin the
\* store of a file of which nothing is written, or the store is empty.
FileIsWritten ==
    /\ base <= sent
    /\ store.idx = base \/ (base = 0 /\ store.idx = StoreRecords)
    /\ \A r \in 0 .. base - 1 : Known(r)
    /\ \A w \in store.written : w.record.file = file =>
           w.record.rec < base
           /\ w.place = [store |-> store.cur, idx |-> w.record.rec]
    /\ base > 0 => \A w \in store.written : w.place.store = store.cur => w.record.file = file

\* All records are written, and a synchronisation has moved base and index to
\* the next store.  No record can come any more.
FileIsComplete ==
    /\ sent = StoreRecords /\ base <= StoreRecords /\ store.idx \in {0, StoreRecords}
    /\ \A r \in Numbers : Known(r)
    /\ slot = NoSlots
    /\ \A s \in Sessions : \A k \in 1 .. Len(chan[s]) : chan[s][k].type # "put"
    /\ Unacked = {} \/ up = {} \/ asker # NoFd

\* The CP has asked for the end, and nothing waits to be written.
FileIsClosed == closing /\ slot = NoSlots

FullIsClosed == closing /\ sent = StoreRecords => slot = NoSlots /\ store.idx \in {0, StoreRecords}

\* Before a synchronisation only a few of the records are not acknowledged, and the
\* first one is written.
SyncIsDue ==
    ~closing /\ sent > 0 /\ (up = {} \/ asker # NoFd) =>
        FileKnown /\ Cardinality(Unacked) <= SyncUnacked

FileInv ==
    /\ FileIsWritten \/ FileIsComplete \/ FileIsClosed
    /\ SlotsAreCurrent /\ SlotsAreSent /\ FullIsClosed /\ SyncIsDue

BaseInv == base <= StoreRecords

WindowInv == TypeInv /\ ChanInv /\ StoreInv /\ FileInv /\ BaseInv
-----------------------------------------------------------------------------
(* How many slots come before one, and the places of what is written.      *)

LEMMA QuotientsBelow ==
    ASSUME NEW n \in Nat \ {0}, NEW a \in 0 .. n - 1
    PROVE  a \div n = 0 /\ a % n = a
OBVIOUS

LEMMA QuotientsAbove ==
    ASSUME NEW n \in Nat \ {0}, NEW a \in 0 .. n - 1
    PROVE  (n + a) \div n = 1 /\ (n + a) % n = a
OBVIOUS

LEMMA PlaceType ==
    ASSUME TypeInv, NEW k \in Nat
    PROVE  PlaceOf(k) \in [store : Nat, idx : Numbers]
<1> DEFINE p == (IF store.idx < StoreRecords THEN store.idx ELSE StoreRecords) + k
<1>1. p \in Nat
  BY WindowAssumption DEF TypeInv, StoreType
<1>2. p \div StoreRecords \in Nat /\ p % StoreRecords \in 0 .. StoreRecords - 1
  BY <1>1, WindowAssumption
<1>3. store.cur \in Nat
  BY DEF TypeInv, StoreType
<1> HIDE DEF p
<1> QED BY <1>2, <1>3 DEF PlaceOf, Numbers, p

\* The next records take the rest of the store, and a full store is changed.
LEMMA PlaceInStore ==
    ASSUME TypeInv, NEW k \in Nat, store.idx + k < StoreRecords
    PROVE  PlaceOf(k) = [store |-> store.cur, idx |-> store.idx + k]
<1>1. store.idx \in Nat /\ store.cur \in Nat
  BY DEF TypeInv, StoreType
<1>2. store.idx + k \in 0 .. StoreRecords - 1 /\ store.idx < StoreRecords
  BY <1>1, WindowAssumption
<1>3. (store.idx + k) \div StoreRecords = 0 /\ (store.idx + k) % StoreRecords = store.idx + k
  BY <1>2, WindowAssumption, QuotientsBelow
<1> QED BY <1>1, <1>2, <1>3 DEF PlaceOf

LEMMA PlaceInNextStore ==
    ASSUME TypeInv, NEW k \in Nat, store.idx = StoreRecords, k < StoreRecords
    PROVE  PlaceOf(k) = [store |-> store.cur + 1, idx |-> k]
<1>1. k \in 0 .. StoreRecords - 1
  BY WindowAssumption
<1>2. (StoreRecords + k) \div StoreRecords = 1 /\ (StoreRecords + k) % StoreRecords = k
  BY <1>1, WindowAssumption, QuotientsAbove
<1>3. ~ (store.idx < StoreRecords)
  BY WindowAssumption
<1> QED BY <1>2, <1>3 DEF PlaceOf

LEMMA FiniteSlots ==
    ASSUME NEW is \in SUBSET Indexes
    PROVE  IsFiniteSet(is) /\ Cardinality(is) \in Nat
<1>1. IsFiniteSet(Indexes)
  BY WindowAssumption, FS_Interval DEF Indexes
<1> QED BY <1>1, FS_Subset, FS_CardinalityType

LEMMA BeforeType ==
    ASSUME NEW is \in SUBSET Indexes, NEW i \in Indexes
    PROVE  Before(is, i) \in 0 .. i
<1>1. i \in Nat /\ IsFiniteSet(0 .. i - 1) /\ Cardinality(0 .. i - 1) = i
  BY WindowAssumption, FS_Interval DEF Indexes
<1>2. \A j \in is : j \in Nat
  BY WindowAssumption DEF Indexes
<1>3. {j \in is : j < i} \subseteq 0 .. i - 1
  <2> SUFFICES ASSUME NEW j \in is, j < i PROVE j \in 0 .. i - 1
    OBVIOUS
  <2> QED BY <1>1, <1>2
<1> QED BY <1>1, <1>3, FS_Subset, FS_CardinalityType DEF Before

LEMMA BeforeGrows ==
    ASSUME NEW is \in SUBSET Indexes, NEW i \in is, NEW j \in is, i < j
    PROVE  Before(is, i) < Before(is, j)
<1> DEFINE A == {k \in is : k < i}
           B == {k \in is : k < j}
<1>1. \A k \in is : k \in Int
  BY WindowAssumption DEF Indexes
<1>2. A \subseteq B /\ i \in B /\ i \notin A
  BY <1>1
<1>3. IsFiniteSet(B) /\ A # B
  BY <1>2, FiniteSlots
<1> HIDE DEF A, B
<1>4. Cardinality(A) \in Nat /\ Cardinality(B) \in Nat /\ Cardinality(A) < Cardinality(B)
  BY <1>2, <1>3, FS_Subset, FS_CardinalityType
<1> QED BY <1>4 DEF Before, A, B

LEMMA BeforeAll ==
    ASSUME NEW is \in SUBSET Indexes, NEW i \in is
    PROVE  Before(is, i) < Cardinality(is)
<1> DEFINE A == {k \in is : k < i}
<1>1. \A k \in is : k \in Int
  BY WindowAssumption DEF Indexes
<1>2. A \subseteq is /\ i \notin A
  BY <1>1
<1>3. IsFiniteSet(is)
  BY FiniteSlots
<1> HIDE DEF A
<1>4. Cardinality(A) \in Nat /\ Cardinality(is) \in Nat /\ Cardinality(A) < Cardinality(is)
  BY <1>2, <1>3, FS_Subset, FS_CardinalityType
<1> QED BY <1>4 DEF Before, A

\* The number of slots written is less than the window from the last one on.
LEMMA CountBelow ==
    ASSUME NEW is \in SUBSET Indexes, NEW m \in Nat, \A i \in is : i < m
    PROVE  Cardinality(is) <= m
<1>1. is \subseteq 0 .. m - 1
  BY WindowAssumption DEF Indexes
<1>2. IsFiniteSet(0 .. m - 1) /\ Cardinality(0 .. m - 1) = m
  BY FS_Interval
<1> QED BY <1>1, <1>2, FS_Subset, FS_CardinalityType

LEMMA FrontSlots ==
    ASSUME NEW n \in 0 .. Window
    PROVE  /\ 0 .. n - 1 \subseteq Indexes /\ Cardinality(0 .. n - 1) = n
           /\ \A i \in 0 .. n - 1 : Before(0 .. n - 1, i) = i
<1>1. 0 .. n - 1 \subseteq Indexes /\ Cardinality(0 .. n - 1) = n
  BY WindowAssumption, FS_Interval DEF Indexes
<1>2. ASSUME NEW i \in 0 .. n - 1 PROVE Before(0 .. n - 1, i) = i
  <2>1. {j \in 0 .. n - 1 : j < i} = 0 .. i - 1
    BY WindowAssumption
  <2>2. Cardinality(0 .. i - 1) = i
    BY FS_Interval, WindowAssumption
  <2> QED BY <2>1, <2>2 DEF Before
<1> QED BY <1>1, <1>2

-----------------------------------------------------------------------------
(* What a sequence of writes does to the store.                            *)

LEMMA FileStore ==
    ASSUME TypeInv
    PROVE  /\ file \in Nat /\ sent \in Nat /\ sent <= StoreRecords /\ base \in Nat
           /\ store.cur \in Nat /\ store.idx \in Nat /\ store.idx <= StoreRecords
           /\ \A w \in store.written :
                 /\ w.place.store \in Nat /\ w.place.idx \in Nat
                 /\ w.record.file \in Nat /\ w.record.rec \in Nat
           /\ StoreRecords \in Nat /\ StoreRecords > 0
BY WindowAssumption DEF TypeInv, StoreType, Numbers, Records, Files

\* The slots that are written hold records of the file, at their numbers.
Writable(sl, is) ==
    \A i \in is : sl[i].file = file /\ sl[i].rec = base + i /\ base + i < StoreRecords

\* Are the records of the file in the current store, or yet to go to the next?
Target == IF store.idx = base THEN store.cur ELSE store.cur + 1

LEMMA PlaceIsTarget ==
    ASSUME TypeInv, FileIsWritten, NEW k \in Nat, base + k < StoreRecords
    PROVE  PlaceOf(k) = [store |-> Target, idx |-> base + k]
<1>1. CASE store.idx = base
  BY <1>1, PlaceInStore DEF Target
<1>2. CASE store.idx # base
  <2>1. base = 0 /\ store.idx = StoreRecords
    BY <1>2 DEF FileIsWritten
  <2> QED BY <1>2, <2>1, PlaceInNextStore DEF Target
<1> QED BY <1>1, <1>2

LEMMA WrittenSlots ==
    ASSUME TypeInv, FileIsWritten, NEW sl, NEW is \in SUBSET Indexes, Writable(sl, is), is # {}
    PROVE  /\ Written(sl, is).cur = Target
           /\ Written(sl, is).idx = base + Cardinality(is)
           /\ Written(sl, is).older \in BOOLEAN
           /\ Written(sl, is) \in [cur : Nat, idx : Nat, older : BOOLEAN,
                                   written : {Written(sl, is).written}]
           /\ Written(sl, is).written = store.written \cup
                 {[place  |-> [store |-> Target, idx |-> base + Before(is, i)],
                   record |-> [file |-> file, rec |-> base + i]] : i \in is}
           /\ base + Cardinality(is) <= StoreRecords /\ Cardinality(is) > 0
<1>1. Cardinality(is) \in Nat /\ base \in Nat /\ store.cur \in Nat /\ Target \in Nat
      /\ StoreRecords \in Nat /\ base <= StoreRecords /\ store.older \in BOOLEAN
  BY FiniteSlots, FileStore DEF Target, FileIsWritten, TypeInv, StoreType
<1>2. Cardinality(is) > 0
  BY <1>1, FiniteSlots, FS_EmptySet
<1>3. base + Cardinality(is) <= StoreRecords
  <2>1. \A i \in is : i < StoreRecords - base
    BY <1>1, WindowAssumption DEF Writable, Indexes
  <2> QED BY <1>1, <2>1, CountBelow
<1>4. PlaceOf(Cardinality(is) - 1) = [store |-> Target, idx |-> base + (Cardinality(is) - 1)]
  BY <1>1, <1>2, <1>3, PlaceIsTarget
<1>5. \A i \in is : /\ PlaceOf(Before(is, i)) = [store |-> Target, idx |-> base + Before(is, i)]
                    /\ RecordOf(sl[i]) = [file |-> file, rec |-> base + i]
  <2> TAKE i \in is
  <2>1. Before(is, i) \in Nat /\ Before(is, i) < Cardinality(is)
    BY BeforeType, BeforeAll, WindowAssumption DEF Indexes
  <2>2. base + Before(is, i) < StoreRecords
    BY <1>1, <1>3, <2>1
  <2> QED BY <2>1, <2>2, PlaceIsTarget DEF Writable, RecordOf
<1>6. Written(sl, is) =
        [cur |-> Target, idx |-> base + (Cardinality(is) - 1) + 1,
         older |-> store.older \/ Target # store.cur,
         written |-> store.written \cup
            {[place  |-> PlaceOf(Before(is, i)), record |-> RecordOf(sl[i])] : i \in is}]
  BY <1>4 DEF Written
<1>7. {[place  |-> PlaceOf(Before(is, i)), record |-> RecordOf(sl[i])] : i \in is}
      = {[place  |-> [store |-> Target, idx |-> base + Before(is, i)],
          record |-> [file |-> file, rec |-> base + i]] : i \in is}
  BY <1>5
<1>8. base + (Cardinality(is) - 1) + 1 = base + Cardinality(is)
  BY <1>1
<1> QED BY <1>1, <1>2, <1>3, <1>6, <1>7, <1>8

\* What the store of the file holds, before the writes.
LEMMA TargetHoldsFile ==
    ASSUME TypeInv, WrittenIsBelow, FileIsWritten, NEW w \in store.written,
           w.place.store = Target
    PROVE  w.record.file = file /\ w.record.rec < base
           /\ w.place = [store |-> Target, idx |-> w.record.rec]
<1>1. store.cur \in Nat /\ w.place.store \in Nat /\ w.place.store <= store.cur /\ base \in Nat
      /\ w.place.idx \in Nat
  BY FileStore DEF WrittenIsBelow
<1>2. Target = store.cur /\ store.idx = base
  BY <1>1 DEF Target
<1>3. w.place.idx < base
  BY <1>2 DEF WrittenIsBelow
<1>4. base > 0
  BY <1>1, <1>3
<1>5. w.record.file = file
  BY <1>2, <1>4 DEF FileIsWritten
<1> QED BY <1>2, <1>5 DEF FileIsWritten

\* The invariants of the store, of a store st and the file f.
IsBelow(st, f) ==
    \A w \in st.written :
        /\ w.record.file <= f /\ w.place.store <= st.cur
        /\ w.place.store = st.cur => w.place.idx < st.idx
IsOnce(st) == \A v, w \in st.written : v.record = w.record => v = w
HoldsFile(st) ==
    \A v, w \in st.written : v.place.store = w.place.store =>
        /\ v.record.file = w.record.file
        /\ v.place.idx < w.place.idx <=> v.record.rec < w.record.rec
IsSound(st, f) == IsBelow(st, f) /\ IsOnce(st) /\ HoldsFile(st)

LEMMA SoundStore ==
    /\ WrittenIsBelow /\ WrittenOnce /\ StoreHoldsFile <=> IsSound(store, file)
    /\ (WrittenIsBelow /\ WrittenOnce /\ StoreHoldsFile)' <=> IsSound(store', file')
<1>1. WrittenIsBelow /\ WrittenOnce /\ StoreHoldsFile <=> IsSound(store, file)
  BY DEF WrittenIsBelow, WrittenOnce, StoreHoldsFile, IsSound, IsBelow, IsOnce, HoldsFile
<1>2. (WrittenIsBelow /\ WrittenOnce /\ StoreHoldsFile)' <=> IsSound(store', file')
  BY DEF WrittenIsBelow, WrittenOnce, StoreHoldsFile, IsSound, IsBelow, IsOnce, HoldsFile
<1> QED BY <1>1, <1>2

LEMMA StoreGrows ==
    ASSUME TypeInv, WrittenIsBelow, WrittenOnce, StoreHoldsFile, FileIsWritten, file \in Files,
           NEW sl, NEW is \in SUBSET Indexes, Writable(sl, is),
           NEW st, st = Written(sl, is)
    PROVE  /\ st \in StoreType
           /\ IsSound(st, file)
           /\ store.written \subseteq st.written
           /\ \A i \in is : \E w \in st.written : w.record = [file |-> file, rec |-> base + i]
<1> DEFINE New(i) == [place  |-> [store |-> Target, idx |-> base + Before(is, i)],
                      record |-> [file |-> file, rec |-> base + i]]
<1>1. CASE is = {}
  <2>1. st = store
    BY <1>1 DEF Written
  <2> QED BY <1>1, <2>1, SoundStore DEF TypeInv
<1>2. CASE is # {}
  <2>1. /\ st.cur = Target /\ st.idx = base + Cardinality(is)
        /\ st.idx <= StoreRecords /\ Cardinality(is) > 0
        /\ st \in [cur : Nat, idx : Nat, older : BOOLEAN, written : {st.written}]
        /\ st.written = store.written \cup {New(i) : i \in is}
    BY <1>2, WrittenSlots
  <2>2. /\ base \in Nat /\ StoreRecords \in Nat /\ Target \in Nat /\ store.cur \in Nat
        /\ store.cur <= Target /\ Cardinality(is) \in Nat /\ store.idx \in Nat
        /\ store.idx = base \/ (base = 0 /\ store.idx = StoreRecords)
    BY FileStore, FiniteSlots DEF Target, FileIsWritten
  <2>3. \A i \in is : /\ i \in Nat /\ Before(is, i) \in Nat /\ Before(is, i) <= i
                      /\ Before(is, i) < Cardinality(is) /\ base + i < StoreRecords
    <3> TAKE i \in is
    <3>1. i \in Indexes /\ i \in Nat
      BY WindowAssumption DEF Indexes
    <3>2. Before(is, i) \in 0 .. i /\ Before(is, i) < Cardinality(is)
      BY <3>1, BeforeType, BeforeAll
    <3> QED BY <3>1, <3>2 DEF Writable
  <2>4. \A i \in is : New(i) \in [place : [store : Nat, idx : Numbers], record : Records]
    <3> TAKE i \in is
    <3>1. base + i \in Numbers /\ base + Before(is, i) \in Numbers
      BY <2>2, <2>3 DEF Numbers
    <3> QED BY <2>2, <3>1 DEF Records
  <2>5. \A w \in st.written : w \in store.written \/ \E i \in is : w = New(i)
    BY <2>1
  <2>6. st \in StoreType
    <3>1. st.idx \in 0 .. StoreRecords
      BY <2>1, <2>2
    <3>2. store.written \in SUBSET [place : [store : Nat, idx : Numbers], record : Records]
      BY DEF TypeInv, StoreType
    <3>3. st.written \in SUBSET [place : [store : Nat, idx : Numbers], record : Records]
      BY <2>4, <2>5, <3>2
    <3> QED BY <2>1, <3>1, <3>3 DEF StoreType
  <2>7. ASSUME NEW w \in st.written
        PROVE  w.record.file <= file /\ w.place.store <= st.cur
               /\ (w.place.store = st.cur => w.place.idx < st.idx)
    <3>1. CASE w \in store.written
      <4>1. w.record.file <= file /\ w.place.store <= store.cur /\ w.place.store \in Nat
        BY <3>1, FileStore DEF WrittenIsBelow
      <4>2. w.place.store <= Target
        BY <2>2, <4>1
      <4>3. ASSUME w.place.store = Target PROVE w.place.idx < base + Cardinality(is)
        <5>1. w.record.rec < base /\ w.place.idx = w.record.rec /\ w.record.rec \in Nat
          <6>1. w.record.rec < base /\ w.place = [store |-> Target, idx |-> w.record.rec]
            BY <3>1, <4>3, TargetHoldsFile
          <6> QED BY <3>1, <6>1, FileStore
        <5> QED BY <2>1, <2>2, <5>1
      <4> QED BY <2>1, <4>1, <4>2, <4>3
    <3>2. ASSUME NEW i \in is, w = New(i)
          PROVE  w.record.file <= file /\ w.place.store <= st.cur
                 /\ (w.place.store = st.cur => w.place.idx < st.idx)
      <4>1. w.record.file = file /\ w.place.store = Target /\ w.place.idx = base + Before(is, i)
        BY <3>2
      <4>2. base + Before(is, i) < base + Cardinality(is)
        BY <2>2, <2>3
      <4>3. file \in Nat
        BY FileStore
      <4> QED BY <2>1, <2>2, <4>1, <4>2, <4>3
    <3> QED BY <2>5, <3>1, <3>2
  <2>8. \A w \in store.written, i \in is : w.record # New(i).record
    <3> SUFFICES ASSUME NEW w \in store.written, NEW i \in is, w.record = New(i).record
                 PROVE  FALSE
      OBVIOUS
    <3>1. w.record.file = file /\ w.record.rec = base + i
      BY DEF New
    <3>2. w.record.rec < base
      BY <3>1 DEF FileIsWritten
    <3> QED BY <2>2, <2>3, <3>1, <3>2
  <2>9. \A i, j \in is : New(i).record = New(j).record => i = j
    <3> SUFFICES ASSUME NEW i \in is, NEW j \in is, New(i).record = New(j).record
                 PROVE  i = j
      OBVIOUS
    <3>1. base + i = base + j
      OBVIOUS
    <3> QED BY <2>2, <2>3, <3>1
  <2>10. IsOnce(st)
    <3> SUFFICES ASSUME NEW v \in st.written, NEW w \in st.written, v.record = w.record
                 PROVE  v = w
      BY DEF IsOnce
    <3>1. CASE v \in store.written /\ w \in store.written
      BY <3>1 DEF WrittenOnce
    <3> QED BY <2>5, <2>8, <2>9, <3>1
  <2>11. ASSUME NEW w \in store.written, w.place.store = Target
         PROVE  w.record.file = file /\ w.record.rec < base /\ w.place.idx = w.record.rec
                /\ w.record.rec \in Nat
    <3>1. w.record.file = file /\ w.record.rec < base
          /\ w.place = [store |-> Target, idx |-> w.record.rec]
      BY <2>11, TargetHoldsFile
    <3> QED BY <3>1, FileStore
  <2>12. ASSUME NEW i \in is, NEW j \in is
         PROVE  Before(is, i) < Before(is, j) <=> i < j
    <3>1. i \in Nat /\ j \in Nat /\ Before(is, i) \in Nat /\ Before(is, j) \in Nat
      BY <2>3
    <3>2. i < j => Before(is, i) < Before(is, j)
      BY BeforeGrows
    <3>3. j < i => Before(is, j) < Before(is, i)
      BY BeforeGrows
    <3> QED BY <3>1, <3>2, <3>3
  <2>13. HoldsFile(st)
    <3> SUFFICES ASSUME NEW v \in st.written, NEW w \in st.written,
                        v.place.store = w.place.store
                 PROVE  /\ v.record.file = w.record.file
                        /\ v.place.idx < w.place.idx <=> v.record.rec < w.record.rec
      BY DEF HoldsFile
    <3>1. CASE v \in store.written /\ w \in store.written
      BY <3>1 DEF StoreHoldsFile
    <3>2. CASE v \in store.written /\ w \notin store.written
      <4>1. PICK j \in is : w = New(j)
        BY <2>5, <3>2
      <4>2. w.place.store = Target /\ w.record.file = file /\ w.record.rec = base + j
            /\ w.place.idx = base + Before(is, j)
        BY <4>1
      <4>3. v.record.file = file /\ v.record.rec < base /\ v.place.idx = v.record.rec
            /\ v.record.rec \in Nat
        BY <2>11, <3>2, <4>2
      <4>4. v.place.idx < w.place.idx /\ v.record.rec < w.record.rec
        BY <2>2, <2>3, <4>2, <4>3
      <4> QED BY <4>2, <4>3, <4>4
    <3>3. CASE v \notin store.written /\ w \in store.written
      <4>1. PICK i \in is : v = New(i)
        BY <2>5, <3>3
      <4>2. v.place.store = Target /\ v.record.file = file /\ v.record.rec = base + i
            /\ v.place.idx = base + Before(is, i)
        BY <4>1
      <4>3. w.record.file = file /\ w.record.rec < base /\ w.place.idx = w.record.rec
            /\ w.record.rec \in Nat
        BY <2>11, <3>3, <4>2
      <4>4. ~ (v.place.idx < w.place.idx) /\ ~ (v.record.rec < w.record.rec)
        BY <2>2, <2>3, <4>2, <4>3
      <4> QED BY <4>2, <4>3, <4>4
    <3>4. CASE v \notin store.written /\ w \notin store.written
      <4>1. PICK i \in is : v = New(i)
        BY <2>5, <3>4
      <4>2. PICK j \in is : w = New(j)
        BY <2>5, <3>4
      <4>3. base + Before(is, i) < base + Before(is, j) <=> base + i < base + j
        BY <2>2, <2>3, <2>12
      <4>4. v.record.file = file /\ w.record.file = file
            /\ v.record.rec = base + i /\ w.record.rec = base + j
            /\ v.place.idx = base + Before(is, i) /\ w.place.idx = base + Before(is, j)
        BY <4>1, <4>2
      <4> QED BY <4>3, <4>4
    <3> QED BY <3>1, <3>2, <3>3, <3>4
  <2>14. \A i \in is : New(i) \in st.written
         /\ New(i).record = [file |-> file, rec |-> base + i]
    BY <2>1
  <2>15. IsBelow(st, file)
    BY <2>7 DEF IsBelow
  <2>16. store.written \subseteq st.written
    BY <2>1
  <2> HIDE DEF New
  <2> QED BY <2>6, <2>10, <2>13, <2>14, <2>15, <2>16 DEF IsSound
<1> QED BY <1>1, <1>2

-----------------------------------------------------------------------------
(* Connections: a PDU is sent, or handled.                                 *)

LEMMA EmptySlot ==
    ASSUME TypeInv, NEW i \in Indexes
    PROVE  /\ slot[i] # Empty => slot[i] \in Slots
           /\ slot[i].fd \in Sessions => slot[i] # Empty
           /\ NoFd \notin Sessions
BY WindowAssumption DEF TypeInv, Empty, NoFd

LEMMA PduSent ==
    ASSUME TypeInv, NEW s \in Sessions, NEW pdu \in PDUs,
           chan' = [chan EXCEPT ![s] = Append(@, pdu)]
    PROVE  /\ chan' \in [Sessions -> Seq(PDUs)]
           /\ \A q \in Sessions \ {s} : chan'[q] = chan[q]
           /\ Len(chan'[s]) = Len(chan[s]) + 1
           /\ \A k \in 1 .. Len(chan'[s]) :
                 \/ k \in 1 .. Len(chan[s]) /\ chan'[s][k] = chan[s][k]
                 \/ k = Len(chan[s]) + 1 /\ chan'[s][k] = pdu
           /\ chan[s] = << >> => Len(chan'[s]) = 1 /\ chan'[s][1] = pdu
<1>1. chan[s] \in Seq(PDUs) /\ chan'[s] = Append(chan[s], pdu) /\ Len(chan[s]) \in Nat
  BY LenProperties DEF TypeInv
<1>2. /\ chan'[s] \in Seq(PDUs) /\ Len(chan'[s]) = Len(chan[s]) + 1
      /\ \A k \in 1 .. Len(chan[s]) : chan'[s][k] = chan[s][k]
      /\ chan'[s][Len(chan[s]) + 1] = pdu
  BY <1>1, AppendProperties
<1>3. chan' \in [Sessions -> Seq(PDUs)]
  BY <1>2 DEF TypeInv
<1>4. ASSUME NEW k \in 1 .. Len(chan'[s])
      PROVE  \/ k \in 1 .. Len(chan[s]) /\ chan'[s][k] = chan[s][k]
             \/ k = Len(chan[s]) + 1 /\ chan'[s][k] = pdu
  <2>1. k \in 1 .. Len(chan[s]) \/ k = Len(chan[s]) + 1
    BY <1>1, <1>2
  <2> QED BY <1>2, <2>1
<1>5. chan[s] = << >> => Len(chan[s]) = 0
  BY EmptySeq
<1> QED BY <1>1, <1>2, <1>3, <1>4, <1>5 DEF TypeInv

LEMMA PduTaken ==
    ASSUME TypeInv, NEW s \in Sessions, chan[s] # << >>
    PROVE  /\ Len(chan[s]) \in Nat /\ Len(chan[s]) > 0
           /\ Head(chan[s]) = chan[s][1] /\ Head(chan[s]) \in PDUs
           /\ Tail(chan[s]) \in Seq(PDUs) /\ Len(Tail(chan[s])) = Len(chan[s]) - 1
           /\ \A k \in 1 .. Len(Tail(chan[s])) :
                 k + 1 \in 1 .. Len(chan[s]) /\ Tail(chan[s])[k] = chan[s][k + 1]
<1>1. chan[s] \in Seq(PDUs) /\ Len(chan[s]) \in Nat
  BY LenProperties DEF TypeInv
<1>2. /\ Head(chan[s]) = chan[s][1] /\ Head(chan[s]) \in PDUs
      /\ Tail(chan[s]) \in Seq(PDUs) /\ Len(Tail(chan[s])) = Len(chan[s]) - 1
      /\ \A k \in 1 .. Len(Tail(chan[s])) : Tail(chan[s])[k] = chan[s][k + 1]
  BY <1>1, HeadTailProperties
<1>3. Len(chan[s]) > 0
  BY <1>1, EmptySeq
<1>4. \A k \in 1 .. Len(Tail(chan[s])) : k + 1 \in 1 .. Len(chan[s])
  BY <1>1, <1>2
<1> QED BY <1>1, <1>2, <1>3, <1>4

LEMMA NoPdus == ASSUME NEW k \in 1 .. Len(<< >>) PROVE FALSE
BY EmptySeq

\* The records not acknowledged become fewer while the CP sends none.
LEMMA UnackedFinite ==
    ASSUME TypeInv
    PROVE  IsFiniteSet(Unacked) /\ Cardinality(Unacked) \in Nat
<1>1. IsFiniteSet(0 .. sent - 1)
  BY FS_Interval DEF TypeInv
<1>2. Unacked \subseteq 0 .. sent - 1
  BY DEF Unacked
<1> QED BY <1>1, <1>2, FS_Subset, FS_CardinalityType

LEMMA FewerUnacked ==
    ASSUME TypeInv, acked \subseteq acked', file' = file, sent' = sent
    PROVE  /\ Unacked' \subseteq Unacked /\ Cardinality(Unacked') <= Cardinality(Unacked)
           /\ Cardinality(Unacked') \in Nat
<1>1. Unacked' \subseteq Unacked
  BY DEF Unacked
<1> QED BY <1>1, UnackedFinite, FS_Subset, FS_CardinalityType

-----------------------------------------------------------------------------
(* The steps of the CP and of its connections.                             *)

LEMMA InitCorrect == Init => WindowInv
<1> SUFFICES ASSUME Init PROVE WindowInv
  OBVIOUS
<1>1. /\ NoSlots \in [Indexes -> Slots \cup {Empty}]
      /\ [s \in Sessions |-> << >>] \in [Sessions -> Seq(PDUs)]
      /\ 1 \in 1 .. MaxFiles + 1 /\ 0 \in 0 .. StoreRecords
  BY WindowAssumption, EmptySeq DEF NoSlots
<1>2. TypeInv
  <2>1. store \in StoreType
    BY WindowAssumption DEF Init, StoreType
  <2>2. /\ active \subseteq Sessions /\ up \subseteq Sessions /\ base \in Nat
        /\ slot \in [Indexes -> Slots \cup {Empty}] /\ chan \in [Sessions -> Seq(PDUs)]
    BY <1>1 DEF Init
  <2>3. /\ file \in 1 .. MaxFiles + 1 /\ sent \in 0 .. StoreRecords
        /\ nfault \in Nat /\ nloss \in Nat
    BY <1>1 DEF Init
  <2>4. /\ closing \in BOOLEAN /\ asker \in Sessions \cup {NoFd} /\ acked \subseteq Records
        /\ sent = 0 /\ asker = NoFd
    BY DEF Init
  <2>5. ~ (sent > 0 \/ asker # NoFd)
    BY <2>4
  <2> QED BY <2>1, <2>2, <2>3, <2>4, <2>5 DEF TypeInv
<1>3. ChanInv
  BY NoPdus DEF Init, ChanInv, ConnectionsKnown, PdusAreCurrent, SyncIsAlone, SyncUnderWay, AskerWaits
<1>4. StoreInv
  BY DEF Init, StoreInv, WrittenIsBelow, WrittenOnce, StoreHoldsFile, AckedWereWritten
<1>5. FileIsWritten
  BY WindowAssumption DEF Init, FileIsWritten
<1>6. SlotsAreCurrent /\ SlotsAreSent /\ FullIsClosed /\ SyncIsDue
  BY DEF Init, NoSlots, SlotsAreCurrent, SlotsAreSent, FullIsClosed, SyncIsDue
<1>7. BaseInv
  BY WindowAssumption DEF Init, BaseInv
<1> QED BY <1>2, <1>3, <1>4, <1>5, <1>6, <1>7 DEF WindowInv, FileInv

LEMMA ReaderDeletesStep == ASSUME WindowInv, ReaderDeletes PROVE WindowInv'
<1>1. /\ store' = [store EXCEPT !.older = FALSE]
      /\ UNCHANGED <<active, slot, base, chan, up, file, sent, closing, asker, acked, nfault, nloss>>
  BY DEF ReaderDeletes, winVars, cpVars
<1>2. store' \in StoreType /\ store'.cur = store.cur /\ store'.idx = store.idx
      /\ store'.written = store.written
  BY <1>1 DEF WindowInv, TypeInv, StoreType
<1>3. TypeInv'
  BY <1>1, <1>2 DEF WindowInv, TypeInv
<1>4. ChanInv'
  BY <1>1 DEF WindowInv, ChanInv, ConnectionsKnown, PdusAreCurrent, PduIsAt, SyncIsAlone,
     SyncUnderWay, AskerWaits
<1>5. StoreInv'
  BY <1>1, <1>2 DEF WindowInv, StoreInv, WrittenIsBelow, WrittenOnce, StoreHoldsFile,
     AckedWereWritten
<1>6. FileInv' /\ BaseInv'
  BY <1>1, <1>2 DEF WindowInv, FileInv, FileIsWritten, FileIsComplete, FileIsClosed, Known,
     SlotsAreCurrent, SlotsAreSent, FullIsClosed, SyncIsDue, FileKnown, Unacked, BaseInv
<1> QED BY <1>3, <1>4, <1>5, <1>6 DEF WindowInv

\* Steps that leave the stores, the base and the file alone.
StoreVars == <<base, store, file, acked>>

LEMMA StoreUnchanged ==
    ASSUME WindowInv, UNCHANGED StoreVars
    PROVE  StoreInv' /\ BaseInv'
BY DEF StoreVars, WindowInv, StoreInv, BaseInv, WrittenIsBelow, WrittenOnce, StoreHoldsFile,
   AckedWereWritten

LEMMA WrittenUnchanged ==
    ASSUME FileIsWritten, UNCHANGED StoreVars, sent' \in Nat, sent \in Nat, base \in Nat, sent <= sent'
    PROVE  FileIsWritten'
<1>1. base' <= sent'
  BY DEF StoreVars, FileIsWritten
<1> QED BY <1>1 DEF StoreVars, FileIsWritten, Known

LEMMA HandleCloseStep ==
    ASSUME WindowInv, NEW fd \in Sessions, HandleClose(fd)
    PROVE  WindowInv'
<1>1. /\ fd \in active \ up
      /\ active' = active \ {fd} /\ chan' = [chan EXCEPT ![fd] = << >>]
      /\ slot' = CleanedOf(fd)
      /\ UNCHANGED <<base, store, up, file, sent, closing, asker, acked, nfault, nloss>>
  BY DEF HandleClose, cpVars
<1>2. TypeInv
  BY DEF WindowInv
<1>3. chan'[fd] = << >> /\ \A s \in Sessions \ {fd} : chan'[s] = chan[s]
  BY <1>1, <1>2 DEF TypeInv
<1>4. \A i \in Indexes : /\ slot'[i] = slot[i] \/ slot'[i] = Empty
                         /\ slot'[i] # Empty => slot'[i].fd # fd
  BY <1>1 DEF CleanedOf
<1>5. slot' \in [Indexes -> Slots \cup {Empty}]
  BY <1>1, <1>2 DEF CleanedOf, TypeInv
<1>6. TypeInv'
  <2>1. chan' \in [Sessions -> Seq(PDUs)]
    BY <1>1, <1>2, EmptySeq DEF TypeInv
  <2> QED BY <1>1, <1>2, <1>5, <2>1 DEF TypeInv
<1>7. ChanInv'
  <2>1. ConnectionsKnown'
    BY <1>1, <1>3 DEF WindowInv, ChanInv, ConnectionsKnown
  <2>2. PdusAreCurrent'
    BY <1>1, <1>3, NoPdus DEF WindowInv, ChanInv, PdusAreCurrent, PduIsAt
  <2>3. SyncIsAlone'
    <3> SUFFICES ASSUME NEW s \in Sessions, SyncUnderWay(s)'
                 PROVE  /\ Len(chan'[s]) = 1 /\ sent' > 0 /\ chan'[s][1].rec = sent' - 1
                        /\ up' = {} \/ asker' # NoFd
                        /\ \A i \in Indexes : slot'[i].fd # s
      BY DEF SyncIsAlone
    <3>1. s # fd
      BY <1>3, NoPdus DEF SyncUnderWay
    <3>2. SyncUnderWay(s) /\ chan'[s] = chan[s]
      BY <1>3, <3>1 DEF SyncUnderWay
    <3>3. \A i \in Indexes : slot'[i].fd # s
      BY <1>2, <1>4, <3>2, EmptySlot DEF WindowInv, ChanInv, SyncIsAlone, Empty
    <3> QED BY <1>1, <3>2, <3>3 DEF WindowInv, ChanInv, SyncIsAlone
  <2>4. AskerWaits'
    <3>1. asker # fd
      BY <1>1, <1>2, EmptySlot, WindowAssumption
      DEF WindowInv, ChanInv, ConnectionsKnown, TypeInv, NoFd
    <3>2. asker # NoFd => chan'[asker] = chan[asker]
      BY <1>2, <1>3, <3>1 DEF TypeInv
    <3>3. \A s \in Sessions : chan[s] = << >> => chan'[s] = << >>
      BY <1>3
    <3> QED BY <1>1, <3>2, <3>3 DEF WindowInv, ChanInv, AskerWaits
  <2> QED BY <2>1, <2>2, <2>3, <2>4 DEF ChanInv
<1>8. slot = NoSlots => slot' = NoSlots
  BY <1>1 DEF CleanedOf, NoSlots, Empty
<1>9. (FileIsWritten \/ FileIsComplete \/ FileIsClosed)'
  <2>1. FileIsWritten => FileIsWritten'
    BY <1>1 DEF FileIsWritten, Known
  <2>2. FileIsComplete => FileIsComplete'
    <3>1. \A s \in Sessions : \A k \in 1 .. Len(chan'[s]) : k \in 1 .. Len(chan[s]) /\ chan'[s][k] = chan[s][k]
      BY <1>3, NoPdus
    <3> QED BY <1>1, <1>8, <3>1 DEF FileIsComplete, Known, Unacked
  <2>3. FileIsClosed => FileIsClosed'
    BY <1>1, <1>8 DEF FileIsClosed
  <2> QED BY <2>1, <2>2, <2>3 DEF WindowInv, FileInv
<1>10. SlotsAreCurrent' /\ SlotsAreSent'
  BY <1>1, <1>4 DEF WindowInv, FileInv, SlotsAreCurrent, SlotsAreSent
<1>11. FullIsClosed' /\ SyncIsDue'
  BY <1>1, <1>8 DEF WindowInv, FileInv, FullIsClosed, SyncIsDue, FileKnown, Unacked
<1>12. StoreInv' /\ BaseInv'
  BY <1>1, StoreUnchanged DEF StoreVars
<1> QED BY <1>6, <1>7, <1>9, <1>10, <1>11, <1>12 DEF WindowInv, FileInv

LEMMA ConnectStep ==
    ASSUME WindowInv, NEW s \in Sessions, Connect(s)
    PROVE  WindowInv'
<1> DEFINE pdu == [type |-> "sync", file |-> file, rec |-> sent - 1]
<1>1. /\ s \notin up \cup active /\ asker = NoFd /\ file \in Files
      /\ active' = active \cup {s} /\ up' = up \cup {s}
      /\ UNCHANGED <<base, slot, store, file, sent, closing, acked, nfault, nloss>>
  BY DEF Connect, winVars
<1>2. TypeInv /\ chan[s] = << >> /\ up \subseteq active
  BY <1>1 DEF WindowInv, ChanInv, ConnectionsKnown
<1>3. \/ /\ up = {} /\ sent > 0 /\ asker' = s
         /\ chan' = [chan EXCEPT ![s] = Append(@, pdu)]
      \/ ~ (up = {} /\ sent > 0) /\ asker' = NoFd /\ chan' = chan
  BY <1>1 DEF Connect, Send
<1>4. s # NoFd
  BY WindowAssumption DEF NoFd
<1>5. sent > 0 => pdu \in PDUs
  BY <1>1, <1>2, WindowAssumption DEF TypeInv, PDUs, Numbers
<1>6. ASSUME up = {}, sent > 0, asker' = s, chan' = [chan EXCEPT ![s] = Append(@, pdu)]
      PROVE  TypeInv' /\ ChanInv' /\ (FileIsComplete => FileIsComplete') /\ SyncIsDue'
  <2>1. /\ chan' \in [Sessions -> Seq(PDUs)]
        /\ \A q \in Sessions \ {s} : chan'[q] = chan[q]
        /\ Len(chan'[s]) = 1 /\ chan'[s][1] = pdu
    BY <1>2, <1>5, <1>6, PduSent
  <2>2. TypeInv'
    BY <1>1, <1>2, <1>6, <2>1 DEF TypeInv
  <2>3. ConnectionsKnown'
    BY <1>1, <1>2, <1>6, <2>1 DEF WindowInv, ChanInv, ConnectionsKnown
  <2>4. PdusAreCurrent'
    <3> SUFFICES ASSUME NEW q \in Sessions, NEW k \in 1 .. Len(chan'[q])
                 PROVE  PduIsAt(chan'[q][k], file', sent', closing')
      BY DEF PdusAreCurrent
    <3>1. CASE q = s
      <4> HIDE DEF pdu
      <4>2. k \in 1 .. Len(chan'[s])
        BY <3>1
      <4>3. k = 1
        BY <2>1, <4>2
      <4>1. chan'[q][k] = pdu
        BY <2>1, <3>1, <4>3
      <4> USE DEF pdu
      <4> QED BY <1>1, <4>1 DEF PduIsAt
    <3>2. CASE q # s
      BY <1>1, <2>1, <3>2 DEF WindowInv, ChanInv, PdusAreCurrent, PduIsAt
    <3> QED BY <3>1, <3>2
  <2>5. SyncIsAlone'
    <3> SUFFICES ASSUME NEW q \in Sessions, SyncUnderWay(q)'
                 PROVE  /\ Len(chan'[q]) = 1 /\ sent' > 0 /\ chan'[q][1].rec = sent' - 1
                        /\ \A i \in Indexes : slot'[i].fd # q
      BY <1>4, <1>6 DEF SyncIsAlone
    <3>1. CASE q = s
      <4>1. \A i \in Indexes : slot[i].fd # s
        <5> TAKE i \in Indexes
        <5>1. slot[i] # Empty => slot[i].fd \in active
          BY DEF WindowInv, FileInv, SlotsAreCurrent
        <5> QED BY <1>1, <1>2, <5>1, EmptySlot
      <4> QED BY <1>1, <1>6, <2>1, <3>1, <4>1
    <3>2. CASE q # s
      <4>1. SyncUnderWay(q)
        BY <2>1, <3>2 DEF SyncUnderWay
      <4> QED BY <1>1, <2>1, <3>2, <4>1 DEF WindowInv, ChanInv, SyncIsAlone
    <3> QED BY <3>1, <3>2
  <2>6. AskerWaits'
    BY <1>1, <1>6, <2>1 DEF AskerWaits
  <2>7. FileIsComplete => FileIsComplete'
    <3> SUFFICES ASSUME FileIsComplete, NEW q \in Sessions, NEW k \in 1 .. Len(chan'[q])
                 PROVE  chan'[q][k].type # "put"
      BY <1>1, <1>4, <1>6 DEF FileIsComplete, Known, Unacked
    <3>1. CASE q = s
      <4> HIDE DEF pdu
      <4>2. k \in 1 .. Len(chan'[s])
        BY <3>1
      <4>3. k = 1
        BY <2>1, <4>2
      <4>1. chan'[q][k] = pdu
        BY <2>1, <3>1, <4>3
      <4> USE DEF pdu
      <4> QED BY <4>1
    <3>2. CASE q # s
      BY <2>1, <3>2 DEF FileIsComplete
    <3> QED BY <3>1, <3>2
  <2>8. SyncIsDue'
    BY <1>1, <1>6 DEF WindowInv, FileInv, SyncIsDue, FileKnown, Unacked
  <2> QED BY <2>2, <2>3, <2>4, <2>5, <2>6, <2>7, <2>8 DEF ChanInv
<1>7. ASSUME ~ (up = {} /\ sent > 0), asker' = NoFd, chan' = chan
      PROVE  TypeInv' /\ ChanInv' /\ (FileIsComplete => FileIsComplete') /\ SyncIsDue'
  <2>1. TypeInv'
    BY <1>1, <1>2, <1>7 DEF TypeInv
  <2>2. ConnectionsKnown' /\ PdusAreCurrent' /\ AskerWaits'
    BY <1>1, <1>7 DEF WindowInv, ChanInv, ConnectionsKnown, PdusAreCurrent, PduIsAt, AskerWaits
  <2>3. SyncIsAlone'
    BY <1>1, <1>7 DEF WindowInv, ChanInv, SyncIsAlone, SyncUnderWay
  <2>4. FileIsComplete => FileIsComplete'
    <3>1. FileIsComplete => Unacked = {}
      BY <1>1, <1>7, WindowAssumption DEF FileIsComplete
    <3> QED BY <1>1, <1>7, <3>1 DEF FileIsComplete, Known, Unacked
  <2>5. SyncIsDue'
    BY <1>1, <1>7 DEF SyncIsDue
  <2> QED BY <2>1, <2>2, <2>3, <2>4, <2>5 DEF ChanInv
<1>8. TypeInv' /\ ChanInv' /\ (FileIsComplete => FileIsComplete') /\ SyncIsDue'
  BY <1>3, <1>6, <1>7
<1>9. FileIsWritten => FileIsWritten'
  BY <1>1 DEF FileIsWritten, Known
<1>10. FileIsClosed => FileIsClosed'
  BY <1>1 DEF FileIsClosed
<1>11. SlotsAreCurrent' /\ SlotsAreSent' /\ FullIsClosed'
  BY <1>1 DEF WindowInv, FileInv, SlotsAreCurrent, SlotsAreSent, FullIsClosed
<1>12. StoreInv' /\ BaseInv'
  BY <1>1, StoreUnchanged DEF StoreVars
<1> QED BY <1>8, <1>9, <1>10, <1>11, <1>12 DEF WindowInv, FileInv

LEMMA LoseStep ==
    ASSUME WindowInv, NEW s \in Sessions, Lose(s)
    PROVE  WindowInv'
<1>1. /\ s \in up /\ asker' = NoFd
      /\ up' = IF asker = NoFd THEN up \ {s} ELSE {}
      /\ up' = {} /\ sent > 0 => FileKnown /\ Cardinality(Unacked) <= SyncUnacked
      /\ nloss' = nloss + 1
      /\ UNCHANGED <<active, base, slot, store, chan, file, sent, closing, acked, nfault>>
  BY DEF Lose, winVars
<1>2. TypeInv /\ up' \subseteq up
  BY <1>1 DEF WindowInv
<1>3. TypeInv'
  BY <1>1, <1>2 DEF TypeInv
<1>4. ConnectionsKnown' /\ PdusAreCurrent' /\ AskerWaits'
  BY <1>1, <1>2 DEF WindowInv, ChanInv, ConnectionsKnown, PdusAreCurrent, PduIsAt, AskerWaits
<1>5. SyncIsAlone'
  BY <1>1 DEF WindowInv, ChanInv, SyncIsAlone, SyncUnderWay
<1>6. FileIsComplete => FileIsComplete'
  BY <1>1 DEF FileIsComplete, Known, Unacked
<1>7. SyncIsDue'
  BY <1>1 DEF SyncIsDue, FileKnown, Unacked
<1>8. FileIsWritten => FileIsWritten'
  BY <1>1 DEF FileIsWritten, Known
<1>9. FileIsClosed => FileIsClosed'
  BY <1>1 DEF FileIsClosed
<1>10. SlotsAreCurrent' /\ SlotsAreSent' /\ FullIsClosed'
  BY <1>1 DEF WindowInv, FileInv, SlotsAreCurrent, SlotsAreSent, FullIsClosed
<1>11. StoreInv' /\ BaseInv'
  BY <1>1, StoreUnchanged DEF StoreVars
<1> QED BY <1>3, <1>4, <1>5, <1>6, <1>7, <1>8, <1>9, <1>10, <1>11 DEF WindowInv, FileInv, ChanInv

\* A record is sent, for the first time or again, while the CP waits for nothing.
LEMMA PutSent ==
    ASSUME WindowInv, NEW s \in Sessions, NEW r \in Numbers, file \in Files,
           s \in up, asker = NoFd, ~closing, Send(s, "put", r), r < sent',
           sent' = sent \/ sent' = sent + 1, sent' <= StoreRecords,
           UNCHANGED <<active, base, slot, store, up, file, closing, asker, acked, nfault, nloss>>
    PROVE  TypeInv' /\ ChanInv' /\ SlotsAreSent'
<1> DEFINE pdu == [type |-> "put", file |-> file, rec |-> r]
<1>1. TypeInv /\ pdu \in PDUs /\ sent \in Nat /\ sent <= sent' /\ sent' \in 0 .. StoreRecords
  BY FileStore DEF WindowInv, PDUs
<1>2. chan' = [chan EXCEPT ![s] = Append(@, pdu)]
  BY DEF Send
<1> HIDE DEF pdu
<1>3. /\ chan' \in [Sessions -> Seq(PDUs)]
      /\ \A q \in Sessions \ {s} : chan'[q] = chan[q]
      /\ \A k \in 1 .. Len(chan'[s]) :
            \/ k \in 1 .. Len(chan[s]) /\ chan'[s][k] = chan[s][k]
            \/ k = Len(chan[s]) + 1 /\ chan'[s][k] = pdu
  BY <1>1, <1>2, PduSent, ZenonT(60)
<1> USE DEF pdu
<1>4. TypeInv'
  BY <1>1, <1>3 DEF TypeInv
<1>5. ConnectionsKnown'
  BY <1>3 DEF WindowInv, ChanInv, ConnectionsKnown
<1>6. \A q \in Sessions : \A k \in 1 .. Len(chan'[q]) :
         \/ k \in 1 .. Len(chan[q]) /\ chan'[q][k] = chan[q][k]
         \/ chan'[q][k] = pdu
  BY <1>3
<1>7. PdusAreCurrent'
  <2> SUFFICES ASSUME NEW q \in Sessions, NEW k \in 1 .. Len(chan'[q])
               PROVE  PduIsAt(chan'[q][k], file', sent', closing')
    BY DEF PdusAreCurrent
  <2>1. CASE chan'[q][k] = pdu
    BY <2>1 DEF PduIsAt
  <2>2. CASE k \in 1 .. Len(chan[q]) /\ chan'[q][k] = chan[q][k]
    <3>1. PduIsAt(chan[q][k], file, sent, closing) /\ chan[q][k] \in PDUs
      BY <1>1, <2>2 DEF WindowInv, ChanInv, PdusAreCurrent, TypeInv
    <3>2. chan[q][k].rec \in Nat
      BY <3>1 DEF PDUs, Numbers
    <3> QED BY <1>1, <2>2, <3>1, <3>2 DEF PduIsAt
  <2> QED BY <1>6, <2>1, <2>2
<1>8. SyncIsAlone'
  <2>1. \A q \in Sessions : ~ SyncUnderWay(q)
    BY DEF WindowInv, ChanInv, SyncIsAlone
  <2>2. \A q \in Sessions : ~ SyncUnderWay(q)'
    BY <1>6, <2>1 DEF SyncUnderWay
  <2> QED BY <2>2 DEF SyncIsAlone
<1>9. AskerWaits'
  BY DEF AskerWaits
<1>10. SlotsAreSent'
  <2> SUFFICES ASSUME NEW i \in Indexes, slot[i] # Empty PROVE slot[i].rec < sent'
    BY DEF SlotsAreSent
  <2>1. slot[i].rec < sent /\ slot[i] \in Slots
    BY <1>1, EmptySlot DEF WindowInv, FileInv, SlotsAreSent
  <2>2. slot[i].rec \in Nat
    BY <2>1 DEF Slots, Numbers
  <2> QED BY <1>1, <2>1, <2>2
<1> QED BY <1>4, <1>5, <1>7, <1>8, <1>9, <1>10 DEF ChanInv

LEMMA SendRecordStep ==
    ASSUME WindowInv, NEW s \in Sessions, SendRecord(s)
    PROVE  WindowInv'
<1>1. /\ s \in up /\ asker = NoFd /\ ~closing /\ file \in Files /\ sent < StoreRecords
      /\ Send(s, "put", sent) /\ sent' = sent + 1
      /\ UNCHANGED <<active, base, slot, store, up, file, closing, asker, acked, nfault, nloss>>
  BY DEF SendRecord, winVars
<1>2. sent \in Nat /\ sent \in Numbers /\ sent < sent' /\ sent' <= StoreRecords
      /\ sent' \in Nat /\ base \in Nat /\ sent <= sent'
  BY <1>1, FileStore DEF WindowInv, Numbers
<1>3. TypeInv' /\ ChanInv' /\ SlotsAreSent'
  BY <1>1, <1>2, PutSent
<1>4. FileIsWritten'
  <2>1. ~ FileIsComplete /\ ~ FileIsClosed
    BY <1>1, <1>2 DEF FileIsComplete, FileIsClosed
  <2>2. FileIsWritten
    BY <2>1 DEF WindowInv, FileInv
  <2> QED BY <1>1, <1>2, <2>2, WrittenUnchanged DEF StoreVars
<1>5. SlotsAreCurrent' /\ FullIsClosed' /\ SyncIsDue'
  BY <1>1 DEF WindowInv, FileInv, SlotsAreCurrent, FullIsClosed, SyncIsDue
<1>6. StoreInv' /\ BaseInv'
  BY <1>1, StoreUnchanged DEF StoreVars
<1> QED BY <1>3, <1>4, <1>5, <1>6 DEF WindowInv, FileInv

LEMMA ResendRecordStep ==
    ASSUME WindowInv, NEW s \in Sessions, NEW r \in Numbers, ResendRecord(s, r)
    PROVE  WindowInv'
<1>1. /\ s \in up /\ asker = NoFd /\ ~closing /\ r \in Unacked
      /\ Send(s, "put", r)
      /\ UNCHANGED <<active, base, slot, store, up, file, sent, closing, asker, acked, nfault, nloss>>
  BY DEF ResendRecord, winVars, cpVars
<1>2. sent \in Nat /\ base \in Nat /\ r < sent /\ r \in Nat /\ sent <= StoreRecords
  BY <1>1, FileStore DEF WindowInv, Unacked, Numbers
<1>3. file \in Files
  BY <1>2 DEF WindowInv, TypeInv
<1>4. TypeInv' /\ ChanInv' /\ SlotsAreSent'
  BY <1>1, <1>2, <1>3, PutSent
<1>5. FileIsWritten'
  <2>1. ~ FileIsComplete /\ ~ FileIsClosed
    BY <1>1 DEF FileIsComplete, FileIsClosed
  <2>2. FileIsWritten
    BY <2>1 DEF WindowInv, FileInv
  <2> QED BY <1>1, <1>2, <2>2, WrittenUnchanged DEF StoreVars
<1>6. SlotsAreCurrent' /\ FullIsClosed' /\ SyncIsDue'
  BY <1>1 DEF WindowInv, FileInv, SlotsAreCurrent, FullIsClosed, SyncIsDue
<1>7. StoreInv' /\ BaseInv'
  BY <1>1, StoreUnchanged DEF StoreVars
<1> QED BY <1>4, <1>5, <1>6, <1>7 DEF WindowInv, FileInv

\* A file of which all records are acknowledged is written to its end.
LEMMA AllAcknowledged ==
    ASSUME WindowInv, sent = StoreRecords, Unacked = {}
    PROVE  slot = NoSlots /\ store.idx \in {0, StoreRecords}
<1>1. TypeInv /\ StoreRecords \in Nat /\ StoreRecords > 0 /\ base \in Nat
  BY FileStore DEF WindowInv
<1>2. CASE FileIsWritten
  <2>1. [file |-> file, rec |-> StoreRecords - 1] \in acked
    BY <1>1 DEF Unacked
  <2>2. PICK w \in store.written : w.record = [file |-> file, rec |-> StoreRecords - 1]
    BY <2>1 DEF WindowInv, StoreInv, AckedWereWritten
  <2>6. w.record.file = file /\ w.record.rec = StoreRecords - 1
    BY <2>2
  <2>7. w.record.rec < base
    BY <1>2, <2>6 DEF FileIsWritten
  <2>3. StoreRecords - 1 < base
    BY <2>6, <2>7
  <2>4. base = StoreRecords /\ store.idx = StoreRecords
    BY <1>1, <1>2, <2>3 DEF FileIsWritten
  <2>5. \A i \in Indexes : slot[i] = Empty
    <3> SUFFICES ASSUME NEW i \in Indexes, slot[i] # Empty PROVE FALSE
      OBVIOUS
    <3>1. slot[i].rec = base + i /\ slot[i] \in Slots
      BY <1>1, EmptySlot DEF WindowInv, FileInv, SlotsAreCurrent
    <3>2. slot[i].rec <= StoreRecords - 1 /\ slot[i].rec \in Nat /\ i \in Nat
      BY <1>1, <3>1, WindowAssumption DEF Slots, Numbers, Indexes
    <3> QED BY <1>1, <2>4, <3>1, <3>2
  <2> QED BY <1>1, <2>4, <2>5 DEF NoSlots, TypeInv
<1>3. CASE FileIsComplete
  BY <1>3 DEF FileIsComplete
<1>4. CASE FileIsClosed
  BY <1>4 DEF FileIsClosed, WindowInv, FileInv, FullIsClosed
<1> QED BY <1>2, <1>3, <1>4 DEF WindowInv, FileInv

LEMMA SendUnlinkStep ==
    ASSUME WindowInv, NEW s \in Sessions, SendUnlink(s)
    PROVE  WindowInv'
<1>1. /\ s \in up /\ asker = NoFd /\ file \in Files /\ sent > 0
      /\ \A q \in Sessions : chan[q] = << >>
      /\ asker' = s /\ closing' = TRUE
      /\ UNCHANGED <<active, base, slot, store, up, file, sent, acked, nfault, nloss>>
  BY DEF SendUnlink, winVars
<1>2. PICK type \in {"unlinkfile", "unlinkall"} :
         /\ chan' = [chan EXCEPT ![s] = Append(@, [type |-> type, file |-> file, rec |-> 0])]
         /\ type = "unlinkfile" => sent = StoreRecords /\ Unacked = {}
         /\ type = "unlinkall"  => sent < StoreRecords
  BY DEF SendUnlink, Send
<1> DEFINE pdu == [type |-> type, file |-> file, rec |-> 0]
<1>3. TypeInv /\ s # NoFd /\ pdu \in PDUs
  BY <1>1, WindowAssumption DEF WindowInv, NoFd, PDUs, Numbers
<1>4. /\ chan' \in [Sessions -> Seq(PDUs)]
      /\ \A q \in Sessions \ {s} : chan'[q] = << >>
      /\ Len(chan'[s]) = 1 /\ chan'[s][1] = pdu
  BY <1>1, <1>2, <1>3, PduSent
<1>5. \A q \in Sessions : \A k \in 1 .. Len(chan'[q]) : chan'[q][k] = pdu
  <2> TAKE q \in Sessions
  <2> TAKE k \in 1 .. Len(chan'[q])
  <2>1. q = s
    BY <1>4, NoPdus
  <2>2. k \in 1 .. Len(chan'[s])
    BY <2>1
  <2>3. k = 1
    BY <1>4, <2>2
  <2> QED BY <1>4, <2>1, <2>3
<1>6. TypeInv'
  BY <1>1, <1>3, <1>4 DEF TypeInv
<1>7. ConnectionsKnown'
  BY <1>1, <1>4 DEF WindowInv, ChanInv, ConnectionsKnown
<1>8. PdusAreCurrent'
  <2>1. PduIsAt(pdu, file', sent', closing')
    BY <1>1, <1>2 DEF PduIsAt
  <2> HIDE DEF pdu
  <2> QED BY <1>5, <2>1 DEF PdusAreCurrent
<1>9. SyncIsAlone'
  BY <1>5 DEF SyncIsAlone, SyncUnderWay
<1>10. AskerWaits'
  BY <1>1, <1>4 DEF AskerWaits
<1>11. FileIsWritten => FileIsWritten'
  BY <1>1 DEF FileIsWritten, Known
<1>12. FileIsComplete => FileIsComplete'
  BY <1>1, <1>3, <1>5 DEF FileIsComplete, Known, Unacked
<1>13. FileIsClosed => FileIsClosed'
  BY <1>1 DEF FileIsClosed
<1>14. FullIsClosed'
  <2>1. sent = StoreRecords => Unacked = {}
    BY <1>2, <1>3, FileStore
  <2> QED BY <1>1, <2>1, AllAcknowledged DEF FullIsClosed
<1>15. SlotsAreCurrent' /\ SlotsAreSent' /\ SyncIsDue'
  BY <1>1 DEF WindowInv, FileInv, SlotsAreCurrent, SlotsAreSent, SyncIsDue
<1>16. StoreInv' /\ BaseInv'
  BY <1>1, StoreUnchanged DEF StoreVars
<1> QED BY <1>6, <1>7, <1>8, <1>9, <1>10, <1>11, <1>12, <1>13, <1>14, <1>15, <1>16
        DEF WindowInv, FileInv, ChanInv

-----------------------------------------------------------------------------
(* A record comes.                                                         *)

LEMMA DueKept ==
    ASSUME WindowInv, acked \subseteq acked', store.written \subseteq store'.written,
           UNCHANGED <<file, sent, closing, up, asker>>
    PROVE  SyncIsDue'
<1> SUFFICES ASSUME ~closing /\ sent > 0 /\ (up = {} \/ asker # NoFd)
             PROVE  FileKnown' /\ Cardinality(Unacked') <= SyncUnacked
  BY DEF SyncIsDue
<1>1. FileKnown /\ Cardinality(Unacked) <= SyncUnacked
  BY DEF WindowInv, FileInv, SyncIsDue
<1>2. FileKnown'
  BY <1>1 DEF FileKnown
<1>3. Cardinality(Unacked') <= Cardinality(Unacked) /\ Cardinality(Unacked') \in Nat
      /\ Cardinality(Unacked) \in Nat /\ SyncUnacked \in Nat
  BY FewerUnacked, UnackedFinite, WindowAssumption DEF WindowInv
<1> QED BY <1>1, <1>2, <1>3

\* What is acknowledged has been written.
LEMMA AcksKept ==
    ASSUME WindowInv, NEW xs, Acknowledge(xs), store.written \subseteq store'.written,
           \A x \in xs : /\ RecordOf(x) \in Records
                         /\ \E w \in store'.written : w.record = RecordOf(x)
    PROVE  AckedWereWritten' /\ acked \subseteq acked' /\ acked' \subseteq Records
BY DEF WindowInv, StoreInv, TypeInv, AckedWereWritten, Acknowledge

LEMMA PutTaken ==
    ASSUME WindowInv, NEW fd \in Sessions, chan[fd] # << >>, Head(chan[fd]).type = "put",
           chan' = [chan EXCEPT ![fd] = Tail(@)],
           UNCHANGED <<active, up, file, sent, closing, asker>>,
           \A i \in Indexes : slot'[i].fd \in {NoFd, fd} \/ \E j \in Indexes : slot'[i].fd = slot[j].fd
    PROVE  ChanInv' /\ chan' \in [Sessions -> Seq(PDUs)]
<1>1. TypeInv
  BY DEF WindowInv
<1>2. /\ chan'[fd] = Tail(chan[fd]) /\ \A s \in Sessions \ {fd} : chan'[s] = chan[s]
      /\ chan' \in [Sessions -> Seq(PDUs)]
  BY <1>1, PduTaken DEF TypeInv
<1>3. /\ Len(chan[fd]) \in Nat /\ Len(chan[fd]) > 0 /\ chan[fd][1].type = "put"
      /\ \A k \in 1 .. Len(chan'[fd]) : k + 1 \in 1 .. Len(chan[fd]) /\ chan'[fd][k] = chan[fd][k + 1]
  BY <1>1, <1>2, PduTaken
<1>4. ~ SyncUnderWay(fd)
  <2> SUFFICES ASSUME SyncUnderWay(fd) PROVE FALSE
    OBVIOUS
  <2>1. Len(chan[fd]) = 1
    BY DEF WindowInv, ChanInv, SyncIsAlone
  <2>2. PICK k \in 1 .. Len(chan[fd]) : chan[fd][k].type = "sync"
    BY DEF SyncUnderWay
  <2>3. k = 1
    BY <2>1, <2>2
  <2> QED BY <1>3, <2>2, <2>3
<1>5. ConnectionsKnown'
  <2>1. fd \in active
    BY DEF WindowInv, ChanInv, ConnectionsKnown
  <2> QED BY <1>2, <2>1 DEF WindowInv, ChanInv, ConnectionsKnown
<1>6. PdusAreCurrent'
  <2> SUFFICES ASSUME NEW s \in Sessions, NEW k \in 1 .. Len(chan'[s])
               PROVE  PduIsAt(chan'[s][k], file, sent, closing)
    BY DEF PdusAreCurrent
  <2>1. CASE s = fd
    BY <1>3, <2>1 DEF WindowInv, ChanInv, PdusAreCurrent
  <2>2. CASE s # fd
    BY <1>2, <2>2 DEF WindowInv, ChanInv, PdusAreCurrent
  <2> QED BY <2>1, <2>2
<1>7. SyncIsAlone'
  <2> SUFFICES ASSUME NEW s \in Sessions, SyncUnderWay(s)'
               PROVE  /\ Len(chan'[s]) = 1 /\ sent > 0 /\ chan'[s][1].rec = sent - 1
                      /\ up = {} \/ asker # NoFd
                      /\ \A i \in Indexes : slot'[i].fd # s
    BY DEF SyncIsAlone
  <2>1. s # fd
    BY <1>3, <1>4 DEF SyncUnderWay
  <2>2. SyncUnderWay(s) /\ chan'[s] = chan[s]
    BY <1>2, <2>1 DEF SyncUnderWay
  <2>3. \A i \in Indexes : slot[i].fd # s
    BY <2>2 DEF WindowInv, ChanInv, SyncIsAlone
  <2>4. s # NoFd
    BY WindowAssumption DEF NoFd
  <2>5. \A i \in Indexes : slot'[i].fd # s
    BY <2>1, <2>3, <2>4
  <2> QED BY <2>2, <2>5 DEF WindowInv, ChanInv, SyncIsAlone
<1>8. AskerWaits'
  <2> SUFFICES ASSUME asker # NoFd
               PROVE  /\ Len(chan'[asker]) = 1 /\ chan'[asker][1].type # "put"
                      /\ IF chan'[asker][1].type = "sync" THEN up = {asker}
                         ELSE \A s \in Sessions \ {asker} : chan'[s] = << >>
    BY DEF AskerWaits
  <2>1. /\ Len(chan[asker]) = 1 /\ chan[asker][1].type # "put"
        /\ IF chan[asker][1].type = "sync" THEN up = {asker}
           ELSE \A s \in Sessions \ {asker} : chan[s] = << >>
    BY DEF WindowInv, ChanInv, AskerWaits
  <2>2. asker \in Sessions /\ asker # fd
    BY <1>1, <1>3, <2>1 DEF TypeInv
  <2>3. chan'[asker] = chan[asker] /\ chan[asker][1].type = "sync"
    BY <1>2, <2>1, <2>2
  <2> QED BY <2>1, <2>3
<1> QED BY <1>2, <1>5, <1>6, <1>7, <1>8 DEF ChanInv

\* A record comes only while the file is being written.
LEMMA PutMeetsFile ==
    ASSUME WindowInv, NEW fd \in Sessions, chan[fd] # << >>, Head(chan[fd]).type = "put"
    PROVE  /\ Head(chan[fd]).file = file /\ ~closing /\ file \in Files
           /\ Head(chan[fd]).rec < sent /\ Head(chan[fd]).rec \in Numbers
           /\ Head(chan[fd]).rec \in Nat
           /\ FileIsWritten
<1>1. /\ Len(chan[fd]) \in Nat /\ Len(chan[fd]) > 0 /\ Head(chan[fd]) = chan[fd][1]
      /\ Head(chan[fd]) \in PDUs
  BY PduTaken DEF WindowInv
<1>2. 1 \in 1 .. Len(chan[fd])
  BY <1>1
<1>3. PduIsAt(chan[fd][1], file, sent, closing)
  BY <1>2 DEF WindowInv, ChanInv, PdusAreCurrent
<1>4. Head(chan[fd]).file = file /\ ~closing /\ Head(chan[fd]).rec < sent
  BY <1>1, <1>3 DEF PduIsAt
<1>5. Head(chan[fd]).rec \in Numbers /\ Head(chan[fd]).file \in Files /\ Head(chan[fd]).rec \in Nat
  BY <1>1 DEF PDUs, Numbers
<1>6. ~ FileIsComplete
  BY <1>1, <1>2 DEF FileIsComplete
<1>7. ~ FileIsClosed
  BY <1>4 DEF FileIsClosed
<1> QED BY <1>4, <1>5, <1>6, <1>7 DEF WindowInv, FileInv

\* The slots hold records of the file at their numbers, on known connections.
SlotFits(x, i) ==
    /\ x \in Slots /\ x.file = file /\ x.rec = base + i /\ x.rec < sent /\ x.fd \in active

LEMMA SlotsFit ==
    ASSUME WindowInv, NEW i \in Indexes, slot[i] # Empty
    PROVE  SlotFits(slot[i], i)
BY EmptySlot DEF WindowInv, FileInv, SlotsAreCurrent, SlotsAreSent, SlotFits

LEMMA FitsWritable ==
    ASSUME TypeInv, NEW sl, NEW is \in SUBSET Indexes, \A i \in is : SlotFits(sl[i], i)
    PROVE  /\ Writable(sl, is)
           /\ \A i \in is : RecordOf(sl[i]) = [file |-> file, rec |-> base + i]
                            /\ RecordOf(sl[i]) \in Records
<1> SUFFICES ASSUME NEW i \in is
             PROVE  /\ sl[i].file = file /\ sl[i].rec = base + i /\ base + i < StoreRecords
                    /\ RecordOf(sl[i]) = [file |-> file, rec |-> base + i]
                    /\ RecordOf(sl[i]) \in Records
  BY DEF Writable
<1>1. sl[i] \in Slots /\ sl[i].file = file /\ sl[i].rec = base + i
  BY DEF SlotFits
<1>2. sl[i].file \in Files /\ sl[i].rec \in Numbers
  BY <1>1 DEF Slots
<1>3. base + i < StoreRecords
  BY <1>1, <1>2, WindowAssumption DEF Numbers
<1> QED BY <1>1, <1>2, <1>3 DEF RecordOf, Records

\* The base moves over the records that were written from the front.
LEMMA FileAdvances ==
    ASSUME WindowInv, FileIsWritten, file \in Files, NEW sl, NEW n \in 0 .. Window,
           \A i \in 0 .. n - 1 : SlotFits(sl[i], i),
           store' = Written(sl, 0 .. n - 1), base' = base + n, file' = file, sent' = sent
    PROVE  FileIsWritten' /\ base' \in Nat /\ base' <= StoreRecords
<1> DEFINE is == 0 .. n - 1
<1>1. /\ TypeInv /\ base \in Nat /\ sent \in Nat /\ sent <= StoreRecords /\ n \in Nat
      /\ base <= sent
  BY FileStore, WindowAssumption DEF WindowInv, FileIsWritten
<1>2. is \in SUBSET Indexes /\ Cardinality(is) = n /\ \A i \in is : Before(is, i) = i
  BY FrontSlots
<1>3. Writable(sl, is)
  BY <1>1, <1>2, FitsWritable
<1>4. CASE n = 0
  <2>1. is = {} /\ base' = base
    BY <1>1, <1>4
  <2>2. store' = store
    BY <2>1 DEF Written
  <2>3. FileIsWritten'
    BY <2>1, <2>2 DEF FileIsWritten, Known
  <2>4. base <= StoreRecords
    BY <1>1, WindowAssumption
  <2> QED BY <1>1, <2>1, <2>3, <2>4
<1>5. CASE n > 0
  <2>1. is # {} /\ n - 1 \in is
    <3>1. n - 1 \in 0 .. n - 1
      BY <1>1, <1>5
    <3> QED BY <3>1
  <2>2. base + n <= sent
    <3>1. sl[n - 1].rec = base + (n - 1) /\ sl[n - 1].rec < sent
      BY <2>1 DEF SlotFits
    <3> QED BY <1>1, <3>1
  <2>3. /\ store'.cur = Target /\ store'.idx = base + n
        /\ store'.written = store.written \cup
              {[place  |-> [store |-> Target, idx |-> base + Before(is, i)],
                record |-> [file |-> file, rec |-> base + i]] : i \in is}
    <3> HIDE DEF is
    <3> QED BY <1>1, <1>2, <1>3, <2>1, WrittenSlots DEF is
  <2>4. \A w \in store'.written :
          \/ w \in store.written
          \/ \E i \in is : w = [place  |-> [store |-> Target, idx |-> base + i],
                                record |-> [file |-> file, rec |-> base + i]]
    BY <1>2, <2>3
  <2>5. \A i \in is : [place  |-> [store |-> Target, idx |-> base + i],
                       record |-> [file |-> file, rec |-> base + i]] \in store'.written
    BY <1>2, <2>3
  <2>6. \A r \in 0 .. base' - 1 : \E w \in store'.written : w.record = [file |-> file, rec |-> r]
    <3> TAKE r \in 0 .. base' - 1
    <3>1. CASE r < base
      <4>1. r \in 0 .. base - 1
        BY <1>1, <3>1
      <4> QED BY <2>3, <4>1 DEF FileIsWritten, Known
    <3>2. CASE ~ (r < base)
      <4>1. r - base \in is /\ base + (r - base) = r
        BY <1>1, <3>2
      <4>2. [place  |-> [store |-> Target, idx |-> base + (r - base)],
             record |-> [file |-> file, rec |-> base + (r - base)]] \in store'.written
        BY <2>5, <4>1
      <4> QED BY <4>1, <4>2
    <3> QED BY <3>1, <3>2
  <2>7. ASSUME NEW w \in store'.written, w.record.file = file
        PROVE  w.record.rec < base' /\ w.place = [store |-> store'.cur, idx |-> w.record.rec]
    <3>1. CASE w \in store.written
      <4>1. w.record.rec < base /\ w.place = [store |-> store.cur, idx |-> w.record.rec]
            /\ w.record.rec \in Nat
        BY <1>1, <2>7, <3>1, FileStore DEF FileIsWritten
      <4>2. base > 0
        BY <1>1, <4>1
      <4>3. Target = store.cur
        BY <4>2 DEF Target, FileIsWritten
      <4> QED BY <1>1, <2>3, <4>1, <4>3
    <3>2. CASE \E i \in is : w = [place  |-> [store |-> Target, idx |-> base + i],
                                 record |-> [file |-> file, rec |-> base + i]]
      <4>1. PICK i \in is : w = [place  |-> [store |-> Target, idx |-> base + i],
                                 record |-> [file |-> file, rec |-> base + i]]
        BY <3>2
      <4>2. i \in Nat /\ i < n
        BY <1>1
      <4>3. base + i < base + n
        BY <1>1, <4>2
      <4> QED BY <2>3, <4>1, <4>3
    <3> QED BY <2>4, <3>1, <3>2
  <2>8. \A w \in store'.written : w.place.store = store'.cur => w.record.file = file
    <3> SUFFICES ASSUME NEW w \in store'.written, w.place.store = Target
                 PROVE  w.record.file = file
      BY <2>3
    <3>1. CASE w \in store.written
      BY <1>1, <3>1, TargetHoldsFile DEF WindowInv, StoreInv
    <3> QED BY <2>4, <3>1
  <2>9. base' <= sent' /\ store'.idx = base'
    BY <2>2, <2>3
  <2>10. FileIsWritten'
    BY <2>6, <2>7, <2>8, <2>9 DEF FileIsWritten, Known
  <2>11. base' \in Nat /\ base' <= StoreRecords
    <3>1. base + n \in Nat /\ base + n <= StoreRecords
      BY <1>1, <2>2, WindowAssumption
    <3> QED BY <3>1
  <2> QED BY <2>10, <2>11
<1> QED BY <1>1, <1>4, <1>5

LEMMA AddStep ==
    ASSUME WindowInv, NEW fd \in Sessions, fd \in active, chan[fd] # << >>,
           Head(chan[fd]).type = "put", chan' = [chan EXCEPT ![fd] = Tail(@)],
           NEW x, x = [file |-> Head(chan[fd]).file, rec |-> Head(chan[fd]).rec, fd |-> fd],
           ~ AlreadyStored(x.rec), ~ OutOfRange(x.rec), Add(x),
           UNCHANGED <<active, up, file, sent, closing, asker, nloss>>
    PROVE  WindowInv'
<1> DEFINE d  == x.rec - base
           sl == [slot EXCEPT ![d] = x]
<1>1. /\ x \in Slots /\ x.file = file /\ x.rec < sent /\ x.rec \in Nat /\ x.fd = fd
      /\ FileIsWritten /\ ~closing /\ file \in Files
  BY PutMeetsFile DEF Slots
<1>2. TypeInv /\ base \in Nat /\ sent \in Nat /\ sent <= StoreRecords
  BY FileStore DEF WindowInv
<1>3. d \in Indexes /\ x.rec = base + d
  BY <1>1, <1>2, WindowAssumption DEF AlreadyStored, OutOfRange, Indexes
<1>4. sl \in [Indexes -> Slots \cup {Empty}] /\ \A i \in Indexes : sl[i] = IF i = d THEN x ELSE slot[i]
  BY <1>1, <1>2, <1>3 DEF TypeInv
<1>5. \A i \in Indexes : sl[i] # Empty => SlotFits(sl[i], i)
  <2>1. SlotFits(x, d)
    BY <1>1, <1>3 DEF SlotFits
  <2>2. \A i \in Indexes : slot[i] # Empty => SlotFits(slot[i], i)
    BY SlotsFit
  <2> HIDE DEF d, sl
  <2> QED BY <1>4, <2>1, <2>2
<1>6. \A i \in Indexes : sl[i].fd = fd \/ sl[i].fd = slot[i].fd
  BY <1>1, <1>4
<1>7. PICK n \in Ready(sl) :
        /\ store' = Written(sl, 0 .. n - 1)
        /\ base' = base + n
        /\ Acknowledge({sl[i] : i \in 0 .. n - 1})
        /\ \/ AtGap(sl, n) /\ NoFail /\ slot' = Rotated(sl, n)
           \/ ~AtGap(sl, n) /\ Fail /\ slot' = Rotated([sl EXCEPT ![n] = Empty], n)
  BY DEF Add
<1> HIDE DEF d, sl
<1>8. n \in 0 .. Window /\ n \in Nat /\ 0 .. n - 1 \in SUBSET Indexes
      /\ \A i \in 0 .. n - 1 : SlotFits(sl[i], i)
  <2>1. n \in 0 .. Window /\ \A i \in 0 .. n - 1 : sl[i] # Empty
    BY <1>7 DEF Ready
  <2>2. 0 .. n - 1 \in SUBSET Indexes /\ n \in Nat
    BY <2>1, FrontSlots, WindowAssumption
  <2> QED BY <1>5, <2>1, <2>2
<1>9. FileIsWritten' /\ base' \in Nat /\ base' <= StoreRecords
  BY <1>1, <1>7, <1>8, FileAdvances
<1>10. /\ Writable(sl, 0 .. n - 1)
       /\ \A i \in 0 .. n - 1 : RecordOf(sl[i]) = [file |-> file, rec |-> base + i]
                                /\ RecordOf(sl[i]) \in Records
  BY <1>2, <1>8, FitsWritable
<1>11. /\ store' \in StoreType /\ WrittenIsBelow' /\ WrittenOnce' /\ StoreHoldsFile'
       /\ store.written \subseteq store'.written
       /\ \A i \in 0 .. n - 1 : \E w \in store'.written : w.record = [file |-> file, rec |-> base + i]
  <2>1. IsSound(store', file) /\ store' \in StoreType /\ store.written \subseteq store'.written
        /\ \A i \in 0 .. n - 1 : \E w \in store'.written : w.record = [file |-> file, rec |-> base + i]
    BY <1>1, <1>2, <1>7, <1>8, <1>10, StoreGrows DEF WindowInv, StoreInv
  <2> QED BY <2>1, SoundStore
<1>12. AckedWereWritten' /\ acked \subseteq acked' /\ acked' \subseteq Records
  <2>1. \A y \in {sl[i] : i \in 0 .. n - 1} :
          RecordOf(y) \in Records /\ \E w \in store'.written : w.record = RecordOf(y)
    BY <1>10, <1>11
  <2> QED BY <1>7, <1>11, <2>1, AcksKept
<1>13. \A i \in Indexes :
          \/ i + n \in Indexes /\ slot'[i] = sl[i + n]
          \/ slot'[i] = Empty
  <2>1. CASE slot' = Rotated(sl, n)
    BY <2>1 DEF Rotated
  <2>2. CASE slot' = Rotated([sl EXCEPT ![n] = Empty], n)
    BY <1>4, <2>2 DEF Rotated
  <2> QED BY <1>7, <2>1, <2>2
<1>14. slot' \in [Indexes -> Slots \cup {Empty}]
  <2>1. slot' = Rotated(sl, n) \/ slot' = Rotated([sl EXCEPT ![n] = Empty], n)
    BY <1>7
  <2>2. slot' = [i \in Indexes |-> slot'[i]]
    BY <2>1 DEF Rotated
  <2> QED BY <1>4, <1>13, <2>2
<1>15. nfault' \in Nat
  BY <1>2, <1>7 DEF NoFail, Fail, TypeInv
<1>16. \A i \in Indexes : slot'[i].fd \in {NoFd, fd} \/ \E j \in Indexes : slot'[i].fd = slot[j].fd
  BY <1>6, <1>13 DEF Empty
<1>17. ChanInv' /\ chan' \in [Sessions -> Seq(PDUs)]
  BY <1>16, PutTaken
<1>18. TypeInv'
  BY <1>2, <1>9, <1>11, <1>12, <1>14, <1>15, <1>17 DEF TypeInv
<1>19. SlotsAreCurrent' /\ SlotsAreSent'
  <2> SUFFICES ASSUME NEW i \in Indexes, slot'[i] # Empty
               PROVE  slot'[i].rec = base' + i /\ slot'[i].file = file /\ slot'[i].fd \in active
                      /\ slot'[i].rec < sent
    BY DEF SlotsAreCurrent, SlotsAreSent
  <2>1. i + n \in Indexes /\ slot'[i] = sl[i + n] /\ i \in Nat
    BY <1>13, WindowAssumption DEF Indexes
  <2>2. SlotFits(sl[i + n], i + n)
    BY <1>5, <2>1
  <2>3. slot'[i].rec = base + (i + n)
    BY <2>1, <2>2 DEF SlotFits
  <2>4. slot'[i].rec = base' + i
    BY <1>2, <1>7, <1>8, <2>1, <2>3
  <2> QED BY <2>1, <2>2, <2>4 DEF SlotFits
<1>20. FullIsClosed' /\ SyncIsDue'
  BY <1>1, <1>11, <1>12, DueKept DEF FullIsClosed
<1> QED BY <1>9, <1>11, <1>12, <1>17, <1>18, <1>19, <1>20
        DEF WindowInv, FileInv, StoreInv, BaseInv

LEMMA PutStep ==
    ASSUME WindowInv, NEW fd \in Sessions, fd \in active, chan[fd] # << >>,
           Head(chan[fd]).type = "put", chan' = [chan EXCEPT ![fd] = Tail(@)],
           PutRecord([file |-> Head(chan[fd]).file, rec |-> Head(chan[fd]).rec, fd |-> fd]),
           UNCHANGED nloss
    PROVE  WindowInv'
<1> DEFINE x == [file |-> Head(chan[fd]).file, rec |-> Head(chan[fd]).rec, fd |-> fd]
<1>1. /\ UNCHANGED <<active, up, file, sent, closing, asker, nloss>>
      /\ \/ AlreadyStored(x.rec) /\ NoFail /\ Acknowledge({x}) /\ UNCHANGED <<winVars, store>>
         \/ OutOfRange(x.rec) /\ NoFail /\ UNCHANGED <<winVars, store, acked>>
         \/ ~AlreadyStored(x.rec) /\ ~OutOfRange(x.rec) /\ Add(x)
  BY DEF PutRecord, cpVars
<1>2. CASE ~AlreadyStored(x.rec) /\ ~OutOfRange(x.rec) /\ Add(x)
  BY <1>1, <1>2, AddStep
<1>3. CASE \/ AlreadyStored(x.rec) /\ NoFail /\ Acknowledge({x}) /\ UNCHANGED <<winVars, store>>
           \/ OutOfRange(x.rec) /\ NoFail /\ UNCHANGED <<winVars, store, acked>>
  <2>1. UNCHANGED <<slot, base, store, nfault>>
    BY <1>3 DEF NoFail, winVars
  <2>2. TypeInv /\ x.file = file /\ x.rec \in Nat /\ x.rec \in Numbers /\ file \in Files
        /\ FileIsWritten /\ ~closing /\ base \in Nat /\ sent \in Nat
    BY PutMeetsFile, FileStore DEF WindowInv
  <2>3. AckedWereWritten' /\ acked \subseteq acked' /\ acked' \subseteq Records
    <3>1. CASE AlreadyStored(x.rec) /\ Acknowledge({x})
      <4>1. x.rec \in 0 .. base - 1
        BY <2>2, <3>1 DEF AlreadyStored
      <4>2. \E w \in store'.written : w.record = [file |-> file, rec |-> x.rec]
        BY <2>1, <2>2, <4>1 DEF FileIsWritten, Known
      <4>3. RecordOf(x) = [file |-> file, rec |-> x.rec] /\ RecordOf(x) \in Records
        BY <2>2 DEF RecordOf, Records
      <4> HIDE DEF x
      <4> QED BY <2>1, <3>1, <4>2, <4>3, AcksKept
    <3>2. CASE UNCHANGED acked
      BY <2>1, <2>2, <3>2 DEF WindowInv, StoreInv, AckedWereWritten, TypeInv
    <3> QED BY <1>3, <3>1, <3>2
  <2>4. ChanInv' /\ chan' \in [Sessions -> Seq(PDUs)]
    BY <1>1, <2>1, PutTaken
  <2>5. TypeInv'
    BY <1>1, <2>1, <2>2, <2>3, <2>4 DEF TypeInv
  <2>6. FileIsWritten'
    BY <1>1, <2>1, <2>2 DEF FileIsWritten, Known
  <2>7. SyncIsDue'
    BY <1>1, <2>1, <2>3, DueKept
  <2>8. SlotsAreCurrent' /\ SlotsAreSent' /\ FullIsClosed' /\ BaseInv'
    BY <1>1, <2>1 DEF WindowInv, FileInv, SlotsAreCurrent, SlotsAreSent, FullIsClosed, BaseInv
  <2>9. StoreInv'
    BY <1>1, <2>1, <2>3 DEF WindowInv, StoreInv, WrittenIsBelow, WrittenOnce, StoreHoldsFile
  <2> QED BY <2>4, <2>5, <2>6, <2>7, <2>8, <2>9 DEF WindowInv, FileInv
<1> QED BY <1>1, <1>2, <1>3

-----------------------------------------------------------------------------
(* The CP ends the file.                                                   *)

\* A change of the store keeps what is written.
LEMMA ChangedIsSound ==
    ASSUME NEW st \in StoreType, NEW f \in Nat, IsSound(st, f)
    PROVE  /\ StoreChanged(st) \in StoreType /\ IsSound(StoreChanged(st), f)
           /\ StoreChanged(st).written = st.written /\ StoreChanged(st).idx = 0
<1>1. CASE st.idx = 0
  BY <1>1 DEF StoreChanged
<1>2. CASE st.idx # 0
  <2>1. StoreChanged(st) = [cur |-> st.cur + 1, idx |-> 0, older |-> TRUE, written |-> st.written]
    BY <1>2 DEF StoreChanged, StoreType
  <2>2. StoreChanged(st) \in StoreType
    BY <2>1, WindowAssumption DEF StoreType
  <2>3. IsBelow(StoreChanged(st), f)
    <3>1. \A w \in st.written : w.place.store \in Nat /\ w.place.store <= st.cur
                                /\ w.record.file <= f
      BY DEF StoreType, IsSound, IsBelow
    <3>2. \A w \in st.written : w.place.store <= st.cur + 1 /\ w.place.store # st.cur + 1
      BY <3>1 DEF StoreType
    <3> QED BY <2>1, <3>1, <3>2 DEF IsBelow
  <2> QED BY <2>1, <2>2, <2>3 DEF IsSound, IsOnce, HoldsFile
<1> QED BY <1>1, <1>2

LEMMA SoundInNextFile ==
    ASSUME NEW st \in StoreType, NEW f \in Nat, IsSound(st, f)
    PROVE  IsSound(st, f + 1)
<1>1. \A w \in st.written : w.record.file \in Nat
  BY DEF StoreType, Records, Files
<1> QED BY <1>1 DEF IsSound, IsBelow

\* The CP has asked for the end; the last file of the stores is its own.
LEMMA UnlinkMeetsFile ==
    ASSUME WindowInv, NEW fd \in Sessions, chan[fd] # << >>,
           Head(chan[fd]).type \in {"unlinkfile", "unlinkall"}
    PROVE  /\ closing /\ file \in Files
           /\ Head(chan[fd]).type = "unlinkfile" =>
                 sent = StoreRecords /\ slot = NoSlots /\ store.idx \in {0, StoreRecords}
           /\ Head(chan[fd]).type = "unlinkall" => sent < StoreRecords
<1>1. /\ Len(chan[fd]) \in Nat /\ Len(chan[fd]) > 0 /\ Head(chan[fd]) = chan[fd][1]
      /\ Head(chan[fd]) \in PDUs
  BY PduTaken DEF WindowInv
<1>2. 1 \in 1 .. Len(chan[fd])
  BY <1>1
<1>3. PduIsAt(Head(chan[fd]), file, sent, closing)
  BY <1>1, <1>2 DEF WindowInv, ChanInv, PdusAreCurrent
<1>4. Head(chan[fd]).file \in Files
  BY <1>1 DEF PDUs
<1> QED BY <1>3, <1>4 DEF PduIsAt, WindowInv, FileInv, FullIsClosed

LEMMA UnlinkTaken ==
    ASSUME WindowInv, NEW fd \in Sessions, chan[fd] # << >>,
           Head(chan[fd]).type \in {"unlinkfile", "unlinkall"},
           chan' = [chan EXCEPT ![fd] = Tail(@)], slot' = NoSlots,
           NEW ok \in BOOLEAN, Answered(fd, ok), UNCHANGED <<active, up>>
    PROVE  ChanInv' /\ chan' \in [Sessions -> Seq(PDUs)]
<1>1. TypeInv
  BY DEF WindowInv
<1>2. /\ chan'[fd] = Tail(chan[fd]) /\ \A s \in Sessions \ {fd} : chan'[s] = chan[s]
      /\ chan' \in [Sessions -> Seq(PDUs)]
  BY <1>1, PduTaken DEF TypeInv
<1>3. /\ Len(chan[fd]) \in Nat /\ Len(chan[fd]) > 0
      /\ chan[fd][1].type \in {"unlinkfile", "unlinkall"}
      /\ Len(chan'[fd]) = Len(chan[fd]) - 1
      /\ \A k \in 1 .. Len(chan'[fd]) : k + 1 \in 1 .. Len(chan[fd]) /\ chan'[fd][k] = chan[fd][k + 1]
  BY <1>1, <1>2, PduTaken
<1>4. ~ SyncUnderWay(fd)
  <2> SUFFICES ASSUME SyncUnderWay(fd) PROVE FALSE
    OBVIOUS
  <2>1. Len(chan[fd]) = 1
    BY DEF WindowInv, ChanInv, SyncIsAlone
  <2>2. PICK k \in 1 .. Len(chan[fd]) : chan[fd][k].type = "sync"
    BY DEF SyncUnderWay
  <2>3. k = 1
    BY <2>1, <2>2
  <2> QED BY <1>3, <2>2, <2>3
<1>5. NoFd \notin Sessions
  BY WindowAssumption DEF NoFd
<1>6. asker = fd => Len(chan[fd]) = 1 /\ \A s \in Sessions \ {fd} : chan[s] = << >>
  BY <1>3, <1>5 DEF WindowInv, ChanInv, AskerWaits
<1>7. ConnectionsKnown'
  <2>1. fd \in active
    BY DEF WindowInv, ChanInv, ConnectionsKnown
  <2> QED BY <1>2, <2>1 DEF WindowInv, ChanInv, ConnectionsKnown, Answered
<1>8. PdusAreCurrent'
  <2> SUFFICES ASSUME NEW s \in Sessions, NEW k \in 1 .. Len(chan'[s])
               PROVE  PduIsAt(chan'[s][k], file', sent', closing')
    BY DEF PdusAreCurrent
  <2>1. CASE asker = fd
    <3>1. CASE s = fd
      <4>1. Len(chan'[fd]) = 0
        BY <1>3, <1>6, <2>1
      <4> QED BY <3>1, <4>1
    <3>2. CASE s # fd
      BY <1>2, <1>6, <2>1, <3>2, NoPdus
    <3> QED BY <3>1, <3>2
  <2>2. CASE asker # fd
    <3>1. UNCHANGED <<file, sent, closing>>
      BY <2>2 DEF Answered
    <3>2. CASE s = fd
      BY <1>3, <3>1, <3>2 DEF WindowInv, ChanInv, PdusAreCurrent
    <3>3. CASE s # fd
      BY <1>2, <3>1, <3>3 DEF WindowInv, ChanInv, PdusAreCurrent
    <3> QED BY <3>2, <3>3
  <2> QED BY <2>1, <2>2
<1>9. SyncIsAlone'
  <2> SUFFICES ASSUME NEW s \in Sessions, SyncUnderWay(s)'
               PROVE  /\ Len(chan'[s]) = 1 /\ sent' > 0 /\ chan'[s][1].rec = sent' - 1
                      /\ up' = {} \/ asker' # NoFd
                      /\ \A i \in Indexes : slot'[i].fd # s
    BY DEF SyncIsAlone
  <2>1. s # fd
    BY <1>3, <1>4 DEF SyncUnderWay
  <2>2. SyncUnderWay(s) /\ chan'[s] = chan[s]
    BY <1>2, <2>1 DEF SyncUnderWay
  <2>3. asker # fd
    BY <1>6, <2>1, <2>2, NoPdus DEF SyncUnderWay
  <2>4. UNCHANGED <<file, sent, closing, asker>>
    BY <2>3 DEF Answered
  <2>5. \A i \in Indexes : slot'[i].fd # s
    BY <1>5 DEF NoSlots, Empty
  <2> QED BY <2>2, <2>4, <2>5 DEF WindowInv, ChanInv, SyncIsAlone
<1>10. AskerWaits'
  <2> SUFFICES ASSUME asker' # NoFd
               PROVE  /\ Len(chan'[asker]) = 1 /\ chan'[asker][1].type # "put"
                      /\ IF chan'[asker][1].type = "sync" THEN up = {asker}
                         ELSE \A s \in Sessions \ {asker} : chan'[s] = << >>
                      /\ asker' = asker
    BY DEF AskerWaits
  <2>1. asker' = asker /\ asker # fd /\ asker \in Sessions
    BY <1>1 DEF Answered, TypeInv
  <2>2. /\ Len(chan[asker]) = 1 /\ chan[asker][1].type # "put"
        /\ IF chan[asker][1].type = "sync" THEN up = {asker}
           ELSE \A s \in Sessions \ {asker} : chan[s] = << >>
    BY <2>1 DEF WindowInv, ChanInv, AskerWaits
  <2>3. chan'[asker] = chan[asker] /\ chan[asker][1].type = "sync"
    BY <1>2, <2>1, <2>2
  <2> QED BY <2>1, <2>2, <2>3
<1> QED BY <1>2, <1>7, <1>8, <1>9, <1>10 DEF ChanInv

\* What waits behind a gap goes to the store of the file.
LEMMA WaitingWritten ==
    ASSUME WindowInv, file \in Files, NEW waiting \in SUBSET {i \in Indexes : slot[i] # Empty},
           NEW after, after = Written(slot, waiting)
    PROVE  /\ after \in StoreType /\ IsSound(after, file) /\ store.written \subseteq after.written
           /\ \A i \in waiting : /\ RecordOf(slot[i]) \in Records
                                 /\ \E w \in after.written : w.record = RecordOf(slot[i])
<1>1. CASE waiting = {}
  <2>1. after = store
    BY <1>1 DEF Written
  <2> QED BY <1>1, <2>1, SoundStore DEF WindowInv, StoreInv, TypeInv
<1>2. CASE waiting # {}
  <2>1. slot # NoSlots
    BY <1>2 DEF NoSlots
  <2>2. FileIsWritten
    BY <2>1 DEF WindowInv, FileInv, FileIsComplete, FileIsClosed
  <2>3. waiting \in SUBSET Indexes /\ \A i \in waiting : SlotFits(slot[i], i)
    BY SlotsFit
  <2>4. /\ Writable(slot, waiting)
        /\ \A i \in waiting : RecordOf(slot[i]) = [file |-> file, rec |-> base + i]
                              /\ RecordOf(slot[i]) \in Records
    BY <2>3, FitsWritable DEF WindowInv
  <2>5. /\ after \in StoreType /\ IsSound(after, file) /\ store.written \subseteq after.written
        /\ \A i \in waiting : \E w \in after.written : w.record = [file |-> file, rec |-> base + i]
    BY <2>2, <2>3, <2>4, StoreGrows DEF WindowInv, StoreInv
  <2> QED BY <2>4, <2>5
<1> QED BY <1>1, <1>2

LEMMA UnlinkStep ==
    ASSUME WindowInv, NEW fd \in Sessions, fd \in active, chan[fd] # << >>,
           Head(chan[fd]).type \in {"unlinkfile", "unlinkall"},
           chan' = [chan EXCEPT ![fd] = Tail(@)],
           NEW all, all = (Head(chan[fd]).type = "unlinkall"),
           Unlink(fd, all), UNCHANGED nloss
    PROVE  WindowInv'
<1>1. PICK lost \in SUBSET {i \in Indexes : slot[i] # Empty}, closed \in BOOLEAN, moved \in BOOLEAN :
        LET waiting == {i \in Indexes : slot[i] # Empty} \ lost
            after   == Written(slot, waiting)
            result  == \A j \in lost : \E i \in waiting : j < i
        IN  /\ closed \/ (all /\ after.idx # 0)
            /\ closed => moved
            /\ IF lost = {} /\ closed THEN NoFail ELSE Fail
            /\ store' = IF all /\ moved THEN StoreChanged(after) ELSE after
            /\ slot' = NoSlots /\ base' = 0
            /\ Acknowledge({slot[i] : i \in waiting})
            /\ Answered(fd, result /\ closed)
            /\ UNCHANGED <<active, up>>
  BY DEF Unlink
<1> DEFINE waiting == {i \in Indexes : slot[i] # Empty} \ lost
           after   == Written(slot, waiting)
           ok      == (\A j \in lost : \E i \in waiting : j < i) /\ closed
           over    == ok /\ asker = fd
<1>2. /\ closed => moved
      /\ store' = IF all /\ moved THEN StoreChanged(after) ELSE after
      /\ slot' = NoSlots /\ base' = 0
      /\ Acknowledge({slot[i] : i \in waiting})
      /\ Answered(fd, ok) /\ ok \in BOOLEAN
      /\ UNCHANGED <<active, up>>
  BY <1>1
<1>3. TypeInv /\ closing /\ file \in Files /\ file \in Nat /\ StoreRecords \in Nat
  BY UnlinkMeetsFile, FileStore DEF WindowInv
<1>4. /\ after \in StoreType /\ IsSound(after, file) /\ store.written \subseteq after.written
      /\ \A i \in waiting : /\ RecordOf(slot[i]) \in Records
                            /\ \E w \in after.written : w.record = RecordOf(slot[i])
  BY <1>3, WaitingWritten
<1>5. ~all => sent = StoreRecords /\ after = store /\ store.idx \in {0, StoreRecords}
  <2> SUFFICES ASSUME ~all PROVE sent = StoreRecords /\ after = store /\ store.idx \in {0, StoreRecords}
    OBVIOUS
  <2>1. sent = StoreRecords /\ slot = NoSlots /\ store.idx \in {0, StoreRecords}
    BY UnlinkMeetsFile
  <2>2. waiting = {}
    BY <2>1 DEF NoSlots
  <2> QED BY <2>1, <2>2 DEF Written
<1>6. all => sent < StoreRecords
  BY UnlinkMeetsFile
<1>7. nfault' \in Nat
  BY <1>1, <1>3 DEF NoFail, Fail, TypeInv
<1>8. /\ over => file' = file + 1 /\ sent' = 0 /\ closing' = FALSE /\ asker' = NoFd /\ closed
      /\ ~over => /\ UNCHANGED <<file, sent, closing>>
                  /\ asker' \in {asker, NoFd}
  BY <1>2 DEF Answered
<1> HIDE DEF waiting, after, ok, over
<1>9. /\ store' \in StoreType /\ IsSound(store', file) /\ store'.written = after.written
      /\ all /\ moved => store'.idx = 0
      /\ ~all => store' = store
  <2>1. CASE all /\ moved
    BY <1>2, <1>3, <1>4, <2>1, ChangedIsSound
  <2>2. CASE ~(all /\ moved)
    BY <1>2, <1>4, <1>5, <2>2
  <2> QED BY <2>1, <2>2
<1>10. WrittenIsBelow' /\ WrittenOnce' /\ StoreHoldsFile'
  <2>1. IsSound(store', file')
    <3>1. CASE over
      BY <1>3, <1>8, <1>9, <3>1, SoundInNextFile
    <3>2. CASE ~over
      BY <1>8, <1>9, <3>2
    <3> QED BY <3>1, <3>2
  <2> QED BY <2>1, SoundStore
<1>11. AckedWereWritten' /\ acked' \subseteq Records
  <2>1. \A x \in {slot[i] : i \in waiting} :
          RecordOf(x) \in Records /\ \E w \in store'.written : w.record = RecordOf(x)
    BY <1>4, <1>9
  <2> QED BY <1>2, <1>4, <1>9, <2>1, AcksKept
<1>12. ChanInv' /\ chan' \in [Sessions -> Seq(PDUs)]
  BY <1>2, UnlinkTaken
<1>13. TypeInv'
  <2>1. slot' \in [Indexes -> Slots \cup {Empty}] /\ base' \in Nat
    BY <1>2 DEF NoSlots
  <2>2. /\ file' \in 1 .. MaxFiles + 1 /\ sent' \in 0 .. StoreRecords /\ closing' \in BOOLEAN
        /\ asker' \in Sessions \cup {NoFd}
        /\ sent' > 0 \/ asker' # NoFd => file' \in Files
    <3>1. CASE over
      <4>1. file + 1 \in 1 .. MaxFiles + 1 /\ 0 \in 0 .. StoreRecords
        BY <1>3, WindowAssumption DEF Files
      <4>2. file' = file + 1 /\ sent' = 0 /\ closing' = FALSE /\ asker' = NoFd
        BY <1>8, <3>1
      <4>3. ~ (sent' > 0 \/ asker' # NoFd)
        BY <4>2
      <4> QED BY <4>1, <4>2, <4>3
    <3>2. CASE ~over
      BY <1>3, <1>8, <3>2 DEF TypeInv
    <3> QED BY <3>1, <3>2
  <2> QED BY <1>2, <1>3, <1>7, <1>9, <1>11, <1>12, <2>1, <2>2 DEF TypeInv
<1>14. (FileIsWritten \/ FileIsClosed)'
  <2>1. CASE over
    <3>1. store'.idx \in {0, StoreRecords}
      <4>1. closed /\ moved
        BY <1>2, <1>8, <2>1
      <4> QED BY <1>5, <1>9, <4>1
    <3>2. \A w \in store'.written : w.record.file \in Nat /\ w.record.file <= file
      BY <1>9 DEF IsSound, IsBelow, StoreType, Records, Files
    <3>3. \A w \in store'.written : w.record.file # file'
      BY <1>3, <1>8, <2>1, <3>2
    <3>4. \A r \in 0 .. base' - 1 : FALSE
      BY <1>2
    <3>5. base' = 0 /\ sent' = 0
      BY <1>2, <1>8, <2>1
    <3> QED BY <3>1, <3>3, <3>4, <3>5 DEF FileIsWritten
  <2>2. CASE ~over
    BY <1>2, <1>3, <1>8, <2>2 DEF FileIsClosed
  <2> QED BY <2>1, <2>2
<1>15. FullIsClosed'
  <2>1. CASE over
    BY <1>8, <2>1 DEF FullIsClosed
  <2>2. CASE ~over
    <3>1. sent = StoreRecords => ~all
      BY <1>3, <1>6
    <3> QED BY <1>2, <1>5, <1>8, <1>9, <2>2, <3>1 DEF FullIsClosed
  <2> QED BY <2>1, <2>2
<1>16. SlotsAreCurrent' /\ SlotsAreSent'
  BY <1>2 DEF SlotsAreCurrent, SlotsAreSent, NoSlots
<1>17. SyncIsDue'
  <2>1. sent' = 0 \/ closing'
    BY <1>3, <1>8
  <2>2. ~ (~closing' /\ sent' > 0)
    BY <2>1
  <2> QED BY <2>2 DEF SyncIsDue
<1>18. BaseInv'
  BY <1>2, <1>3 DEF BaseInv
<1> QED BY <1>10, <1>11, <1>12, <1>13, <1>14, <1>15, <1>16, <1>17, <1>18
        DEF WindowInv, FileInv, StoreInv

-----------------------------------------------------------------------------
(* The CP synchronises.                                                    *)

\* Unsigned numbers that stay below the limit.
LEMMA NumbersNear ==
    ASSUME NEW n \in 0 .. StoreRecords
    PROVE  /\ Inc(n) = n + 1
           /\ n > 0 => Dec(n) = n - 1
           /\ Dec(0) = NumberLimit - 1 /\ Inc(Dec(0)) = 0
           /\ NumberLimit - 1 > StoreRecords
<1> DEFINE N == NumberLimit
<1>1. N \in Nat \ {0} /\ N > StoreRecords + 1 /\ StoreRecords \in Nat /\ n \in Nat
  BY WindowAssumption
<1> HIDE DEF N
<1>2. n + 1 \in 0 .. N - 1 /\ N - 1 \in 0 .. N - 1 /\ 0 \in 0 .. N - 1 /\ N - 1 > StoreRecords
  BY <1>1
<1>3. (n + 1) % N = n + 1 /\ (N - 1) % N = N - 1
  BY <1>1, <1>2, QuotientsBelow
<1>4. (N + 0) % N = 0
  BY <1>1, <1>2, QuotientsAbove
<1>5. n > 0 => (n + N - 1) % N = n - 1
  <2> SUFFICES ASSUME n > 0 PROVE (n + N - 1) % N = n - 1
    OBVIOUS
  <2>1. n - 1 \in 0 .. N - 1
    BY <1>1
  <2>2. (N + (n - 1)) % N = n - 1
    BY <1>1, <2>1, QuotientsAbove
  <2>3. N + (n - 1) = n + N - 1
    BY <1>1
  <2> QED BY <2>2, <2>3
<1>6. 0 + N - 1 = N - 1 /\ (N - 1) + 1 = N + 0
  BY <1>1
<1>7. Inc(n) = n + 1 /\ Dec(0) = N - 1
  BY <1>3, <1>6 DEF Inc, Dec, N
<1>8. n > 0 => Dec(n) = n - 1
  BY <1>5 DEF Dec, N
<1>9. Inc(N - 1) = 0
  BY <1>4, <1>6 DEF Inc, N
<1> QED BY <1>2, <1>7, <1>8, <1>9 DEF N

\* The index after a synchronisation: that of the writer, or beyond it.
LEMMA LastIndex ==
    ASSUME NEW i \in Numbers, NEW older \in BOOLEAN, NEW r \in Numbers
    PROVE  /\ Inc(LastStored(i, older, r)) \in i .. StoreRecords
           /\ i = 0 => /\ Inc(LastStored(i, older, r)) \in {0, r + 1}
                       /\ Missing(r, LastStored(i, older, r)) = {}
           /\ i > 0 /\ r + 2 - i <= Window => LastStored(i, older, r) = i - 1
<1>1. /\ i \in Nat /\ i < StoreRecords /\ r \in Nat /\ r < StoreRecords
      /\ StoreRecords \in Nat /\ Window \in Nat /\ Window > 0 /\ NumberLimit \in Nat
  BY WindowAssumption DEF Numbers
<1>2. i \in 0 .. StoreRecords /\ r \in 0 .. StoreRecords
  BY <1>1
<1>3. NumberLimit - 1 > StoreRecords /\ Inc(NumberLimit - 1) = 0 /\ Dec(0) = NumberLimit - 1
  BY <1>2, NumbersNear
<1>4. CASE i = 0 /\ ~older
  <2>1. LastStored(i, older, r) = r
    BY <1>4 DEF LastStored
  <2>2. Inc(r) = r + 1
    BY <1>2, NumbersNear
  <2> QED BY <1>1, <1>4, <2>1, <2>2 DEF Missing
<1>5. CASE i = 0 /\ older
  <2>1. ~ Beyond(r, Dec(i))
    BY <1>1, <1>3, <1>5 DEF Beyond
  <2>2. LastStored(i, older, r) = NumberLimit - 1
    BY <1>3, <1>5, <2>1 DEF LastStored
  <2>3. ~ (LastStored(i, older, r) < r)
    BY <1>1, <1>3, <2>2
  <2>4. Missing(r, LastStored(i, older, r)) = {}
    BY <2>3 DEF Missing
  <2>5. Inc(LastStored(i, older, r)) = 0 /\ 0 \in 0 .. StoreRecords
    BY <1>1, <1>3, <2>2
  <2>6. ~ (i > 0) /\ i .. StoreRecords = 0 .. StoreRecords
    BY <1>5
  <2> QED BY <2>4, <2>5, <2>6
<1>6. CASE i > 0
  <2>1. Dec(i) = i - 1 /\ i # 0
    BY <1>1, <1>2, <1>6, NumbersNear
  <2>2. CASE Beyond(r, i - 1)
    <3>1. LastStored(i, older, r) = r - Window + 1
      BY <2>1, <2>2 DEF LastStored
    <3>2. r - (i - 1) + 1 > Window
      BY <2>2 DEF Beyond
    <3>3. r - Window + 1 \in 0 .. StoreRecords - 1 /\ r - Window + 1 >= i
      BY <1>1, <3>2
    <3>4. Inc(r - Window + 1) = (r - Window + 1) + 1
      BY <1>1, <3>3, NumbersNear
    <3> QED BY <1>1, <1>6, <3>1, <3>2, <3>3, <3>4
  <2>3. CASE ~ Beyond(r, i - 1)
    <3>1. LastStored(i, older, r) = i - 1
      BY <2>1, <2>3 DEF LastStored
    <3>2. i - 1 \in 0 .. StoreRecords
      BY <1>1, <1>6
    <3>3. Inc(i - 1) = (i - 1) + 1
      BY <3>2, NumbersNear
    <3> QED BY <1>1, <1>6, <3>1, <3>3
  <2> QED BY <2>2, <2>3
<1> QED BY <1>1, <1>4, <1>5, <1>6

LEMMA OpenStoreSound ==
    ASSUME TypeInv, IsSound(store, file), NEW st \in OpenStore
    PROVE  /\ st \in StoreType /\ IsSound(st, file) /\ st.written = store.written
           /\ st.idx \in Numbers /\ st.older \in BOOLEAN
           /\ store.idx < StoreRecords => st = store
           /\ store.idx \in {0, StoreRecords} => st.idx = 0
<1>1. store \in StoreType /\ file \in Nat /\ StoreRecords \in Nat /\ StoreRecords > 0
      /\ store.idx \in 0 .. StoreRecords
  BY FileStore DEF TypeInv, StoreType
<1>2. CASE store.idx < StoreRecords
  <2>1. st = store
    BY <1>2 DEF OpenStore
  <2> QED BY <1>1, <1>2, <2>1 DEF StoreType, Numbers
<1>3. CASE ~ (store.idx < StoreRecords)
  <2>1. PICK o \in BOOLEAN : st = [StoreChanged(store) EXCEPT !.older = o]
    BY <1>3 DEF OpenStore
  <2>2. StoreChanged(store) \in StoreType /\ IsSound(StoreChanged(store), file)
        /\ StoreChanged(store).written = store.written /\ StoreChanged(store).idx = 0
    BY <1>1, ChangedIsSound
  <2>3. /\ st \in StoreType /\ st.written = store.written /\ st.idx = 0 /\ st.older = o
        /\ st.cur = StoreChanged(store).cur
    BY <2>1, <2>2 DEF StoreType
  <2>4. IsSound(st, file)
    BY <2>2, <2>3 DEF IsSound, IsBelow, IsOnce, HoldsFile
  <2> QED BY <1>1, <1>3, <2>3, <2>4 DEF Numbers
<1> QED BY <1>2, <1>3

LEMMA IndexMoved ==
    ASSUME NEW st \in StoreType, NEW f \in Nat, IsSound(st, f), NEW n \in st.idx .. StoreRecords
    PROVE  /\ [st EXCEPT !.idx = n] \in StoreType /\ IsSound([st EXCEPT !.idx = n], f)
           /\ [st EXCEPT !.idx = n].written = st.written /\ [st EXCEPT !.idx = n].idx = n
           /\ n \in 0 .. StoreRecords
<1> DEFINE new == [st EXCEPT !.idx = n]
<1>1. st.idx \in Nat /\ StoreRecords \in Nat /\ n \in 0 .. StoreRecords /\ st.idx <= n
  BY WindowAssumption DEF StoreType
<1>2. new \in StoreType /\ new.written = st.written /\ new.idx = n /\ new.cur = st.cur
  BY <1>1 DEF StoreType
<1> HIDE DEF new
<1>3. IsBelow(new, f)
  <2> SUFFICES ASSUME NEW w \in st.written, w.place.store = st.cur PROVE w.place.idx < n
    BY <1>2 DEF IsSound, IsBelow
  <2>1. w.place.idx < st.idx /\ w.place.idx \in Nat
    BY DEF IsSound, IsBelow, StoreType, Numbers
  <2> QED BY <1>1, <2>1
<1>4. IsOnce(new) /\ HoldsFile(new)
  BY <1>2 DEF IsSound, IsOnce, HoldsFile
<1> QED BY <1>1, <1>2, <1>3, <1>4 DEF IsSound, new

\* What was sent beyond the base is not acknowledged: less than the window.
LEMMA AheadIsWithinWindow ==
    ASSUME WindowInv, FileIsWritten, FileKnown, Cardinality(Unacked) <= SyncUnacked,
           SyncsWithinWindow
    PROVE  base > 0 /\ store.idx = base /\ sent - base < Window
<1>1. TypeInv /\ base \in Nat /\ sent \in Nat /\ base <= sent /\ Window \in Nat /\ SyncUnacked \in Nat
  BY FileStore, WindowAssumption DEF WindowInv, FileIsWritten
<1>2. base > 0
  <2>1. PICK w \in store.written : w.record = [file |-> file, rec |-> 0]
    BY DEF FileKnown
  <2>2. w.record.file = file /\ w.record.rec = 0
    BY <2>1
  <2>3. w.record.rec < base
    BY <2>2 DEF FileIsWritten
  <2> QED BY <2>2, <2>3
<1>3. base .. sent - 1 \subseteq Unacked
  <2> SUFFICES ASSUME NEW n \in base .. sent - 1, [file |-> file, rec |-> n] \in acked PROVE FALSE
    BY <1>1 DEF Unacked
  <2>1. PICK w \in store.written : w.record = [file |-> file, rec |-> n]
    BY DEF WindowInv, StoreInv, AckedWereWritten
  <2>2. w.record.file = file /\ w.record.rec = n
    BY <2>1
  <2>3. n < base
    BY <2>2 DEF FileIsWritten
  <2> QED BY <1>1, <2>3
<1>4. IsFiniteSet(base .. sent - 1) /\ Cardinality(base .. sent - 1) = IF base > sent - 1 THEN 0 ELSE (sent - 1) - base + 1
  BY <1>1, FS_Interval
<1>5. Cardinality(base .. sent - 1) <= Cardinality(Unacked) /\ Cardinality(Unacked) \in Nat
  BY <1>1, <1>3, UnackedFinite, FS_Subset
<1>6. sent - base <= Cardinality(Unacked)
  BY <1>1, <1>4, <1>5
<1>7. sent - base < Window
  BY <1>1, <1>5, <1>6 DEF SyncsWithinWindow
<1>8. store.idx = base
  BY <1>1, <1>2 DEF FileIsWritten
<1> QED BY <1>2, <1>7, <1>8

\* A SYNCHRONIZE finds the window empty of its connection's records and the CP
\* waiting for it, or gone.
LEMMA SyncMeetsFile ==
    ASSUME WindowInv, NEW fd \in Sessions, chan[fd] # << >>, Head(chan[fd]).type = "sync"
    PROVE  /\ Head(chan[fd]).rec = sent - 1 /\ sent - 1 \in Numbers /\ sent > 0 /\ file \in Files
           /\ Tail(chan[fd]) = << >>
           /\ CleanedExcept(fd) = NoSlots
           /\ up = {} \/ asker # NoFd
           /\ asker # fd => up \cap {fd} = {}
<1>1. TypeInv /\ sent \in Nat /\ sent <= StoreRecords /\ StoreRecords \in Nat
  BY FileStore DEF WindowInv
<1>2. /\ Len(chan[fd]) \in Nat /\ Len(chan[fd]) > 0 /\ Head(chan[fd]) = chan[fd][1]
      /\ Tail(chan[fd]) \in Seq(PDUs) /\ Len(Tail(chan[fd])) = Len(chan[fd]) - 1
  BY <1>1, PduTaken
<1>3. SyncUnderWay(fd)
  <2>1. 1 \in 1 .. Len(chan[fd]) /\ chan[fd][1].type = "sync"
    BY <1>2
  <2> QED BY <2>1 DEF SyncUnderWay
<1>4. /\ Len(chan[fd]) = 1 /\ sent > 0 /\ chan[fd][1].rec = sent - 1
      /\ up = {} \/ asker # NoFd
      /\ \A i \in Indexes : slot[i].fd # fd
  BY <1>3 DEF WindowInv, ChanInv, SyncIsAlone
<1>5. Tail(chan[fd]) = << >>
  <2>1. Len(Tail(chan[fd])) = 0
    BY <1>2, <1>4
  <2> QED BY <1>2, <2>1, EmptySeq
<1>6. CleanedExcept(fd) = NoSlots
  BY <1>4 DEF CleanedExcept, NoSlots
<1>7. asker # fd => up \cap {fd} = {}
  <2> SUFFICES ASSUME asker # fd, up # {} PROVE fd \notin up
    OBVIOUS
  <2>1. asker # NoFd
    BY <1>4
  <2>2. IF chan[asker][1].type = "sync" THEN up = {asker}
        ELSE \A s \in Sessions \ {asker} : chan[s] = << >>
    BY <2>1 DEF WindowInv, ChanInv, AskerWaits
  <2> QED BY <2>2
<1>8. sent - 1 \in Numbers /\ file \in Files
  BY <1>1, <1>4 DEF Numbers, TypeInv
<1> QED BY <1>2, <1>4, <1>5, <1>6, <1>7, <1>8

LEMMA SyncTaken ==
    ASSUME WindowInv, NEW fd \in Sessions, chan' = [s \in Sessions |-> << >>],
           active' = {fd}, up' \subseteq {fd}, asker' = NoFd
    PROVE  ChanInv' /\ chan' \in [Sessions -> Seq(PDUs)]
<1>1. chan' \in [Sessions -> Seq(PDUs)] /\ \A s \in Sessions : chan'[s] = << >>
  BY EmptySeq
<1>2. ConnectionsKnown' /\ AskerWaits'
  BY <1>1 DEF ConnectionsKnown, AskerWaits
<1>3. PdusAreCurrent' /\ SyncIsAlone'
  BY <1>1, NoPdus DEF PdusAreCurrent, SyncIsAlone, SyncUnderWay
<1> QED BY <1>1, <1>2, <1>3 DEF ChanInv

\* What the CP takes for stored is written: either the base is where it was, below
\* the end of the store, or all the records of the file were written.
LEMMA SyncFindsRecords ==
    ASSUME WindowInv, SyncsWithinWindow, NEW fd \in Sessions, chan[fd] # << >>,
           Head(chan[fd]).type = "sync", ~closing, NEW st \in OpenStore,
           NEW last, last = LastStored(st.idx, st.older, sent - 1)
    PROVE  \/ /\ FileIsWritten /\ st = store /\ Inc(last) = base /\ store.idx = base
              /\ \A n \in (0 .. sent - 1) \ Missing(sent - 1, last) : Known(n)
           \/ /\ sent = StoreRecords /\ store.idx \in {0, StoreRecords}
              /\ \A n \in Numbers : Known(n)
              /\ Missing(sent - 1, last) = {} /\ Inc(last) \in {0, StoreRecords}
<1>1. /\ TypeInv /\ sent - 1 \in Numbers /\ sent \in Nat /\ base \in Nat /\ StoreRecords \in Nat
      /\ StoreRecords > 0 /\ Window \in Nat /\ sent > 0
      /\ up = {} \/ asker # NoFd
  BY FileStore, SyncMeetsFile, WindowAssumption DEF WindowInv
<1>2. IsSound(store, file)
  BY SoundStore DEF WindowInv, StoreInv
<1>3. FileKnown /\ Cardinality(Unacked) <= SyncUnacked
  BY <1>1 DEF WindowInv, FileInv, SyncIsDue
<1>4. /\ st.idx \in Numbers /\ st.older \in BOOLEAN
      /\ store.idx < StoreRecords => st = store
      /\ store.idx \in {0, StoreRecords} => st.idx = 0
  BY <1>1, <1>2, OpenStoreSound
<1>5. ASSUME sent = StoreRecords, store.idx \in {0, StoreRecords}
      PROVE  Missing(sent - 1, last) = {} /\ Inc(last) \in {0, StoreRecords}
  <2>1. Inc(last) \in {0, (sent - 1) + 1} /\ Missing(sent - 1, last) = {}
    BY <1>1, <1>4, <1>5, LastIndex
  <2> QED BY <1>1, <1>5, <2>1
<1>6. CASE FileIsWritten
  <2>1. base > 0 /\ store.idx = base /\ sent - base < Window /\ base <= sent
    BY <1>3, <1>6, AheadIsWithinWindow DEF FileIsWritten
  <2>2. \A n \in 0 .. base - 1 : Known(n)
    BY <1>6 DEF FileIsWritten
  <2>3. CASE base < StoreRecords
    <3>1. st = store
      BY <1>4, <2>1, <2>3
    <3>2. last = base - 1
      <4>1. st.idx > 0 /\ (sent - 1) + 2 - st.idx <= Window
        BY <1>1, <2>1, <3>1
      <4> QED BY <1>1, <1>4, <2>1, <3>1, <4>1, LastIndex
    <3>3. Inc(last) = base
      <4>1. base - 1 \in 0 .. StoreRecords /\ (base - 1) + 1 = base
        BY <1>1, <2>1, <2>3
      <4> QED BY <3>2, <4>1, NumbersNear
    <3>4. \A n \in (0 .. sent - 1) \ Missing(sent - 1, last) : n \in 0 .. base - 1
      <4> SUFFICES ASSUME NEW n \in 0 .. sent - 1, n \notin Missing(sent - 1, last), n >= base
                   PROVE  FALSE
        BY <1>1
      <4>1. last < sent - 1 /\ ~ ((sent - 1) - last + 1 > Window)
        BY <1>1, <2>1, <3>2
      <4>2. Missing(sent - 1, last) = last .. sent - 1
        BY <4>1 DEF Missing
      <4> QED BY <1>1, <3>2, <4>2
    <3> QED BY <1>6, <2>1, <2>2, <3>1, <3>3, <3>4
  <2>4. CASE ~ (base < StoreRecords)
    <3>1. sent = StoreRecords /\ base = StoreRecords
      BY <1>1, <2>1, <2>4 DEF TypeInv
    <3>2. \A n \in Numbers : Known(n)
      BY <2>2, <3>1 DEF Numbers
    <3> QED BY <1>5, <2>1, <3>1, <3>2
  <2> QED BY <2>3, <2>4
<1>7. CASE FileIsComplete
  BY <1>5, <1>7 DEF FileIsComplete
<1>8. ~ FileIsClosed
  BY DEF FileIsClosed
<1> QED BY <1>6, <1>7, <1>8 DEF WindowInv, FileInv

\* After a SYNCHRONIZE that succeeds.
LEMMA SyncDoneStep ==
    ASSUME WindowInv, SyncsWithinWindow, NEW fd \in Sessions, fd \in active, chan[fd] # << >>,
           Head(chan[fd]).type = "sync", chan' = [s \in Sessions |-> << >>],
           NEW st \in OpenStore,
           NEW last, last = LastStored(st.idx, st.older, sent - 1),
           base' = Inc(last), store' = [st EXCEPT !.idx = Inc(last)],
           acked' = IF asker = fd /\ ~closing
                    THEN acked \cup {[file |-> file, rec |-> n] :
                                         n \in (0 .. sent - 1) \ Missing(sent - 1, last)}
                    ELSE acked,
           up' = up \cap {fd}, slot' = NoSlots, active' = {fd}, asker' = NoFd,
           UNCHANGED <<file, sent, closing, nfault, nloss>>
    PROVE  WindowInv'
<1>1. /\ TypeInv /\ sent - 1 \in Numbers /\ sent \in Nat /\ file \in Nat /\ StoreRecords \in Nat
      /\ sent > 0 /\ file \in Files /\ StoreRecords > 0
      /\ asker # fd => up \cap {fd} = {}
      /\ up = {} \/ asker # NoFd
  BY FileStore, SyncMeetsFile DEF WindowInv
<1>2. /\ st \in StoreType /\ IsSound(st, file) /\ st.written = store.written
      /\ st.idx \in Numbers /\ st.older \in BOOLEAN
      /\ store.idx < StoreRecords => st = store
      /\ store.idx \in {0, StoreRecords} => st.idx = 0
  <2>1. IsSound(store, file)
    BY SoundStore DEF WindowInv, StoreInv
  <2> QED BY <1>1, <2>1, OpenStoreSound
<1>3. Inc(last) \in st.idx .. StoreRecords
      /\ (st.idx = 0 => Inc(last) \in {0, (sent - 1) + 1})
  BY <1>1, <1>2, LastIndex
<1>4. /\ store' \in StoreType /\ IsSound(store', file) /\ store'.written = store.written
      /\ store'.idx = base' /\ base' \in 0 .. StoreRecords
  BY <1>1, <1>2, <1>3, IndexMoved
<1>5. WrittenIsBelow' /\ WrittenOnce' /\ StoreHoldsFile'
  BY <1>4, SoundStore
<1>6. ~closing =>
        \/ /\ FileIsWritten /\ st = store /\ Inc(last) = base /\ store.idx = base
           /\ \A n \in (0 .. sent - 1) \ Missing(sent - 1, last) : Known(n)
        \/ /\ sent = StoreRecords /\ store.idx \in {0, StoreRecords}
           /\ \A n \in Numbers : Known(n)
           /\ Missing(sent - 1, last) = {} /\ Inc(last) \in {0, StoreRecords}
  BY SyncFindsRecords
<1>7. \A n \in 0 .. sent - 1 : n \in Numbers
  BY <1>1 DEF Numbers
<1>8. AckedWereWritten' /\ acked \subseteq acked' /\ acked' \subseteq Records
  <2>1. CASE asker = fd /\ ~closing
    <3>1. \A n \in (0 .. sent - 1) \ Missing(sent - 1, last) :
             Known(n) /\ [file |-> file, rec |-> n] \in Records
      BY <1>1, <1>6, <1>7, <2>1 DEF Records
    <3>2. \A n \in (0 .. sent - 1) \ Missing(sent - 1, last) :
             \E w \in store.written : w.record = [file |-> file, rec |-> n]
      BY <3>1 DEF Known
    <3>3. \A x \in acked' : x \in acked \/ \E n \in (0 .. sent - 1) \ Missing(sent - 1, last) :
                                              x = [file |-> file, rec |-> n]
      BY <2>1
    <3>4. acked \subseteq acked' /\ acked' \subseteq Records
      BY <1>1, <2>1, <3>1, <3>3 DEF TypeInv
    <3>5. \A x \in acked' : \E w \in store.written : w.record = x
      BY <3>2, <3>3 DEF WindowInv, StoreInv, AckedWereWritten
    <3> QED BY <1>4, <3>4, <3>5 DEF AckedWereWritten
  <2>2. CASE ~ (asker = fd /\ ~closing)
    <3>1. acked' = acked
      BY <2>2
    <3> QED BY <1>1, <1>4, <3>1 DEF WindowInv, StoreInv, AckedWereWritten, TypeInv
  <2> QED BY <2>1, <2>2
<1>9. ChanInv' /\ chan' \in [Sessions -> Seq(PDUs)]
  BY SyncTaken
<1>10. TypeInv'
  <2>1. slot' \in [Indexes -> Slots \cup {Empty}]
    BY DEF NoSlots
  <2>2. base' \in Nat
    BY <1>1, <1>4
  <2>3. active' \subseteq Sessions /\ up' \subseteq Sessions
    BY <1>1 DEF TypeInv
  <2> QED BY <1>1, <1>4, <1>8, <1>9, <2>1, <2>2, <2>3 DEF TypeInv
<1>11. (FileIsWritten \/ FileIsComplete \/ FileIsClosed)'
  <2>1. CASE closing
    BY <2>1 DEF FileIsClosed
  <2>2. CASE ~closing /\ FileIsWritten /\ st = store /\ Inc(last) = base /\ store.idx = base
    <3>1. store'.cur = store.cur
      BY <1>2, <2>2 DEF StoreType
    <3>2. base' = base /\ store'.idx = base
      BY <1>4, <2>2
    <3> QED BY <1>4, <2>2, <3>1, <3>2 DEF FileIsWritten, Known
  <2>3. CASE /\ ~closing /\ sent = StoreRecords /\ store.idx \in {0, StoreRecords}
             /\ \A n \in Numbers : Known(n)
             /\ Missing(sent - 1, last) = {} /\ Inc(last) \in {0, StoreRecords}
    <3>1. \A n \in Numbers : Known(n)'
      BY <1>4, <2>3 DEF Known
    <3>2. \A s \in Sessions : \A k \in 1 .. Len(chan'[s]) : chan'[s][k].type # "put"
      BY NoPdus
    <3>3. Unacked' = {} \/ up' = {}
      <4>1. CASE asker = fd
        <5>1. \A n \in 0 .. sent - 1 : [file |-> file, rec |-> n] \in acked'
          BY <2>3, <4>1
        <5> QED BY <5>1 DEF Unacked
      <4>2. CASE asker # fd
        BY <1>1, <4>2
      <4> QED BY <4>1, <4>2
    <3>4. base' <= StoreRecords /\ store'.idx \in {0, StoreRecords}
      BY <1>1, <1>4, <2>3
    <3> QED BY <2>3, <3>1, <3>2, <3>3, <3>4 DEF FileIsComplete
  <2> QED BY <1>6, <2>1, <2>2, <2>3
<1>12. FullIsClosed'
  <2> SUFFICES ASSUME closing, sent = StoreRecords PROVE store'.idx \in {0, StoreRecords}
    BY DEF FullIsClosed
  <2>1. st.idx = 0
    BY <1>2 DEF WindowInv, FileInv, FullIsClosed
  <2>2. Inc(last) \in {0, StoreRecords}
    BY <1>1, <1>3, <2>1
  <2> QED BY <1>4, <2>2
<1>13. SlotsAreCurrent' /\ SlotsAreSent'
  BY DEF SlotsAreCurrent, SlotsAreSent, NoSlots
<1>14. SyncIsDue'
  <2> SUFFICES ASSUME ~closing PROVE FileKnown' /\ Cardinality(Unacked') <= SyncUnacked
    BY DEF SyncIsDue
  <2>1. FileKnown /\ Cardinality(Unacked) <= SyncUnacked
    BY <1>1 DEF WindowInv, FileInv, SyncIsDue
  <2>2. FileKnown'
    BY <1>4, <2>1 DEF FileKnown
  <2>3. Cardinality(Unacked') <= Cardinality(Unacked) /\ Cardinality(Unacked') \in Nat
        /\ Cardinality(Unacked) \in Nat /\ SyncUnacked \in Nat
    BY <1>1, <1>8, FewerUnacked, UnackedFinite, WindowAssumption
  <2> QED BY <2>1, <2>2, <2>3
<1>15. BaseInv'
  BY <1>1, <1>4 DEF BaseInv
<1> QED BY <1>5, <1>8, <1>9, <1>10, <1>11, <1>12, <1>13, <1>14, <1>15
        DEF WindowInv, FileInv, StoreInv

\* After one that fails, for which the CP reconnects.
LEMMA SyncFailedStep ==
    ASSUME WindowInv, NEW fd \in Sessions, fd \in active, chan[fd] # << >>,
           Head(chan[fd]).type = "sync", chan' = [s \in Sessions |-> << >>],
           Fail, up' = {}, UNCHANGED <<base, store, acked>>,
           slot' = NoSlots, active' = {fd}, asker' = NoFd,
           UNCHANGED <<file, sent, closing, nloss>>
    PROVE  WindowInv'
<1>1. TypeInv /\ sent \in Nat /\ sent > 0 /\ file \in Files
      /\ (up = {} \/ asker # NoFd)
  BY FileStore, SyncMeetsFile DEF WindowInv
<1>2. ChanInv' /\ chan' \in [Sessions -> Seq(PDUs)]
  BY SyncTaken
<1>3. TypeInv'
  <2>1. slot' \in [Indexes -> Slots \cup {Empty}]
    BY DEF NoSlots
  <2>2. active' \subseteq Sessions /\ up' \subseteq Sessions
    OBVIOUS
  <2>3. nfault' \in Nat
    BY <1>1 DEF Fail, TypeInv
  <2> QED BY <1>1, <1>2, <2>1, <2>2, <2>3 DEF TypeInv
<1>4. (FileIsWritten \/ FileIsComplete \/ FileIsClosed)'
  <2>1. FileIsWritten => FileIsWritten'
    BY DEF FileIsWritten, Known
  <2>2. FileIsComplete => FileIsComplete'
    BY NoPdus DEF FileIsComplete, Known
  <2>3. FileIsClosed => FileIsClosed'
    BY DEF FileIsClosed
  <2> QED BY <2>1, <2>2, <2>3 DEF WindowInv, FileInv
<1>5. SlotsAreCurrent' /\ SlotsAreSent'
  BY DEF SlotsAreCurrent, SlotsAreSent, NoSlots
<1>6. FullIsClosed'
  BY DEF WindowInv, FileInv, FullIsClosed
<1>7. SyncIsDue'
  BY <1>1 DEF WindowInv, FileInv, SyncIsDue, FileKnown, Unacked
<1>8. StoreInv' /\ BaseInv'
  BY StoreUnchanged DEF StoreVars
<1> QED BY <1>2, <1>3, <1>4, <1>5, <1>6, <1>7, <1>8 DEF WindowInv, FileInv

LEMMA SynchronizeStep ==
    ASSUME WindowInv, SyncsWithinWindow, NEW fd \in Sessions, fd \in active, chan[fd] # << >>,
           Head(chan[fd]).type = "sync",
           chan' = [s \in Sessions |->
                       IF s = fd THEN [chan EXCEPT ![fd] = Tail(@)][s] ELSE << >>],
           Synchronize(fd, Head(chan[fd]).rec), UNCHANGED nloss
    PROVE  WindowInv'
<1>1. Head(chan[fd]).rec = sent - 1 /\ Tail(chan[fd]) = << >> /\ CleanedExcept(fd) = NoSlots
  BY SyncMeetsFile
<1>2. chan' = [s \in Sessions |-> << >>]
  BY <1>1 DEF WindowInv, TypeInv
<1>3. Synchronize(fd, sent - 1)
  BY <1>1
<1>4. /\ slot' = NoSlots /\ active' = {fd} /\ asker' = NoFd
      /\ UNCHANGED <<file, sent, closing, nloss>>
  BY <1>1, <1>3 DEF Synchronize
<1>5. CASE \E st \in OpenStore :
              LET last == LastStored(st.idx, st.older, sent - 1) IN
              /\ NoFail
              /\ base' = Inc(last)
              /\ store' = [st EXCEPT !.idx = Inc(last)]
              /\ acked' = IF asker = fd /\ ~closing
                          THEN acked \cup {[file |-> file, rec |-> n] :
                                               n \in (0 .. sent - 1) \ Missing(sent - 1, last)}
                          ELSE acked
              /\ up' = up \cap {fd}
  <2>1. PICK st \in OpenStore :
              LET last == LastStored(st.idx, st.older, sent - 1) IN
              /\ NoFail
              /\ base' = Inc(last)
              /\ store' = [st EXCEPT !.idx = Inc(last)]
              /\ acked' = IF asker = fd /\ ~closing
                          THEN acked \cup {[file |-> file, rec |-> n] :
                                               n \in (0 .. sent - 1) \ Missing(sent - 1, last)}
                          ELSE acked
              /\ up' = up \cap {fd}
    BY <1>5
  <2>2. nfault' = nfault
    BY <2>1 DEF NoFail
  <2> QED BY <1>2, <1>4, <2>1, <2>2, SyncDoneStep
<1>6. CASE Fail /\ up' = {} /\ UNCHANGED <<base, store, acked>>
  BY <1>2, <1>4, <1>6, SyncFailedStep
<1> QED BY <1>3, <1>5, <1>6 DEF Synchronize

-----------------------------------------------------------------------------
(* Every step.                                                             *)

LEMMA HandleInputStep ==
    ASSUME WindowInv, SyncsWithinWindow, NEW fd \in Sessions, HandleInput(fd)
    PROVE  WindowInv'
<1>1. fd \in active /\ chan[fd] # << >> /\ UNCHANGED nloss
  BY DEF HandleInput
<1>2. CASE /\ Head(chan[fd]).type = "put" /\ chan' = [chan EXCEPT ![fd] = Tail(@)]
           /\ PutRecord([file |-> Head(chan[fd]).file, rec |-> Head(chan[fd]).rec, fd |-> fd])
  BY <1>1, <1>2, PutStep
<1>3. CASE /\ Head(chan[fd]).type \in {"unlinkfile", "unlinkall"}
           /\ chan' = [chan EXCEPT ![fd] = Tail(@)]
           /\ Unlink(fd, Head(chan[fd]).type = "unlinkall")
  BY <1>1, <1>3, UnlinkStep
<1>4. CASE /\ Head(chan[fd]).type = "sync"
           /\ chan' = [s \in Sessions |->
                          IF s = fd THEN [chan EXCEPT ![fd] = Tail(@)][s] ELSE << >>]
           /\ Synchronize(fd, Head(chan[fd]).rec)
  BY <1>1, <1>4, SynchronizeStep
<1> QED BY <1>2, <1>3, <1>4 DEF HandleInput

LEMMA WindowStep ==
    ASSUME WindowInv, SyncsWithinWindow, [Next]_vars
    PROVE  WindowInv'
<1>1. CASE UNCHANGED vars
  <2> USE <1>1 DEF vars, winVars, cpVars
  <2>1. TypeInv' /\ BaseInv'
    BY DEF WindowInv, TypeInv, BaseInv
  <2>2. ChanInv'
    BY DEF WindowInv, ChanInv, ConnectionsKnown, PdusAreCurrent, PduIsAt, SyncIsAlone,
       SyncUnderWay, AskerWaits
  <2>3. StoreInv'
    BY DEF WindowInv, StoreInv, WrittenIsBelow, WrittenOnce, StoreHoldsFile, AckedWereWritten
  <2>4. (FileIsWritten \/ FileIsComplete \/ FileIsClosed)'
    BY DEF WindowInv, FileInv, FileIsWritten, FileIsComplete, FileIsClosed, Known, Unacked
  <2>5. (SlotsAreCurrent /\ SlotsAreSent /\ FullIsClosed /\ SyncIsDue)'
    BY DEF WindowInv, FileInv, SlotsAreCurrent, SlotsAreSent, FullIsClosed, SyncIsDue,
       FileKnown, Unacked
  <2> QED BY <2>1, <2>2, <2>3, <2>4, <2>5 DEF WindowInv, FileInv
<1>2. CASE ReaderDeletes
  BY <1>2, ReaderDeletesStep
<1>3. ASSUME NEW s \in Sessions, HandleInput(s) PROVE WindowInv'
  BY <1>3, HandleInputStep
<1>4. ASSUME NEW s \in Sessions, HandleClose(s) PROVE WindowInv'
  BY <1>4, HandleCloseStep
<1>5. ASSUME NEW s \in Sessions, Connect(s) PROVE WindowInv'
  BY <1>5, ConnectStep
<1>6. ASSUME NEW s \in Sessions, Lose(s) PROVE WindowInv'
  BY <1>6, LoseStep
<1>7. ASSUME NEW s \in Sessions, SendRecord(s) PROVE WindowInv'
  BY <1>7, SendRecordStep
<1>8. ASSUME NEW s \in Sessions, SendUnlink(s) PROVE WindowInv'
  BY <1>8, SendUnlinkStep
<1>9. ASSUME NEW s \in Sessions, NEW r \in Numbers, ResendRecord(s, r) PROVE WindowInv'
  BY <1>9, ResendRecordStep
<1> QED BY <1>1, <1>2, <1>3, <1>4, <1>5, <1>6, <1>7, <1>8, <1>9 DEF Next

\* The inductive invariant holds in every state.
LEMMA WindowAlways == ASSUME SyncsWithinWindow PROVE Spec => []WindowInv
<1>1. Init => WindowInv
  BY InitCorrect
<1>2. WindowInv /\ [Next]_vars => WindowInv'
  BY WindowStep
<1> QED BY <1>1, <1>2, PTL DEF Spec

\* Every variable keeps its type; in particular the base stays a record number
\* of 32 bits, although a synchronisation computes it without a sign.
THEOREM TypeCorrect == ASSUME SyncsWithinWindow PROVE Spec => []TypeOK
<1>1. WindowInv => TypeOK
  <2> SUFFICES ASSUME WindowInv PROVE TypeOK
    OBVIOUS
  <2>1. TypeInv /\ base \in Nat /\ base <= StoreRecords
    BY DEF WindowInv, TypeInv, BaseInv
  <2>2. base \in 0 .. NumberLimit - 1
    BY <2>1, WindowAssumption
  <2>3. store.cur \in Nat /\ store.idx \in Nat /\ store.older \in BOOLEAN
    BY <2>1, WindowAssumption DEF TypeInv, StoreType
  <2> QED BY <2>1, <2>2, <2>3 DEF TypeInv, TypeOK
<1> QED BY <1>1, WindowAlways, PTL

\* A record that the CP may forget is in a store: what was acknowledged when it was
\* written, when it came again, and what a synchronisation told the CP not to send.
THEOREM NothingForgottenIsLost == ASSUME SyncsWithinWindow PROVE Spec => []AckedWereWritten
<1>1. WindowInv => AckedWereWritten
  BY DEF WindowInv, StoreInv
<1> QED BY <1>1, WindowAlways, PTL

\* No record is stored twice, whatever is sent again after a failed write, a lost
\* connection or a synchronisation.
THEOREM RecordsStoredOnce == ASSUME SyncsWithinWindow PROVE Spec => []WrittenOnce
<1>1. WindowInv => WrittenOnce
  BY DEF WindowInv, StoreInv
<1> QED BY <1>1, WindowAlways, PTL

\* A store holds the records of one message file, in the order of their numbers,
\* although the connections deliver them in any order.
THEOREM StoreIsOneFile == ASSUME SyncsWithinWindow PROVE Spec => []StoreHoldsFile
<1>1. WindowInv => StoreHoldsFile
  BY DEF WindowInv, StoreInv
<1> QED BY <1>1, WindowAlways, PTL

\* A record waits in the slot of its number and its connection can be answered, also
\* after rotations, cleaned connections and moved bases.
THEOREM SlotsStayCurrent == ASSUME SyncsWithinWindow PROVE Spec => []SlotsAreCurrent
<1>1. WindowInv => SlotsAreCurrent
  BY DEF WindowInv, FileInv
<1> QED BY <1>1, WindowAlways, PTL

=============================================================================
