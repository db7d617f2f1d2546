-------------------------- MODULE DdtStore_proofs --------------------------
(***************************************************************************)
(* Proofs about the store, for stores of every size and any number of      *)
(* them.  First its type invariant, the agreement of the memory accounted  *)
(* for with the list of stores, and the count of the records written;      *)
(* then what the store delivers: nothing twice, over crashes and restarts; *)
(* in one process everything acknowledged, once and in order, so that the  *)
(* store is a log.                                                         *)
(***************************************************************************)
EXTENDS DdtStore, TLAPS, WellFoundedInduction, SequenceTheorems

USE ConstantsAssumption DEF Names, NoName, Sections, Absent

-----------------------------------------------------------------------------
(* Operators.                                                              *)

\* Removing the oldest name of a list leaves the rest.
LEMMA WithoutHead ==
    ASSUME NEW list \in Seq(Names), list # << >>
    PROVE  Without(list, Head(list)) = Tail(list)
<1>1. 1 \in 1 .. Len(list) /\ list[1] = Head(list)
  OBVIOUS
<1>2. SelectInSeq(list, LAMBDA v : v = Head(list)) = 1
  <2> DEFINE I == {i \in 1 .. Len(list) : list[i] = Head(list)}
  <2>1. 1 \in I /\ \A i \in I : 1 <= i
    BY <1>1
  <2>2. I # {} /\ I \subseteq Int
    BY <2>1
  <2>3. Min(I) = 1
    <3>1. \A x \in I : (\A y \in I : x <= y) <=> x = 1
      BY <2>1, <2>2
    <3> QED BY <3>1, <2>1 DEF Min
  <2> QED BY <2>2, <2>3 DEF SelectInSeq
<1>3. RemoveAt(list, 1) = Tail(list)
  BY <1>1 DEF RemoveAt
<1> QED BY <1>1, <1>2, <1>3 DEF Without, RemoveFirst

\* A set of naturals that is not empty has a least element, which Min returns.
LEMMA MinOfNaturals ==
    ASSUME NEW I, I \subseteq Nat, I # {}
    PROVE  Min(I) \in I
<1> DEFINE Less == {p \in Nat \X Nat : p[1] < p[2]}
<1>1. IsWellFoundedOn(Less, Nat)
  BY NatLessThanWellFounded DEF OpToRel
<1>2. PICK i \in I : \A j \in I : ~ (<<j, i>> \in Less)
  BY <1>1, WFMin
<1>3. \A j \in I : i <= j
  <2>1. \A j, k \in Nat : j < k => <<j, k>> \in Less
    OBVIOUS
  <2>2. \A j, k \in Nat : ~ (j < k) => k <= j
    OBVIOUS
  <2> QED BY <1>2, <2>1, <2>2
<1> QED BY <1>3 DEF Min

\* Removing any name of a list of two or more leaves a list that is not empty.
LEMMA WithoutType ==
    ASSUME NEW list \in Seq(Names), NEW name, Len(list) > 1
    PROVE  Without(list, name) \in Seq(Names) /\ Without(list, name) # << >>
<1>1. CASE \E i \in 1 .. Len(list) : list[i] = name
  <2> DEFINE I == {i \in 1 .. Len(list) : list[i] = name}
  <2>1. I \subseteq Nat /\ I # {}
    BY <1>1
  <2>2. PICK i \in 1 .. Len(list) : i = Min(I)
    <3>1. Min(I) \in I
      BY <2>1, MinOfNaturals
    <3> QED BY <3>1
  <2>3. SelectInSeq(list, LAMBDA v : v = name) = i
    BY <2>1, <2>2 DEF SelectInSeq
  <2>4. /\ RemoveAt(list, i) \in Seq(Names)
        /\ Len(RemoveAt(list, i)) = Len(list) - 1
    <3> DEFINE before == SubSeq(list, 1, i - 1)
               after  == SubSeq(list, i + 1, Len(list))
    <3>1. before \in Seq(Names) /\ Len(before) = i - 1
      BY SubSeqProperties
    <3>2. after \in Seq(Names) /\ Len(after) = Len(list) - i
      BY SubSeqProperties
    <3>3. RemoveAt(list, i) = before \o after
      BY DEF RemoveAt
    <3> HIDE DEF before, after
    <3>4. before \o after \in Seq(Names) /\ Len(before \o after) = (i - 1) + (Len(list) - i)
      <4>1. before \o after \in Seq(Names) /\ Len(before \o after) = Len(before) + Len(after)
        BY <3>1, <3>2, ConcatProperties
      <4> QED BY <3>1, <3>2, <4>1
    <3> QED BY <3>3, <3>4
  <2>5. Without(list, name) = RemoveAt(list, i)
    BY <1>1, <2>3 DEF Without, RemoveFirst
  <2> QED BY <2>4, <2>5
<1>2. CASE ~ \E i \in 1 .. Len(list) : list[i] = name
  BY <1>2 DEF Without, RemoveFirst
<1> QED BY <1>1, <1>2

-----------------------------------------------------------------------------
(* Type correctness.                                                       *)

\* A writer that opens a store or has it open has a store; when it asks for a
\* new one it has closed the last.
WriterHasStore ==
    /\ wopen \/ wst \in {"OPEN", "READINFO"} => wname \in Names
    /\ wst = "GETNEW" => ~wopen

\* A reader has a store, and its producer's list names at least one.
ReaderHasStore == rst # "NONE" => rname \in Names /\ names # << >>

\* A section that is to be read again is one.
SectionAtHand == ~rmore => rcur \in Sections

TypeInv == TypeOK /\ WriterHasStore /\ ReaderHasStore /\ SectionAtHand

WriterResults == {"ok", "full", "err"}
StepResults   == {"ok", "empty", "again", "waitcommit", "err", "iterr"}

LEMMA WriterAfterType ==
    ASSUME WriterType, NEW r \in WriterResults, WriterAfter(r)
    PROVE  /\ wst' \in WriterStates /\ wop' \in WriterCalls
           /\ wst' = "OPEN" => wst \in {"OPEN", "GETNEW"}
           /\ wst' = "OPEN" /\ wst = "GETNEW" => r = "ok"
           /\ wst' = "READINFO" => wst \in {"OPEN", "READINFO"}
           /\ wst' = "GETNEW" => wst \in {"CLOSE", "GETNEW"}
           /\ wst' = "GETNEW" /\ wst = "CLOSE" => r = "ok"
BY DEF WriterType, WriterAfter, WriterNext, InLoop, WriterStates, WriterCalls, WriterResults

LEMMA ReaderAfterType ==
    ASSUME ReaderType, NEW r \in StepResults, ReaderAfter(r), rop # "idle"
    PROVE  /\ rst' \in ReaderStates /\ rop' \in ReaderCalls /\ rdel' \in Nat
           /\ rres' \in ReadResults
           /\ rst' = "NONE" <=> rst = "NONE"
<1>1. rst' \in {rst, ReaderNext(r)} /\ rdel' \in {rdel, ridx}
  BY DEF ReaderAfter
<1>2. ReaderNext(r) \in ReaderStates /\ (ReaderNext(r) = "NONE" <=> rst = "NONE")
  BY DEF ReaderType, ReaderNext, NextAfterEmpty, ReaderStates, StepResults
<1>3. rop' \in ReaderCalls
  BY DEF ReaderType, ReaderAfter, ReaderCalls
<1>4. rres' \in ReadResults
  BY DEF ReaderType, ReaderAfter, ReadResults, StepResults
<1> QED BY <1>1, <1>2, <1>3, <1>4 DEF ReaderType

LEMMA AllocateType ==
    ASSUME ListType, HistoryType, AllocateStore
    PROVE  /\ ListType' /\ names' # << >>
           /\ nextName \in Names /\ nfault' \in Nat
<1>1. names' = Append(names, nextName) /\ nextName \in Names
  BY DEF AllocateStore
<1>2. names' \in Seq(Names) /\ names' # << >>
  BY <1>1 DEF ListType
<1>3. saved' \in {saved, names'} /\ nfault' \in {nfault, nfault + 1}
  BY DEF AllocateStore, Persist, NoFail, Fail
<1>4. used' = used + 1 /\ nextName' = nextName + 1
  BY DEF AllocateStore
<1>5. nextName' \in 1 .. MaxStores + 1
  BY <1>1, <1>4
<1>6. saved' \in Seq(Names)
  BY <1>2, <1>3 DEF ListType
<1>7. used' \in Int
  BY <1>4 DEF ListType
<1>8. nfault' \in Nat
  BY <1>3 DEF HistoryType
<1> QED BY <1>1, <1>2, <1>5, <1>6, <1>7, <1>8 DEF ListType

LEMMA TypeInit == Init => TypeInv
<1> SUFFICES ASSUME Init PROVE TypeInv
  OBVIOUS
<1>1. CkptType
  BY DEF Init, CkptType
<1>2. ListType
  BY DEF Init, ListType
<1>3. WriterType
  BY DEF Init, WriterType, WriterStates, WriterCalls
<1>4. ReaderType
  <2>1. rread \in Seq(Sections)
    BY DEF Init
  <2>2. rcur \in Sections \cup {-1}
    BY DEF Init
  <2>3. rst \in ReaderStates /\ rop \in ReaderCalls /\ rres \in ReadResults
    BY DEF Init, ReaderStates, ReaderCalls, ReadResults
  <2>4. ropen \in BOOLEAN /\ rmore \in BOOLEAN /\ rname \in Names \cup {NoName}
    BY DEF Init
  <2>5. roff \in Nat /\ ridx \in Nat /\ rdel \in Nat
    BY DEF Init
  <2> QED BY <2>1, <2>2, <2>3, <2>4, <2>5 DEF ReaderType
<1>5. HistoryType
  BY DEF Init, HistoryType
<1>6. WriterHasStore /\ ReaderHasStore /\ SectionAtHand
  BY DEF Init, WriterHasStore, ReaderHasStore, SectionAtHand
<1> QED BY <1>1, <1>2, <1>3, <1>4, <1>5, <1>6 DEF TypeInv, TypeOK

\* The steps of the writer leave the reader alone, and the other way round.
LEMMA WriterFrameType ==
    ASSUME TypeInv, WriterFrame, names' = names \/ names' # << >>
    PROVE  ReaderType' /\ SectionAtHand' /\ ReaderHasStore'
BY DEF TypeInv, TypeOK, ReaderType, SectionAtHand, ReaderHasStore, WriterFrame, rVars

LEMMA ReaderFrameType ==
    ASSUME TypeInv, UNCHANGED <<wVars, wop>>
    PROVE  WriterType' /\ WriterHasStore'
BY DEF TypeInv, TypeOK, WriterType, WriterHasStore, wVars

LEMMA FaultCount ==
    ASSUME HistoryType, NoFail \/ \E kind \in FaultKinds : Fail(kind)
    PROVE  nfault' \in Nat
BY DEF HistoryType, NoFail, Fail

LEMMA WriterOpenType == ASSUME TypeInv, WriterOpen PROVE TypeInv'
<1>1. CkptType'
  BY DEF TypeInv, TypeOK, CkptType, WriterHasStore, WriterOpen
<1>2. ListType'
  BY DEF TypeInv, TypeOK, ListType, WriterOpen, listVars
<1>3. WriterType' /\ WriterHasStore'
  BY WriterAfterType
  DEF TypeInv, TypeOK, WriterType, WriterHasStore, WriterOpen, WriterResults
<1>4. ReaderType' /\ SectionAtHand' /\ ReaderHasStore'
  BY WriterFrameType DEF WriterOpen, listVars
<1>5. HistoryType'
  BY DEF TypeInv, TypeOK, HistoryType, WriterOpen, WriterFrame, NoFail, Fail
<1> QED BY <1>1, <1>2, <1>3, <1>4, <1>5 DEF TypeInv, TypeOK

LEMMA WriterReadInfoType == ASSUME TypeInv, WriterReadInfo PROVE TypeInv'
<1>1. CkptType'
  <2>1. [off |-> woff, idx |-> widx] \in Infos
    BY DEF TypeInv, TypeOK, WriterType, Infos
  <2>2. info' \in {info, [info EXCEPT ![wname] = [off |-> woff, idx |-> widx]]}
    BY DEF WriterReadInfo
  <2>3. info' \in [Names -> Infos \cup {NoInfo}]
    BY <2>1, <2>2 DEF TypeInv, TypeOK, CkptType
  <2> QED BY <2>3 DEF TypeInv, TypeOK, CkptType, WriterReadInfo
<1>2. ListType'
  BY DEF TypeInv, TypeOK, ListType, WriterReadInfo, listVars
<1>3. woff' \in Nat /\ widx' \in Nat
  BY DEF TypeInv, TypeOK, CkptType, WriterType, WriterHasStore, Infos, WriterReadInfo
<1>4. WriterType' /\ WriterHasStore'
  BY <1>3, WriterAfterType
  DEF TypeInv, TypeOK, WriterType, WriterHasStore, WriterReadInfo, WriterResults
<1>5. ReaderType' /\ SectionAtHand' /\ ReaderHasStore'
  BY WriterFrameType DEF WriterReadInfo, listVars
<1>6. HistoryType'
  BY DEF TypeInv, TypeOK, HistoryType, WriterReadInfo, WriterFrame, NoFail, Fail
<1> QED BY <1>1, <1>2, <1>4, <1>5, <1>6 DEF TypeInv, TypeOK

LEMMA SectionWritten ==
    ASSUME NEW d \in [Names -> [Sections -> Nat]], NEW n, NEW i, NEW rec \in Nat
    PROVE  [d EXCEPT ![n][i] = rec] \in [Names -> [Sections -> Nat]]
<1> DEFINE e == [d EXCEPT ![n][i] = rec]
<1>1. e = [m \in Names |-> IF m = n THEN [d[m] EXCEPT ![i] = rec] ELSE d[m]]
  OBVIOUS
<1>2. \A m \in Names : [d[m] EXCEPT ![i] = rec] \in [Sections -> Nat]
  OBVIOUS
<1> HIDE DEF e
<1> QED BY <1>1, <1>2

LEMMA WriterWriteType == ASSUME TypeInv, WriterWrite PROVE TypeInv'
<1>1. CkptType'
  <2>1. data' \in {data, [data EXCEPT ![wname][widx] = acked + 1]}
    BY DEF WriterWrite, AddSection
  <2>2. acked + 1 \in Nat
    BY DEF TypeInv, TypeOK, HistoryType
  <2>3. data \in [Names -> [Sections -> Nat]]
    BY DEF TypeInv, TypeOK, CkptType
  <2>4. [data EXCEPT ![wname][widx] = acked + 1] \in [Names -> [Sections -> Nat]]
    BY <2>2, <2>3, SectionWritten
  <2>5. data' \in [Names -> [Sections -> Nat]]
    BY <2>1, <2>3, <2>4
  <2> QED BY <2>5 DEF TypeInv, TypeOK, CkptType, WriterWrite
<1>2. ListType'
  BY DEF TypeInv, TypeOK, ListType, WriterWrite, listVars
<1>3. wst' \in WriterStates /\ wop' \in WriterCalls 
      /\ wst' \notin {"OPEN", "READINFO", "GETNEW"}
  BY WriterAfterType
  DEF TypeInv, TypeOK, WriterType, WriterWrite, AddSection, WriterResults, WriterCalls
<1>4. WriterType' /\ WriterHasStore'
  BY <1>3 DEF TypeInv, TypeOK, WriterType, WriterHasStore, WriterWrite, AddSection
<1>5. ReaderType' /\ SectionAtHand' /\ ReaderHasStore'
  BY WriterFrameType DEF WriterWrite, listVars
<1>6. HistoryType'
  BY DEF TypeInv, TypeOK, HistoryType, WriterWrite, AddSection, WriterFrame, NoFail, Fail
<1> QED BY <1>1, <1>2, <1>4, <1>5, <1>6 DEF TypeInv, TypeOK

LEMMA UpdateInfoSectionType ==
    ASSUME TypeInv, NEW max \in Nat, NEW r, UpdateInfoSection(max, r)
    PROVE  /\ info' \in [Names -> Infos \cup {NoInfo}] /\ stub' \subseteq Names
           /\ woff' \in Nat /\ widx' \in Nat /\ nfault' \in Nat
<1>1. info' \in [Names -> Infos \cup {NoInfo}]
  <2>1. [off |-> woff, idx |-> widx] \in Infos
    BY DEF TypeInv, TypeOK, WriterType, Infos
  <2>2. info' \in {info, [info EXCEPT ![wname] = [off |-> woff, idx |-> widx]]}
    BY DEF UpdateInfoSection
  <2> QED BY <2>1, <2>2 DEF TypeInv, TypeOK, CkptType
<1>2. stub' \subseteq Names
  BY DEF TypeInv, TypeOK, CkptType, WriterHasStore, UpdateInfoSection
<1>3. woff' \in Nat /\ widx' \in Nat /\ nfault' \in Nat
  BY DEF TypeInv, TypeOK, WriterType, HistoryType, UpdateInfoSection, NextStore, NoFail, Fail
<1> QED BY <1>1, <1>2, <1>3

LEMMA WriterUpdateInfoType == ASSUME TypeInv, WriterUpdateInfo PROVE TypeInv'
<1>1. PICK r \in {"ok", "err"} : UpdateInfoSection(MaxSections, r) /\ WriterAfter(r)
  BY DEF WriterUpdateInfo
<1>2. /\ info' \in [Names -> Infos \cup {NoInfo}] /\ stub' \subseteq Names
      /\ woff' \in Nat /\ widx' \in Nat /\ nfault' \in Nat
  BY <1>1, UpdateInfoSectionType
<1>3. CkptType'
  BY <1>2 DEF TypeInv, TypeOK, CkptType, WriterUpdateInfo
<1>4. ListType'
  BY DEF TypeInv, TypeOK, ListType, WriterUpdateInfo, listVars
<1>5. wst' \in WriterStates /\ wop' \in WriterCalls
      /\ wst' \notin {"OPEN", "READINFO", "GETNEW"}
  BY <1>1, WriterAfterType DEF TypeInv, TypeOK, WriterUpdateInfo, WriterResults
<1>6. WriterType' /\ WriterHasStore'
  BY <1>2, <1>5 DEF TypeInv, TypeOK, WriterType, WriterHasStore, WriterUpdateInfo
<1>7. ReaderType' /\ SectionAtHand' /\ ReaderHasStore'
  BY WriterFrameType DEF WriterUpdateInfo, listVars
<1>8. HistoryType'
  BY <1>2 DEF TypeInv, TypeOK, HistoryType, WriterUpdateInfo, WriterFrame
<1> QED BY <1>3, <1>4, <1>6, <1>7, <1>8 DEF TypeInv, TypeOK

LEMMA WriterCloseType == ASSUME TypeInv, WriterClose PROVE TypeInv'
<1>1. CkptType'
  BY DEF TypeInv, TypeOK, CkptType, WriterClose, ckptVars
<1>2. ListType'
  BY DEF TypeInv, TypeOK, ListType, WriterClose, listVars
<1>3. WriterType' /\ WriterHasStore'
  BY WriterAfterType
  DEF TypeInv, TypeOK, WriterType, WriterHasStore, WriterClose, WriterResults
<1>4. ReaderType' /\ SectionAtHand' /\ ReaderHasStore'
  BY WriterFrameType DEF WriterClose, listVars
<1>5. HistoryType'
  BY DEF TypeInv, TypeOK, HistoryType, WriterClose, WriterFrame, NoFail, Fail
<1> QED BY <1>1, <1>2, <1>3, <1>4, <1>5 DEF TypeInv, TypeOK

LEMMA WriterGetNewType == ASSUME TypeInv, WriterGetNew PROVE TypeInv'
<1>1. CASE AllocateStore /\ wname' = nextName /\ WriterAfter("ok")
  <2>1. ListType' /\ names' # << >> /\ nextName \in Names /\ nfault' \in Nat
    BY <1>1, AllocateType DEF TypeInv, TypeOK
  <2>2. CkptType'
    BY DEF TypeInv, TypeOK, CkptType, WriterGetNew, ckptVars
  <2>3. wst' \in WriterStates /\ wop' \in WriterCalls /\ wst' # "GETNEW"
    BY <1>1, WriterAfterType
    DEF TypeInv, TypeOK, WriterType, WriterGetNew, WriterAfter, WriterNext, WriterResults
  <2>4. WriterType' /\ WriterHasStore'
    BY <1>1, <2>1, <2>3 DEF TypeInv, TypeOK, WriterType, WriterHasStore, WriterGetNew
  <2>5. ReaderType' /\ SectionAtHand' /\ ReaderHasStore'
    BY <2>1, WriterFrameType DEF WriterGetNew
  <2>6. HistoryType'
    BY <2>1 DEF TypeInv, TypeOK, HistoryType, WriterGetNew, WriterFrame
  <2> QED BY <2>1, <2>2, <2>4, <2>5, <2>6 DEF TypeInv, TypeOK
<1>2. CASE wname' = NoName /\ NoFail /\ WriterAfter("err") /\ UNCHANGED listVars
  <2>1. CkptType'
    BY DEF TypeInv, TypeOK, CkptType, WriterGetNew, ckptVars
  <2>2. ListType'
    BY <1>2 DEF TypeInv, TypeOK, ListType, listVars
  <2>3. wst' \in WriterStates /\ wop' \in WriterCalls /\ wst' = "GETNEW"
    BY <1>2, WriterAfterType
    DEF TypeInv, TypeOK, WriterType, WriterGetNew, WriterAfter, WriterNext, WriterResults
  <2>4. WriterType' /\ WriterHasStore'
    BY <1>2, <2>3 DEF TypeInv, TypeOK, WriterType, WriterHasStore, WriterGetNew
  <2>5. ReaderType' /\ SectionAtHand' /\ ReaderHasStore'
    BY <1>2, WriterFrameType DEF WriterGetNew, listVars
  <2>6. HistoryType'
    BY <1>2 DEF TypeInv, TypeOK, HistoryType, WriterGetNew, WriterFrame, NoFail
  <2> QED BY <2>1, <2>2, <2>4, <2>5, <2>6 DEF TypeInv, TypeOK
<1> QED BY <1>1, <1>2 DEF WriterGetNew

LEMMA MakeWriterType == ASSUME TypeInv, MakeWriter PROVE TypeInv'
<1>1. /\ ListType' /\ names' # << >> /\ wname' \in Names /\ nfault' \in Nat
  <2>1. CASE names = << >> /\ AllocateStore /\ wname' = nextName
    BY <2>1, AllocateType DEF TypeInv, TypeOK
  <2>2. CASE names # << >> /\ NoFail /\ wname' = LastStore /\ UNCHANGED listVars
    <3>1. LastStore \in Names
      BY <2>2 DEF TypeInv, TypeOK, ListType, LastStore, Last
    <3>2. ListType'
      BY <2>2 DEF TypeInv, TypeOK, ListType, listVars
    <3> QED BY <2>2, <3>1, <3>2 DEF TypeInv, TypeOK, HistoryType, NoFail, listVars
  <2> QED BY <2>1, <2>2 DEF MakeWriter
<1>2. CkptType'
  BY DEF TypeInv, TypeOK, CkptType, MakeWriter, ckptVars
<1>3. WriterType' /\ WriterHasStore'
  BY <1>1
  DEF TypeInv, TypeOK, WriterType, WriterHasStore, MakeWriter, WriterStates, WriterCalls
<1>4. ReaderType' /\ SectionAtHand' /\ ReaderHasStore'
  BY <1>1, WriterFrameType DEF MakeWriter
<1>5. HistoryType'
  BY <1>1 DEF TypeInv, TypeOK, HistoryType, MakeWriter, WriterFrame
<1> QED BY <1>1, <1>2, <1>3, <1>4, <1>5 DEF TypeInv, TypeOK

LEMMA WriterCallType == ASSUME TypeInv, WriterCall PROVE TypeInv'
<1>1. CkptType'
  BY DEF TypeInv, TypeOK, CkptType, WriterCall, ckptVars
<1>2. ListType'
  BY DEF TypeInv, TypeOK, ListType, WriterCall, listVars
<1>3. WriterType' /\ WriterHasStore'
  BY DEF TypeInv, TypeOK, WriterType, WriterHasStore, WriterCall, wVars, WriterCalls
<1>4. ReaderType' /\ SectionAtHand' /\ ReaderHasStore'
  BY WriterFrameType DEF WriterCall, listVars
<1>5. HistoryType'
  BY DEF TypeInv, TypeOK, HistoryType, WriterCall, WriterFrame, NoFail
<1> QED BY <1>1, <1>2, <1>3, <1>4, <1>5 DEF TypeInv, TypeOK

LEMMA ForceStoreChangeType == ASSUME TypeInv, ForceStoreChange PROVE TypeInv'
<1>1. \E r \in {"ok", "err"} : UpdateInfoSection(widx, r)
  BY DEF ForceStoreChange
<1>2. /\ info' \in [Names -> Infos \cup {NoInfo}] /\ stub' \subseteq Names
      /\ woff' \in Nat /\ widx' \in Nat /\ nfault' \in Nat
  BY <1>1, UpdateInfoSectionType DEF TypeInv, TypeOK, WriterType
<1>3. CkptType'
  BY <1>2 DEF TypeInv, TypeOK, CkptType, ForceStoreChange
<1>4. ListType'
  BY DEF TypeInv, TypeOK, ListType, ForceStoreChange, listVars
<1>5. WriterType' /\ WriterHasStore'
  BY <1>2
  DEF TypeInv, TypeOK, WriterType, WriterHasStore, ForceStoreChange, WriterStates, WriterCalls
<1>6. ReaderType' /\ SectionAtHand' /\ ReaderHasStore'
  BY WriterFrameType DEF ForceStoreChange, listVars
<1>7. HistoryType'
  BY <1>2 DEF TypeInv, TypeOK, HistoryType, ForceStoreChange, WriterFrame
<1> QED BY <1>3, <1>4, <1>5, <1>6, <1>7 DEF TypeInv, TypeOK

LEMMA SetMessageIndexType == ASSUME TypeInv, SetMessageIndex PROVE TypeInv'
<1>1. CkptType'
  BY DEF TypeInv, TypeOK, CkptType, SetMessageIndex, ckptVars
<1>2. ListType'
  BY DEF TypeInv, TypeOK, ListType, SetMessageIndex, listVars
<1>3. widx' \in Nat
  BY DEF SetMessageIndex
<1>4. WriterType' /\ WriterHasStore'
  BY <1>3 DEF TypeInv, TypeOK, WriterType, WriterHasStore, SetMessageIndex
<1>5. ReaderType' /\ SectionAtHand' /\ ReaderHasStore'
  BY WriterFrameType DEF SetMessageIndex, listVars
<1>6. HistoryType'
  BY DEF TypeInv, TypeOK, HistoryType, SetMessageIndex, WriterFrame, NoFail
<1> QED BY <1>1, <1>2, <1>4, <1>5, <1>6 DEF TypeInv, TypeOK

LEMMA ReaderOpenType == ASSUME TypeInv, ReaderOpen PROVE TypeInv'
<1>1. CkptType'
  BY DEF TypeInv, TypeOK, CkptType, ReaderOpen, ckptVars
<1>2. ListType'
  BY DEF TypeInv, TypeOK, ListType, ReaderOpen, listVars
<1>3. WriterType' /\ WriterHasStore'
  BY ReaderFrameType DEF ReaderOpen, ReaderFrame
<1>4. /\ rst' \in ReaderStates /\ rop' \in ReaderCalls /\ rdel' \in Nat
      /\ rres' \in ReadResults /\ rst' # "NONE"
  BY ReaderAfterType DEF TypeInv, TypeOK, ReaderOpen, StepResults
<1>5. ReaderType' /\ ReaderHasStore' /\ SectionAtHand'
  BY <1>4
  DEF TypeInv, TypeOK, ReaderType, ReaderHasStore, SectionAtHand, ReaderOpen, listVars
<1>6. HistoryType'
  BY DEF TypeInv, TypeOK, HistoryType, ReaderOpen, ReaderFrame, NoFail, Fail
<1> QED BY <1>1, <1>2, <1>3, <1>5, <1>6 DEF TypeInv, TypeOK

LEMMA ReaderReadInfoType == ASSUME TypeInv, ReaderReadInfo PROVE TypeInv'
<1>1. CkptType'
  BY DEF TypeInv, TypeOK, CkptType, ReaderReadInfo, ckptVars
<1>2. ListType'
  BY DEF TypeInv, TypeOK, ListType, ReaderReadInfo, listVars
<1>3. WriterType' /\ WriterHasStore'
  BY ReaderFrameType DEF ReaderReadInfo, ReaderFrame
<1>4. CASE info[rname] # NoInfo /\ rst' = "ITER_INIT" /\ rop' = InLoop(rop)
           /\ roff' = info[rname].off /\ ridx' = info[rname].idx
           /\ rdel' = NothingDeleted /\ NoFail /\ UNCHANGED rres
  <2>1. roff' \in Nat /\ ridx' \in Nat /\ rdel' \in Nat
    BY <1>4
    DEF TypeInv, TypeOK, CkptType, ReaderHasStore, ReaderReadInfo, Infos, NothingDeleted
  <2>2. rst' \in ReaderStates /\ rop' \in ReaderCalls /\ rres' \in ReadResults
    BY <1>4 DEF TypeInv, TypeOK, ReaderType, InLoop, ReaderStates, ReaderCalls
  <2>3. ReaderType' /\ ReaderHasStore' /\ SectionAtHand'
    BY <2>1, <2>2
    DEF TypeInv, TypeOK, ReaderType, ReaderHasStore, SectionAtHand, ReaderReadInfo, listVars
  <2>4. HistoryType'
    BY <1>4 DEF TypeInv, TypeOK, HistoryType, ReaderReadInfo, ReaderFrame, NoFail
  <2> QED BY <1>1, <1>2, <1>3, <2>3, <2>4 DEF TypeInv, TypeOK
<1>5. CASE (NoFail \/ Fail("info")) /\ ReaderAfter("err") /\ UNCHANGED <<roff, ridx>>
  <2>1. /\ rst' \in ReaderStates /\ rop' \in ReaderCalls /\ rdel' \in Nat
        /\ rres' \in ReadResults /\ rst' # "NONE"
    BY <1>5, ReaderAfterType DEF TypeInv, TypeOK, ReaderReadInfo, StepResults
  <2>2. ReaderType' /\ ReaderHasStore' /\ SectionAtHand'
    BY <1>5, <2>1
    DEF TypeInv, TypeOK, ReaderType, ReaderHasStore, SectionAtHand, ReaderReadInfo, listVars
  <2>3. HistoryType'
    BY <1>5 DEF TypeInv, TypeOK, HistoryType, ReaderReadInfo, ReaderFrame, NoFail, Fail
  <2> QED BY <1>1, <1>2, <1>3, <2>2, <2>3 DEF TypeInv, TypeOK
<1> QED BY <1>4, <1>5 DEF ReaderReadInfo

LEMMA ReaderIterInitType == ASSUME TypeInv, ReaderIterInit PROVE TypeInv'
<1>1. CkptType'
  BY DEF TypeInv, TypeOK, CkptType, ReaderIterInit, ckptVars
<1>2. ListType'
  BY DEF TypeInv, TypeOK, ListType, ReaderIterInit, listVars
<1>3. WriterType' /\ WriterHasStore'
  BY ReaderFrameType DEF ReaderIterInit, ReaderFrame
<1>4. /\ rst' \in ReaderStates /\ rop' \in ReaderCalls /\ rdel' \in Nat
      /\ rres' \in ReadResults /\ rst' # "NONE"
  BY ReaderAfterType DEF TypeInv, TypeOK, ReaderIterInit, StepResults
<1>5. rread' \in Seq(Sections) /\ rmore' \in BOOLEAN /\ rcur' \in Sections \cup {-1}
  BY DEF ReaderIterInit
<1>6. ReaderType' /\ ReaderHasStore' /\ SectionAtHand'
  BY <1>4, <1>5
  DEF TypeInv, TypeOK, ReaderType, ReaderHasStore, SectionAtHand, ReaderIterInit, listVars
<1>7. HistoryType'
  BY DEF TypeInv, TypeOK, HistoryType, ReaderIterInit, ReaderFrame, NoFail, Fail
<1> QED BY <1>1, <1>2, <1>3, <1>6, <1>7 DEF TypeInv, TypeOK

LEMMA SectionAvailableType ==
    ASSUME ReaderType, HistoryType, NEW i \in Sections, SectionAvailable(i)
    PROVE  /\ rst' = rst /\ rop' \in ReaderCalls /\ rdel' \in Nat
           /\ rread' \in Seq(Sections) /\ rmore' \in BOOLEAN /\ rcur' \in Sections
           /\ rres' \in ReadResults /\ nfault' \in Nat
<1>1. rread' \in {rread, Append(rread, i)}
  BY DEF SectionAvailable
<1>2. rread' \in Seq(Sections)
  BY <1>1 DEF ReaderType
<1>3. rdel' \in Nat /\ rcur' \in Sections /\ rmore' \in BOOLEAN
  <2>1. rdel' \in {rdel, i} /\ rcur' = i /\ rmore' \in {TRUE, FALSE}
    BY DEF SectionAvailable
  <2>2. rdel \in Nat /\ i \in Nat
    BY DEF ReaderType
  <2> QED BY <2>1, <2>2
<1>4. rop' \in ReaderCalls /\ rres' \in ReadResults /\ rst' = rst
  BY DEF SectionAvailable, ReaderType, ReaderCalls, ReadResults
<1>5. nfault' \in Nat
  BY DEF SectionAvailable, HistoryType, NoFail, Fail
<1> QED BY <1>2, <1>3, <1>4, <1>5

LEMMA ReaderReadType == ASSUME TypeInv, ReaderRead PROVE TypeInv'
<1>1. CkptType'
  BY DEF TypeInv, TypeOK, CkptType, ReaderRead, ckptVars
<1>2. ListType'
  BY DEF TypeInv, TypeOK, ListType, ReaderRead, listVars
<1>3. WriterType' /\ WriterHasStore'
  BY ReaderFrameType DEF ReaderRead, ReaderFrame
<1>4. CASE \E i \in Sections : SectionAvailable(i)
  <2>1. PICK i \in Sections : SectionAvailable(i)
    BY <1>4
  <2>2. /\ rst' = rst /\ rop' \in ReaderCalls /\ rdel' \in Nat
        /\ rread' \in Seq(Sections) /\ rmore' \in BOOLEAN /\ rcur' \in Sections
        /\ rres' \in ReadResults /\ nfault' \in Nat
    BY <2>1, SectionAvailableType DEF TypeInv, TypeOK
  <2>3. ReaderType' /\ ReaderHasStore' /\ SectionAtHand'
    BY <2>2
    DEF TypeInv, TypeOK, ReaderType, ReaderHasStore, SectionAtHand, ReaderRead, listVars
  <2>4. HistoryType'
    BY <2>2 DEF TypeInv, TypeOK, HistoryType, ReaderRead, ReaderFrame
  <2> QED BY <1>1, <1>2, <1>3, <2>3, <2>4 DEF TypeInv, TypeOK
<1>5. CASE /\ UNCHANGED <<rread, rmore, rcur>>
           /\ \E r \in {"empty", "again", "err"} : ReaderAfter(r)
           /\ NoFail \/ Fail("iter")
  <2>1. PICK r \in {"empty", "again", "err"} : ReaderAfter(r)
    BY <1>5
  <2>2. /\ rst' \in ReaderStates /\ rop' \in ReaderCalls /\ rdel' \in Nat
        /\ rres' \in ReadResults /\ rst' # "NONE"
    BY <2>1, ReaderAfterType DEF TypeInv, TypeOK, ReaderRead, StepResults
  <2>3. ReaderType' /\ ReaderHasStore' /\ SectionAtHand'
    BY <1>5, <2>2
    DEF TypeInv, TypeOK, ReaderType, ReaderHasStore, SectionAtHand, ReaderRead, listVars
  <2>4. HistoryType'
    BY <1>5 DEF TypeInv, TypeOK, HistoryType, ReaderRead, ReaderFrame, NoFail, Fail
  <2> QED BY <1>1, <1>2, <1>3, <2>3, <2>4 DEF TypeInv, TypeOK
<1> QED BY <1>4, <1>5 DEF ReaderRead, TypeInv, SectionAtHand, Ahead

LEMMA ReaderWaitType == ASSUME TypeInv, ReaderWait PROVE TypeInv'
<1>1. CkptType'
  BY DEF TypeInv, TypeOK, CkptType, ReaderWait, ckptVars
<1>2. ListType'
  BY DEF TypeInv, TypeOK, ListType, ReaderWait, listVars
<1>3. WriterType' /\ WriterHasStore'
  BY ReaderFrameType DEF ReaderWait, ReaderFrame
<1>4. PICK r \in StepResults : ReaderAfter(r)
  BY DEF ReaderWait, StepResults
<1>5. /\ rst' \in ReaderStates /\ rop' \in ReaderCalls /\ rdel' \in Nat
      /\ rres' \in ReadResults /\ rst' # "NONE"
  BY <1>4, ReaderAfterType DEF TypeInv, TypeOK, ReaderWait
<1>6. ReaderType' /\ ReaderHasStore' /\ SectionAtHand'
  BY <1>5
  DEF TypeInv, TypeOK, ReaderType, ReaderHasStore, SectionAtHand, ReaderWait, listVars
<1>7. HistoryType'
  BY DEF TypeInv, TypeOK, HistoryType, ReaderWait, ReaderFrame, NoFail
<1> QED BY <1>1, <1>2, <1>3, <1>6, <1>7 DEF TypeInv, TypeOK

LEMMA ReaderCloseType == ASSUME TypeInv, ReaderClose PROVE TypeInv'
<1>1. CkptType'
  BY DEF TypeInv, TypeOK, CkptType, ReaderClose, ckptVars
<1>2. ListType'
  BY DEF TypeInv, TypeOK, ListType, ReaderClose, listVars
<1>3. WriterType' /\ WriterHasStore'
  BY ReaderFrameType DEF ReaderClose, ReaderFrame
<1>4. /\ rst' \in ReaderStates /\ rop' \in ReaderCalls /\ rdel' \in Nat
      /\ rres' \in ReadResults /\ rst' # "NONE"
  BY ReaderAfterType DEF TypeInv, TypeOK, ReaderClose, StepResults
<1>5. ReaderType' /\ ReaderHasStore' /\ SectionAtHand'
  BY <1>4
  DEF TypeInv, TypeOK, ReaderType, ReaderHasStore, SectionAtHand, ReaderClose, listVars
<1>6. HistoryType'
  BY DEF TypeInv, TypeOK, HistoryType, ReaderClose, ReaderFrame, NoFail, Fail
<1> QED BY <1>1, <1>2, <1>3, <1>5, <1>6 DEF TypeInv, TypeOK

LEMMA ReaderDeleteType == ASSUME TypeInv, ReaderDelete PROVE TypeInv'
<1>1. CkptType'
  <2>1. CASE UNCHANGED ckptVars
    BY <2>1 DEF TypeInv, TypeOK, CkptType, ckptVars
  <2>2. CASE Unlink(rname)
    BY <2>2 DEF TypeInv, TypeOK, CkptType, Unlink
  <2> QED BY <2>1, <2>2 DEF ReaderDelete
<1>2. ListType' /\ names' # << >>
  <2>1. names' \in Seq(Names) /\ names' # << >>
    <3>1. Len(names) > 1 => Without(names, rname) \in Seq(Names) /\ Without(names, rname) # << >>
      BY WithoutType DEF TypeInv, TypeOK, ListType
    <3> QED BY <3>1 DEF TypeInv, TypeOK, ListType, ReaderHasStore, ReaderDelete
  <2>2. saved' \in {saved, names'} /\ used' \in {used, used - 1} /\ nextName' = nextName
    BY DEF ReaderDelete, Persist, Freed
  <2> QED BY <2>1, <2>2 DEF TypeInv, TypeOK, ListType
<1>3. WriterType' /\ WriterHasStore'
  BY ReaderFrameType DEF ReaderDelete, ReaderFrame
<1>4. PICK r \in StepResults : ReaderAfter(r)
  BY DEF ReaderDelete, StepResults
<1>5. /\ rst' \in ReaderStates /\ rop' \in ReaderCalls /\ rdel' \in Nat
      /\ rres' \in ReadResults /\ rst' # "NONE"
  BY <1>4, ReaderAfterType DEF TypeInv, TypeOK, ReaderDelete
<1>6. ReaderType' /\ ReaderHasStore' /\ SectionAtHand'
  BY <1>2, <1>5 DEF TypeInv, TypeOK, ReaderType, ReaderHasStore, SectionAtHand, ReaderDelete
<1>7. HistoryType'
  BY DEF TypeInv, TypeOK, HistoryType, ReaderDelete, ReaderFrame, Persist, NoFail, Fail
<1> QED BY <1>1, <1>2, <1>3, <1>6, <1>7 DEF TypeInv, TypeOK

LEMMA ReaderGetNewType == ASSUME TypeInv, ReaderGetNew PROVE TypeInv'
<1>1. CkptType'
  BY DEF TypeInv, TypeOK, CkptType, ReaderGetNew, ckptVars
<1>2. ListType'
  BY DEF TypeInv, TypeOK, ListType, ReaderGetNew, listVars
<1>3. WriterType' /\ WriterHasStore'
  BY ReaderFrameType DEF ReaderGetNew, ReaderFrame
<1>4. /\ rst' \in ReaderStates /\ rop' \in ReaderCalls /\ rdel' \in Nat
      /\ rres' \in ReadResults
  BY ReaderAfterType DEF TypeInv, TypeOK, ReaderGetNew, StepResults
<1>5. rname' \in Names
  BY DEF TypeInv, TypeOK, ListType, ReaderHasStore, ReaderGetNew, FirstStore
<1>6. ReaderType' /\ ReaderHasStore' /\ SectionAtHand'
  BY <1>4, <1>5
  DEF TypeInv, TypeOK, ReaderType, ReaderHasStore, SectionAtHand, ReaderGetNew, listVars
<1>7. HistoryType'
  BY DEF TypeInv, TypeOK, HistoryType, ReaderGetNew, ReaderFrame, NoFail
<1> QED BY <1>1, <1>2, <1>3, <1>6, <1>7 DEF TypeInv, TypeOK

LEMMA MakeReaderType == ASSUME TypeInv, MakeReader PROVE TypeInv'
<1>1. CkptType'
  BY DEF TypeInv, TypeOK, CkptType, MakeReader, ckptVars
<1>2. ListType'
  BY DEF TypeInv, TypeOK, ListType, MakeReader, listVars
<1>3. WriterType' /\ WriterHasStore'
  BY ReaderFrameType DEF MakeReader, ReaderFrame
<1>4. rname' \in Names
  BY DEF TypeInv, TypeOK, ListType, MakeReader, FirstStore
<1>5. ReaderType' /\ ReaderHasStore' /\ SectionAtHand'
  BY <1>4
  DEF TypeInv, TypeOK, ReaderType, ReaderHasStore, SectionAtHand, MakeReader, listVars,
      ReaderStates, ReaderCalls
<1>6. HistoryType'
  BY DEF TypeInv, TypeOK, HistoryType, MakeReader, ReaderFrame, NoFail
<1> QED BY <1>1, <1>2, <1>3, <1>5, <1>6 DEF TypeInv, TypeOK

LEMMA ReadCallType == ASSUME TypeInv, ReadCall PROVE TypeInv'
<1>1. CkptType'
  BY DEF TypeInv, TypeOK, CkptType, ReadCall, ckptVars
<1>2. ListType'
  BY DEF TypeInv, TypeOK, ListType, ReadCall, listVars
<1>3. WriterType' /\ WriterHasStore'
  BY ReaderFrameType DEF ReadCall, ReaderFrame
<1>4. ReaderType' /\ ReaderHasStore' /\ SectionAtHand'
  BY DEF TypeInv, TypeOK, ReaderType, ReaderHasStore, SectionAtHand, ReadCall, listVars,
         ReadResults, ReaderCalls
<1>5. HistoryType'
  BY DEF TypeInv, TypeOK, HistoryType, ReadCall, ReaderFrame, NoFail
<1> QED BY <1>1, <1>2, <1>3, <1>4, <1>5 DEF TypeInv, TypeOK

LEMMA ResetReaderType == ASSUME TypeInv, ResetReader PROVE TypeInv'
<1>1. CkptType'
  BY DEF TypeInv, TypeOK, CkptType, ResetReader, ckptVars
<1>2. ListType'
  BY DEF TypeInv, TypeOK, ListType, ResetReader, listVars
<1>3. WriterType' /\ WriterHasStore'
  BY ReaderFrameType DEF ResetReader, ReaderFrame
<1>4. ReaderType' /\ ReaderHasStore' /\ SectionAtHand'
  <2>1. rread' \in Seq(Sections) /\ rcur' \in Sections \cup {-1} /\ rmore' \in BOOLEAN
    BY DEF ResetReader
  <2>2. rst' \in ReaderStates /\ rop' \in ReaderCalls /\ rres' \in ReadResults
    BY DEF TypeInv, TypeOK, ReaderType, ResetReader, ReaderStates, ReadResults
  <2>3. roff' \in Nat /\ ridx' \in Nat /\ rdel' \in Nat
    BY DEF ResetReader
  <2> QED BY <2>1, <2>2, <2>3 DEF ReaderType, ReaderHasStore, SectionAtHand, ResetReader
<1>5. HistoryType'
  BY DEF TypeInv, TypeOK, HistoryType, ResetReader, ReaderFrame, NoFail
<1> QED BY <1>1, <1>2, <1>3, <1>4, <1>5 DEF TypeInv, TypeOK

LEMMA CommitType == ASSUME TypeInv, NEW n \in 0 .. Len(rread), Commit(n) PROVE TypeInv'
<1>1. rread \in Seq(Sections) /\ data \in [Names -> [Sections -> Nat]] /\ rname \in Names
  BY DEF TypeInv, TypeOK, CkptType, ReaderType, ReaderHasStore, Commit
<1>2. \A k \in 1 .. n : rread[k] \in Sections
  <2>1. Len(rread) \in Nat /\ \A k \in 1 .. Len(rread) : rread[k] \in Sections
    BY <1>1, LenProperties, ElementOfSeq
  <2>2. \A k \in 1 .. n : k \in 1 .. Len(rread)
    BY <2>1
  <2> QED BY <2>1, <2>2
<1>3. CkptType'
  <2>1. PICK gone : data' = [data EXCEPT ![rname] = [i \in Sections |->
                                IF i \in gone THEN Absent ELSE @[i]]]
    BY DEF Commit
  <2>2. [i \in Sections |-> IF i \in gone THEN Absent ELSE data[rname][i]] \in [Sections -> Nat]
    BY <1>1
  <2>3. data' \in [Names -> [Sections -> Nat]]
    BY <1>1, <2>1, <2>2
  <2> QED BY <2>3 DEF TypeInv, TypeOK, CkptType, Commit
<1>4. ListType'
  BY DEF TypeInv, TypeOK, ListType, Commit, listVars
<1>5. WriterType' /\ WriterHasStore'
  BY ReaderFrameType DEF Commit
<1>6. ReaderType' /\ ReaderHasStore' /\ SectionAtHand'
  <2>1. rdel' \in Nat
    <3>1. CASE n = 0
      BY <3>1 DEF Commit, TypeInv, TypeOK, ReaderType
    <3>2. CASE n # 0
      <4>1. rread[n] \in Nat
        BY <1>2, <3>2
      <4> QED BY <3>2, <4>1 DEF Commit
    <3> QED BY <3>1, <3>2
  <2>2. rread' \in Seq(Sections) /\ rst' \in ReaderStates /\ rres' \in ReadResults
    BY DEF Commit, ReaderStates, ReadResults
  <2> QED BY <2>1, <2>2
      DEF TypeInv, TypeOK, ReaderType, ReaderHasStore, SectionAtHand, Commit, listVars
<1>7. HistoryType'
  <2>1. out' \in Seq(Nat)
    <3> DEFINE sent == [k \in 1 .. n |-> data[rname][rread[k]]]
    <3>1. sent \in Seq(Nat)
      <4>1. \A k \in 1 .. n : data[rname][rread[k]] \in Nat
        BY <1>1, <1>2
      <4>2. n \in Nat
        OBVIOUS
      <4> QED BY <4>1, <4>2
    <3>2. out' = out \o sent
      BY DEF Commit
    <3> HIDE DEF sent
    <3> QED BY <3>1, <3>2 DEF TypeInv, TypeOK, HistoryType
  <2>2. nfault' \in {nfault, nfault + 1}
    BY DEF Commit, NoFail, Fail
  <2> QED BY <2>1, <2>2 DEF TypeInv, TypeOK, HistoryType, Commit
<1> QED BY <1>3, <1>4, <1>5, <1>6, <1>7 DEF TypeInv, TypeOK

LEMMA CommitsType == ASSUME TypeInv, CommitSent \/ CommitNothing PROVE TypeInv'
<1>1. \E n \in 0 .. Len(rread) : Commit(n)
  <2>1. Len(rread) \in Nat
    BY DEF TypeInv, TypeOK, ReaderType
  <2> QED BY <2>1 DEF CommitSent, CommitNothing
<1> QED BY <1>1, CommitType

LEMMA NewProcessType ==
    ASSUME TypeInv, NewProcess, info' \in [Names -> Infos \cup {NoInfo}],
           stub' \subseteq Names, nfault' \in Nat
    PROVE  TypeInv'
<1>1. CkptType'
  BY DEF TypeInv, TypeOK, CkptType, NewProcess
<1>2. ListType'
  BY DEF TypeInv, TypeOK, ListType, NewProcess, Reloaded
<1>3. WriterType' /\ WriterHasStore'
  BY DEF NewProcess, WriterType, WriterHasStore, WriterStates, WriterCalls
<1>4. ReaderType' /\ ReaderHasStore' /\ SectionAtHand'
  <2>1. rread' \in Seq(Sections) /\ rcur' \in Sections \cup {-1} /\ rmore' \in BOOLEAN
    BY DEF NewProcess
  <2>2. rst' \in ReaderStates /\ rop' \in ReaderCalls /\ rres' \in ReadResults
    BY DEF NewProcess, ReaderStates, ReaderCalls, ReadResults
  <2>3. roff' \in Nat /\ ridx' \in Nat /\ rdel' \in Nat
    BY DEF NewProcess
  <2> QED BY <2>1, <2>2, <2>3 DEF ReaderType, ReaderHasStore, SectionAtHand, NewProcess
<1>5. HistoryType'
  BY DEF TypeInv, TypeOK, HistoryType, NewProcess
<1> QED BY <1>1, <1>2, <1>3, <1>4, <1>5 DEF TypeInv, TypeOK

LEMMA ShutdownType == ASSUME TypeInv, Shutdown PROVE TypeInv'
<1>1. info' \in [Names -> Infos \cup {NoInfo}]
  <2>1. [off |-> woff, idx |-> widx] \in Infos /\ NextStore(MaxSections) \in Infos
    BY DEF TypeInv, TypeOK, WriterType, Infos, NextStore
  <2>2. info' \in {info, [info EXCEPT ![wname] = [off |-> woff, idx |-> widx]],
                   [info EXCEPT ![wname] = NextStore(MaxSections)]}
    BY DEF Shutdown, Flush
  <2> QED BY <2>1, <2>2 DEF TypeInv, TypeOK, CkptType
<1>2. stub' \subseteq Names
  BY DEF TypeInv, TypeOK, CkptType, WriterHasStore, Shutdown, Flush
<1>3. nfault' \in Nat
  <2>1. nfault' \in {nfault, nfault + 1}
    BY DEF Shutdown, Flush, NoFail, Fail
  <2> QED BY <2>1 DEF TypeInv, TypeOK, HistoryType
<1> QED BY <1>1, <1>2, <1>3, NewProcessType DEF Shutdown

LEMMA CrashType == ASSUME TypeInv, Crash PROVE TypeInv'
<1>1. UNCHANGED <<info, stub>> /\ nfault' = nfault + 1
  BY DEF Crash, Fail
<1>2. info' \in [Names -> Infos \cup {NoInfo}] /\ stub' \subseteq Names
  BY <1>1 DEF TypeInv, TypeOK, CkptType
<1>3. nfault' \in Nat
  BY <1>1 DEF TypeInv, TypeOK, HistoryType
<1> QED BY <1>2, <1>3, NewProcessType DEF Crash

LEMMA StutterType == ASSUME TypeInv, UNCHANGED vars PROVE TypeInv'
<1>1. CkptType' /\ ListType'
  BY DEF TypeInv, TypeOK, CkptType, ListType, vars, ckptVars, listVars
<1>2. WriterType' /\ WriterHasStore'
  BY ReaderFrameType DEF vars
<1>3. ReaderType' /\ ReaderHasStore' /\ SectionAtHand'
  BY DEF TypeInv, TypeOK, ReaderType, ReaderHasStore, SectionAtHand, vars, rVars, listVars
<1>4. HistoryType'
  BY DEF TypeInv, TypeOK, HistoryType, vars
<1> QED BY <1>1, <1>2, <1>3, <1>4 DEF TypeInv, TypeOK

LEMMA TypeStep == TypeInv /\ [Next]_vars => TypeInv'
<1> SUFFICES ASSUME TypeInv, [Next]_vars PROVE TypeInv'
  OBVIOUS
<1>1. CASE WriterActions
  BY <1>1, WriterOpenType, WriterReadInfoType, WriterWriteType, WriterUpdateInfoType,
     WriterCloseType, WriterGetNewType, MakeWriterType, WriterCallType,
     ForceStoreChangeType, SetMessageIndexType
  DEF WriterActions, WriterStep
<1>2. CASE UserActions
  BY <1>2, MakeReaderType, ReadCallType, CommitsType, ResetReaderType DEF UserActions
<1>3. CASE ReaderStep
  BY <1>3, ReaderOpenType, ReaderReadInfoType, ReaderIterInitType, ReaderReadType,
     ReaderWaitType, ReaderCloseType, ReaderDeleteType, ReaderGetNewType
  DEF ReaderStep
<1>4. CASE Shutdown \/ Crash
  BY <1>4, ShutdownType, CrashType
<1>5. CASE UNCHANGED vars
  BY <1>5, StutterType
<1> QED BY <1>1, <1>2, <1>3, <1>4, <1>5 DEF Next

\* Every variable keeps its type, whatever fails: a writer never works on a
\* store without a name, a reader never on one, and the list of a producer that
\* has a reader never becomes empty.
THEOREM TypeCorrect == Spec => []TypeOK
<1>1. Spec => []TypeInv
  BY TypeInit, TypeStep, PTL DEF Spec
<1>2. TypeInv => TypeOK
  BY DEF TypeInv
<1> QED BY <1>1, <1>2, PTL

-----------------------------------------------------------------------------
(* The memory accounted for.                                               *)

\* The list in memory is the one of the status checkpoint, and the reader works
\* on its oldest store.
OldestStoreRead ==
    /\ rst \notin {"NONE", "GETNEW"} => rname = Head(names)
    /\ rst = "GETNEW" => rop # "idle"

MemoryInv == saved = names /\ MemoryMatchesStores /\ OldestStoreRead

ListServiceWorks == Faults \cap {"unlink", "status"} = {}

LEMMA ReaderMoves ==
    ASSUME NEW r \in StepResults, ReaderAfter(r), rop # "idle", rst # "NONE",
           rst # "GETNEW", rst = "DELETE" => r # "ok"
    PROVE  rst' \notin {"NONE", "GETNEW"}
<1>1. rst' \in {rst, ReaderNext(r)}
  BY DEF ReaderAfter
<1>2. ReaderNext(r) \notin {"NONE", "GETNEW"}
  BY DEF ReaderNext, NextAfterEmpty, StepResults
<1> QED BY <1>1, <1>2

\* While the service that keeps the list works, the list that is saved is the
\* list in memory.
LEMMA AllocateMemory ==
    ASSUME TypeInv, MemoryInv, ListServiceWorks, AllocateStore
    PROVE  /\ saved' = names' /\ MemoryMatchesStores'
           /\ names # << >> => Head(names') = Head(names)
<1>1. names \in Seq(Names) /\ nextName \in Names /\ used = Len(names) /\ saved = names
  BY DEF TypeInv, TypeOK, ListType, AllocateStore, MemoryInv, MemoryMatchesStores
<1>2. names' = Append(names, nextName) /\ used' = used + 1
  BY DEF AllocateStore
<1>3. Len(names') = Len(names) + 1 /\ (names # << >> => Head(names') = Head(names))
  BY <1>1, <1>2, AppendProperties, HeadTailProperties
<1>4. saved' = names'
  BY <1>1 DEF AllocateStore, Persist, Fail, ListServiceWorks
<1> QED BY <1>1, <1>2, <1>3, <1>4 DEF MemoryMatchesStores

LEMMA MemoryWriterStep ==
    ASSUME TypeInv, MemoryInv, ListServiceWorks, WriterActions
    PROVE  MemoryInv'
<1>1. UNCHANGED <<rst, rname, rop>>
  BY DEF WriterActions, WriterStep, WriterOpen, WriterReadInfo, WriterWrite,
     WriterUpdateInfo, WriterClose, WriterGetNew, MakeWriter, WriterCall,
     ForceStoreChange, SetMessageIndex, WriterFrame, rVars
<1>2. UNCHANGED listVars \/ AllocateStore
  BY DEF WriterActions, WriterStep, WriterOpen, WriterReadInfo, WriterWrite,
     WriterUpdateInfo, WriterClose, WriterGetNew, MakeWriter, WriterCall,
     ForceStoreChange, SetMessageIndex
<1>3. CASE UNCHANGED listVars
  BY <1>1, <1>3 DEF MemoryInv, MemoryMatchesStores, OldestStoreRead, listVars
<1>4. CASE AllocateStore
  <2>1. /\ saved' = names' /\ MemoryMatchesStores'
        /\ names # << >> => Head(names') = Head(names)
    BY <1>4, AllocateMemory
  <2> QED BY <1>1, <2>1 DEF MemoryInv, OldestStoreRead, TypeInv, ReaderHasStore
<1> QED BY <1>2, <1>3, <1>4

LEMMA MemoryDelete ==
    ASSUME TypeInv, MemoryInv, ListServiceWorks, ReaderDelete
    PROVE  MemoryInv'
<1>1. names \in Seq(Names) /\ rname = Head(names) /\ used = Len(names) /\ saved = names
  BY DEF TypeInv, TypeOK, ListType, ReaderDelete, MemoryInv, MemoryMatchesStores, OldestStoreRead
<1>2. CASE UNCHANGED <<saved, names, used>> /\ ReaderAfter("err")
  <2>1. rst' \notin {"NONE", "GETNEW"}
    BY <1>2, ReaderMoves DEF ReaderDelete, StepResults
  <2> QED BY <1>2, <2>1
      DEF MemoryInv, MemoryMatchesStores, OldestStoreRead, ReaderDelete
<1>3. CASE /\ Len(names) > 1 /\ names' = Without(names, rname)
           /\ saved' = names' /\ used' = Freed /\ ReaderAfter("ok")
  <2>1. names # << >>
    BY <1>3
  <2>2. names' = Tail(names)
    BY <1>1, <1>3, <2>1, WithoutHead
  <2>3. Len(names') = Len(names) - 1
    BY <1>1, <2>1, <2>2
  <2>4. rst' = "GETNEW" /\ rop' # "idle"
    BY <1>3 DEF ReaderDelete, ReaderAfter, ReaderNext
  <2> QED BY <1>1, <1>3, <2>3, <2>4
      DEF MemoryInv, MemoryMatchesStores, OldestStoreRead, Freed
<1> QED BY <1>1, <1>2, <1>3 DEF ReaderDelete, Persist, Fail, ListServiceWorks

LEMMA MemoryReaderStep ==
    ASSUME TypeInv, MemoryInv, ListServiceWorks, ReaderStep
    PROVE  MemoryInv'
<1>1. CASE ReaderDelete
  BY <1>1, MemoryDelete
<1>2. CASE ReaderGetNew
  <2>1. rname' = Head(names) /\ UNCHANGED listVars /\ rst' # "GETNEW"
    BY <1>2 DEF ReaderGetNew, FirstStore, ReaderAfter, ReaderNext
  <2> QED BY <2>1 DEF MemoryInv, MemoryMatchesStores, OldestStoreRead, listVars
<1>3. CASE ReaderReadInfo /\ rst' = "ITER_INIT"
  BY <1>3 DEF ReaderReadInfo, MemoryInv, MemoryMatchesStores, OldestStoreRead, listVars
<1>4. CASE ReaderRead /\ rst' = rst
  BY <1>4 DEF ReaderRead, MemoryInv, MemoryMatchesStores, OldestStoreRead, listVars
<1>5. CASE /\ UNCHANGED listVars /\ rname' = rname
           /\ rop # "idle" /\ rst \notin {"NONE", "GETNEW", "DELETE"}
           /\ \E r \in StepResults : ReaderAfter(r)
  <2>1. rst' \notin {"NONE", "GETNEW"}
    BY <1>5, ReaderMoves
  <2> QED BY <1>5, <2>1 DEF MemoryInv, MemoryMatchesStores, OldestStoreRead, listVars
<1> QED BY <1>1, <1>2, <1>3, <1>4, <1>5
    DEF ReaderStep, ReaderOpen, ReaderReadInfo, ReaderIterInit, ReaderRead, ReaderWait,
        ReaderClose, SectionAvailable, StepResults

LEMMA MemoryUserStep ==
    ASSUME TypeInv, MemoryInv, UserActions
    PROVE  MemoryInv'
<1>1. UNCHANGED listVars
  BY DEF UserActions, MakeReader, ReadCall, CommitSent, CommitNothing, Commit, ResetReader
<1>2. CASE MakeReader
  BY <1>1, <1>2
  DEF MakeReader, MemoryInv, MemoryMatchesStores, OldestStoreRead, FirstStore, listVars
<1>3. CASE ReadCall
  BY <1>1, <1>3 DEF ReadCall, MemoryInv, MemoryMatchesStores, OldestStoreRead, listVars
<1>4. CASE CommitSent \/ CommitNothing
  <2>1. PICK n : Commit(n)
    BY <1>4 DEF CommitSent, CommitNothing
  <2> QED BY <1>1, <2>1
      DEF Commit, MemoryInv, MemoryMatchesStores, OldestStoreRead, listVars
<1>5. CASE ResetReader
  BY <1>1, <1>5 DEF ResetReader, MemoryInv, MemoryMatchesStores, OldestStoreRead, listVars
<1> QED BY <1>2, <1>3, <1>4, <1>5 DEF UserActions

\* The memory accounted for is that of the stores in the producer's list, across
\* full stores, deletions, resets, crashes and restarts, provided that the
\* service removes checkpoints and saves the list when it is asked to.
THEOREM MemoryCorrect ==
    ASSUME ListServiceWorks
    PROVE  Spec => []MemoryMatchesStores
<1>1. Init => MemoryInv
  BY DEF Init, MemoryInv, MemoryMatchesStores, OldestStoreRead
<1>2. TypeInv /\ MemoryInv /\ [Next]_vars => MemoryInv'
  <2> SUFFICES ASSUME TypeInv, MemoryInv, [Next]_vars PROVE MemoryInv'
    OBVIOUS
  <2>1. CASE Shutdown \/ Crash
    BY <2>1
    DEF Shutdown, Crash, NewProcess, Reloaded, MemoryInv, MemoryMatchesStores, OldestStoreRead
  <2>2. CASE UNCHANGED vars
    BY <2>2 DEF vars, listVars, rVars, MemoryInv, MemoryMatchesStores, OldestStoreRead
  <2> QED BY <2>1, <2>2, MemoryWriterStep, MemoryReaderStep, MemoryUserStep DEF Next
<1>3. MemoryInv => MemoryMatchesStores
  BY DEF MemoryInv
<1> QED BY <1>1, <1>2, <1>3, TypeInit, TypeStep, PTL DEF Spec

-----------------------------------------------------------------------------
(* The count of the records written.                                       *)

\* The writer's offset and index count the acknowledged records from its first
\* store on, and never exceed the store.
CountedFromStart ==
    IF wst = "NONE" THEN woff = 0 /\ widx = 0 /\ acked = 0 /\ names = << >>
                    ELSE woff + widx = acked /\ widx <= MaxSections

\* A store that was never opened has no info section to take the count from.
FreshStoresHaveNoInfo ==
    /\ wname < nextName
    /\ \A n \in Names : n >= nextName => info[n] = NoInfo
    /\ wst \in {"OPEN", "READINFO"} => info[wname] = NoInfo

CountInv == CountedFromStart /\ FreshStoresHaveNoInfo

OneProcess == SyncIndexes = {} /\ MaxRestarts = 0

LEMMA CountUnchanged ==
    ASSUME TypeInv, CountInv, UNCHANGED <<wst, wname, woff, widx, acked, nextName>>,
           names' = names \/ wst # "NONE",
           \A n \in Names : info[n] = NoInfo => info'[n] = NoInfo
    PROVE  CountInv'
<1>1. CountedFromStart'
  BY DEF CountInv, CountedFromStart
<1>2. wst \in {"OPEN", "READINFO"} => wname \in Names
  BY DEF TypeInv, WriterHasStore
<1>3. FreshStoresHaveNoInfo'
  BY <1>2 DEF CountInv, FreshStoresHaveNoInfo
<1> QED BY <1>1, <1>3 DEF CountInv

LEMMA CountNewStore ==
    ASSUME TypeInv, CountInv, AllocateStore, wname' = nextName,
           UNCHANGED <<ckptVars, woff, widx, acked>>, wst' # "NONE"
    PROVE  CountInv'
<1>1. nextName \in Names /\ nextName' = nextName + 1
  BY DEF AllocateStore
<1>2. info[nextName] = NoInfo /\ info' = info
  BY <1>1 DEF CountInv, FreshStoresHaveNoInfo, ckptVars
<1>3. FreshStoresHaveNoInfo'
  BY <1>1, <1>2 DEF CountInv, FreshStoresHaveNoInfo
<1>4. CountedFromStart'
  BY DEF CountInv, CountedFromStart
<1> QED BY <1>3, <1>4 DEF CountInv

\* A store that is full, or closed as if it were, passes its count on to the next.
LEMMA CountUpdateInfo ==
    ASSUME TypeInv, CountInv, NEW max \in {MaxSections, widx}, NEW r,
           UpdateInfoSection(max, r), wst # "NONE", wst' # "NONE",
           wst' \in {"OPEN", "READINFO"} => wst' = wst,
           UNCHANGED <<wname, acked, nextName>>
    PROVE  CountInv'
<1>1. woff' + widx' = acked' /\ widx' <= MaxSections
  <2>1. /\ woff \in Nat /\ widx \in Nat /\ max \in Nat
        /\ woff + widx = acked /\ widx <= MaxSections
    BY DEF TypeInv, TypeOK, WriterType, CountInv, CountedFromStart
  <2>2. \/ woff' = woff /\ widx' = widx
        \/ max <= widx /\ woff' = woff + max /\ widx' = 0
    BY DEF UpdateInfoSection, NextStore, HoldsMax
  <2> QED BY <2>1, <2>2
<1>2. info' \in {info, [info EXCEPT ![wname] = [off |-> woff, idx |-> widx]]}
  BY DEF UpdateInfoSection
<1>3. info' # info => wopen /\ info[wname] # NoInfo
  BY DEF UpdateInfoSection
<1>4. wname < nextName /\ \A n \in Names : n >= nextName => info'[n] = NoInfo
  BY <1>2 DEF CountInv, FreshStoresHaveNoInfo, TypeInv, TypeOK, CkptType, ListType, WriterType
<1>5. wst' \in {"OPEN", "READINFO"} => info'[wname] = NoInfo
  BY <1>3 DEF CountInv, FreshStoresHaveNoInfo
<1> QED BY <1>1, <1>4, <1>5 DEF CountInv, CountedFromStart, FreshStoresHaveNoInfo

LEMMA CountWriterOpen == ASSUME TypeInv, CountInv, WriterOpen PROVE CountInv'
<1>1. wst' \in {"OPEN", "READINFO"}
  BY DEF WriterOpen, WriterAfter, WriterNext
<1> QED BY <1>1
    DEF WriterOpen, CountInv, CountedFromStart, FreshStoresHaveNoInfo, listVars

LEMMA CountWriterReadInfo == ASSUME TypeInv, CountInv, WriterReadInfo PROVE CountInv'
<1>1. wname \in Names /\ info[wname] = NoInfo
  BY DEF WriterReadInfo, TypeInv, WriterHasStore, CountInv, FreshStoresHaveNoInfo
<1>2. UNCHANGED <<woff, widx, acked, wname, nextName, names>>
  BY <1>1 DEF WriterReadInfo, listVars
<1>3. CASE /\ info' = [info EXCEPT ![wname] = [off |-> woff, idx |-> widx]]
           /\ WriterAfter("ok")
  <2>1. wst' = "WRITE"
    BY <1>3 DEF WriterReadInfo, WriterAfter, WriterNext
  <2>2. \A n \in Names : n >= nextName => info'[n] = NoInfo
    BY <1>1, <1>3 DEF CountInv, FreshStoresHaveNoInfo, TypeInv, TypeOK, CkptType, ListType
  <2> QED BY <1>2, <2>1, <2>2
      DEF WriterReadInfo, CountInv, CountedFromStart, FreshStoresHaveNoInfo
<1>4. CASE info' = info /\ WriterAfter("err")
  <2>1. wst' = "READINFO"
    BY <1>4 DEF WriterReadInfo, WriterAfter, WriterNext
  <2> QED BY <1>2, <1>4, <2>1
      DEF WriterReadInfo, CountInv, CountedFromStart, FreshStoresHaveNoInfo
<1> QED BY <1>1, <1>3, <1>4 DEF WriterReadInfo

LEMMA CountWriterWrite == ASSUME TypeInv, CountInv, WriterWrite PROVE CountInv'
<1>1. wst' \in {"WRITE", "UPDATEINFO"}
  BY DEF WriterWrite, AddSection, WriterAfter, WriterNext
<1>2. UNCHANGED <<info, wname, woff, nextName, names>>
  BY DEF WriterWrite, listVars
<1>3. \/ UNCHANGED <<widx, acked>>
      \/ widx < MaxSections /\ widx' = widx + 1 /\ acked' = acked + 1
  BY DEF WriterWrite, AddSection, IsCheckPointFull, TypeInv, TypeOK, WriterType
<1>4. woff + widx = acked /\ widx <= MaxSections /\ woff \in Nat /\ widx \in Nat
  BY DEF WriterWrite, CountInv, CountedFromStart, TypeInv, TypeOK, WriterType
<1>5. woff' + widx' = acked' /\ widx' <= MaxSections
  BY <1>2, <1>3, <1>4
<1> QED BY <1>1, <1>2, <1>5 DEF CountInv, CountedFromStart, FreshStoresHaveNoInfo

LEMMA CountWriterUpdateInfo == ASSUME TypeInv, CountInv, WriterUpdateInfo PROVE CountInv'
<1>1. PICK r \in {"ok", "err"} : UpdateInfoSection(MaxSections, r) /\ WriterAfter(r)
  BY DEF WriterUpdateInfo
<1>2. wst' \in {"UPDATEINFO", "CLOSE"}
  BY <1>1 DEF WriterUpdateInfo, WriterAfter, WriterNext
<1> QED BY <1>1, <1>2, CountUpdateInfo DEF WriterUpdateInfo, listVars

LEMMA CountForceStoreChange == ASSUME TypeInv, CountInv, ForceStoreChange PROVE CountInv'
<1>1. PICK r \in {"ok", "err"} : UpdateInfoSection(widx, r)
  BY DEF ForceStoreChange
<1>2. wst' \in {wst, "CLOSE"} /\ wst # "NONE" /\ UNCHANGED <<wname, acked, nextName>>
  BY DEF ForceStoreChange, listVars
<1> QED BY <1>1, <1>2, CountUpdateInfo DEF TypeInv, TypeOK, WriterType

LEMMA CountWriterStep ==
    ASSUME TypeInv, CountInv, OneProcess, WriterActions
    PROVE  CountInv'
<1>1. CASE WriterClose
  <2>1. wst' \in {"CLOSE", "GETNEW"}
    BY <1>1 DEF WriterClose, WriterAfter, WriterNext
  <2> QED BY <1>1, <2>1
      DEF WriterClose, CountInv, CountedFromStart, FreshStoresHaveNoInfo, ckptVars, listVars
<1>2. CASE WriterGetNew
  <2>1. wst' # "NONE"
    BY <1>2 DEF WriterGetNew, WriterAfter, WriterNext
  <2>2. CASE AllocateStore /\ wname' = nextName
    BY <1>2, <2>1, <2>2, CountNewStore DEF WriterGetNew
  <2>3. CASE wname' = NoName /\ WriterAfter("err") /\ UNCHANGED listVars
    <3>1. wst' = "GETNEW"
      BY <1>2, <2>3 DEF WriterGetNew, WriterAfter, WriterNext
    <3>2. NoName < nextName
      BY DEF TypeInv, TypeOK, ListType
    <3> QED BY <1>2, <2>3, <3>1, <3>2
        DEF WriterGetNew, CountInv, CountedFromStart, FreshStoresHaveNoInfo, ckptVars, listVars
  <2> QED BY <1>2, <2>2, <2>3 DEF WriterGetNew
<1>3. CASE MakeWriter
  <2>1. names = << >> /\ AllocateStore /\ wname' = nextName
    BY <1>3 DEF MakeWriter, CountInv, CountedFromStart
  <2> QED BY <1>3, <2>1, CountNewStore DEF MakeWriter
<1>4. CASE WriterCall
  BY <1>4, CountUnchanged DEF WriterCall, wVars, ckptVars, listVars
<1>5. ~SetMessageIndex
  BY DEF OneProcess, SetMessageIndex
<1> QED BY <1>1, <1>2, <1>3, <1>4, <1>5, CountWriterOpen, CountWriterReadInfo,
       CountWriterWrite, CountWriterUpdateInfo, CountForceStoreChange
    DEF WriterActions, WriterStep

LEMMA CountReaderStep ==
    ASSUME TypeInv, CountInv, ReaderStep \/ UserActions
    PROVE  CountInv'
<1>1. UNCHANGED <<wst, wname, woff, widx, acked, nextName>>
  BY DEF ReaderStep, UserActions, ReaderOpen, ReaderReadInfo, ReaderIterInit, ReaderRead,
     ReaderWait, ReaderClose, ReaderDelete, ReaderGetNew, MakeReader, ReadCall, CommitSent,
     CommitNothing, Commit, ResetReader, ReaderFrame, wVars, listVars
<1>2. names' = names \/ ReaderDelete
  BY DEF ReaderStep, UserActions, ReaderOpen, ReaderReadInfo, ReaderIterInit, ReaderRead,
     ReaderWait, ReaderClose, ReaderGetNew, MakeReader, ReadCall, CommitSent,
     CommitNothing, Commit, ResetReader, listVars
<1>3. ReaderDelete => wst # "NONE"
  BY DEF TypeInv, ReaderHasStore, ReaderDelete, CountInv, CountedFromStart
<1>4. info' = info \/ info' = [info EXCEPT ![rname] = NoInfo]
  BY DEF ReaderStep, UserActions, ReaderOpen, ReaderReadInfo, ReaderIterInit, ReaderRead,
     ReaderWait, ReaderClose, ReaderDelete, ReaderGetNew, MakeReader, ReadCall, CommitSent,
     CommitNothing, Commit, ResetReader, Unlink, ckptVars
<1>5. \A n \in Names : info[n] = NoInfo => info'[n] = NoInfo
  BY <1>4 DEF TypeInv, TypeOK, CkptType
<1> QED BY <1>1, <1>2, <1>3, <1>5, CountUnchanged

\* In a process that is not restarted and takes no index from a synchronisation,
\* the number of records that an operator reads is the number acknowledged,
\* whatever the stores it went through and whatever fails.
THEOREM CountCorrect ==
    ASSUME OneProcess
    PROVE  Spec => []WrittenCountExact
<1>1. Init => CountInv
  BY DEF Init, CountInv, CountedFromStart, FreshStoresHaveNoInfo
<1>2. TypeInv /\ CountInv /\ [Next]_vars => CountInv'
  <2> SUFFICES ASSUME TypeInv, CountInv, [Next]_vars PROVE CountInv'
    OBVIOUS
  <2>1. ~(Shutdown \/ Crash)
    BY DEF TypeInv, TypeOK, HistoryType, Shutdown, Crash, NewProcess, OneProcess
  <2>2. CASE UNCHANGED vars
    BY <2>2, CountUnchanged DEF vars, wVars, ckptVars, listVars
  <2> QED BY <2>1, <2>2, CountWriterStep, CountReaderStep DEF Next
<1>3. CountInv => WrittenCountExact
  BY DEF CountInv, CountedFromStart, WrittenCountExact
<1> QED BY <1>1, <1>2, <1>3, TypeInit, TypeStep, PTL DEF Spec

-----------------------------------------------------------------------------
(* What the reader has in hand.                                            *)

Held(n, i) == data[n][i] # Absent

\* The sections read are in the store, in the order of their ids, and the
\* iterator is past them; a section to be read again is in the store.
ReadAreHeld ==
    /\ \A k \in 1 .. Len(rread) : Held(rname, rread[k])
    /\ \A j, k \in 1 .. Len(rread) : j < k => rread[j] < rread[k]
IteratorIsPast ==
    rst = "READ" =>
        /\ \A k \in 1 .. Len(rread) :
              IF rmore THEN rread[k] <= rcur ELSE rread[k] < rcur
        /\ rmore \/ Held(rname, rcur)

\* The reader leaves a store with nothing in hand.
NothingInHand ==
    rst \notin {"ITER_INIT", "READ", "WAIT_DATA", "WAIT_ERROR", "WAIT_COMMIT"} =>
        rread = << >>

HandInv == ReadAreHeld /\ IteratorIsPast /\ NothingInHand

\* Every record is in one place: one section of one store, or once among the
\* records committed.
RecordsAreAcked ==
    /\ \A n \in Names, i \in Sections : data[n][i] <= acked
    /\ \A k \in 1 .. Len(out) : out[k] \in 1 .. acked
RecordsInOnePlace ==
    /\ \A m, n \in Names, i, j \in Sections :
          Held(m, i) /\ data[m][i] = data[n][j] => m = n /\ i = j
    /\ \A k \in 1 .. Len(out), n \in Names, i \in Sections : data[n][i] # out[k]

OnceInv == HandInv /\ RecordsAreAcked /\ RecordsInOnePlace /\ DeliveredOnce

\* The service says of every write and every deletion whether it was done.
ServiceIsSure == Faults \cap {"late", "del"} = {}

-----------------------------------------------------------------------------
(* One process.                                                            *)

\* The list of stores is in the order of their creation, the reader works on
\* its oldest store or on one that has been taken from it, and what is held is
\* in the stores of the list.
ListInOrder ==
    /\ \A j, k \in 1 .. Len(names) : j < k => names[j] < names[k]
    /\ \A k \in 1 .. Len(names) : names[k] < nextName
ReaderAtOldest == rst # "NONE" => rname <= Head(names)
HeldAreListed ==
    \A n \in Names, i \in Sections :
        Held(n, i) => \E k \in 1 .. Len(names) : names[k] = n

\* The writer works on the newest store, past all that it holds, until the store
\* is marked full; a store that nobody opened has no info section and no mark.
WriterAtNewest ==
    wst \in {"OPEN", "READINFO", "WRITE", "UPDATEINFO"} =>
        /\ names # << >> /\ wname = Last(names)
        /\ wname \notin stub
        /\ \A i \in Sections : Held(wname, i) => i < widx
WriterInStep ==
    /\ wst = "NONE" => names = << >>
    /\ wst \in {"NONE", "OPEN", "READINFO", "CLOSE", "GETNEW"} => widx = 0
    /\ wst \in {"OPEN", "READINFO"} => info[wname] = NoInfo
    /\ wst \in {"READINFO", "WRITE", "UPDATEINFO"} => wopen
    /\ wst = "UPDATEINFO" => MaxSections <= widx
    /\ \A n \in Names : n >= nextName => info[n] = NoInfo /\ n \notin stub

\* A store is left only when it is marked full and empty.
LeftAreEmpty ==
    rst \in {"CLOSE", "DELETE"} =>
        rname \in stub /\ \A i \in Sections : ~ Held(rname, i)

PlacesInv ==
    /\ ListInOrder /\ ReaderAtOldest /\ HeldAreListed /\ WriterAtNewest
    /\ WriterInStep /\ LeftAreEmpty

\* The sections held are the records that follow those committed, in order.
HeldInOrder ==
    \A m, n \in Names, i, j \in Sections :
        Held(m, i) /\ Held(n, j) /\ (m < n \/ (m = n /\ i < j))
            => data[m][i] < data[n][j]
HeldFollow ==
    /\ \A n \in Names, i \in Sections : Held(n, i) => data[n][i] \in Len(out) + 1 .. acked
    /\ \A r \in Len(out) + 1 .. acked : \E n \in Names, i \in Sections : data[n][i] = r

\* What was read is what follows next, and the iterator has passed nothing else.
ReadIsNext ==
    /\ \A k \in 1 .. Len(rread) : data[rname][rread[k]] = Len(out) + k
    /\ rst = "READ" =>
          \A i \in Sections :
              /\ Held(rname, i)
              /\ IF rmore THEN i <= rcur ELSE i < rcur
              => \E k \in 1 .. Len(rread) : rread[k] = i
    /\ rst = "READ" /\ rmore => rcur = -1 \/ \E k \in 1 .. Len(rread) : rread[k] = rcur

-----------------------------------------------------------------------------
(* The reader's hand.                                                      *)

\* A step of the writer, or of anybody who leaves the reader alone and takes
\* nothing away, leaves the reader's hand as it is.
LEMMA HandKept ==
    ASSUME TypeInv, HandInv, UNCHANGED <<rname, rst, rread, rmore, rcur>>,
           \A n \in Names, i \in Sections : Held(n, i) => Held(n, i)'
    PROVE  HandInv'
<1>1. \A k \in 1 .. Len(rread) : rread[k] \in Sections
  BY DEF TypeInv, TypeOK, ReaderType
<1>2. rread # << >> \/ rst = "READ" => rname \in Names
  <2>1. rst = "NONE" => rread = << >>
    BY DEF HandInv, NothingInHand
  <2> QED BY <2>1 DEF TypeInv, ReaderHasStore
<1>3. rst = "READ" /\ ~ rmore => rcur \in Sections
  BY DEF TypeInv, SectionAtHand
<1>4. ReadAreHeld'
  <2>1. CASE rread = << >>
    BY <2>1 DEF HandInv, ReadAreHeld
  <2>2. CASE rread # << >>
    BY <1>1, <1>2, <2>2 DEF HandInv, ReadAreHeld
  <2> QED BY <2>1, <2>2
<1>5. IteratorIsPast'
  BY <1>2, <1>3 DEF HandInv, IteratorIsPast
<1>6. NothingInHand'
  BY DEF HandInv, NothingInHand
<1> QED BY <1>4, <1>5, <1>6 DEF HandInv

\* A hand that has been emptied.
LEMMA HandEmptied ==
    ASSUME rread' = << >>, rst' # "READ"
    PROVE  HandInv'
BY DEF HandInv, ReadAreHeld, IteratorIsPast, NothingInHand

LEMMA HandIterInit == ASSUME ReaderIterInit PROVE HandInv'
BY DEF ReaderIterInit, HandInv, ReadAreHeld, IteratorIsPast, NothingInHand

\* A section that is read is put behind those in hand, whose ids are smaller.
LEMMA HandTakes ==
    ASSUME TypeInv, HandInv, rst = "READ", rname \in Names, NEW i \in Sections,
           Held(rname, i), \A k \in 1 .. Len(rread) : rread[k] < i,
           SectionAvailable(i), UNCHANGED <<data, rname>>
    PROVE  HandInv'
<1>1. rread \in Seq(Sections) /\ i \in Int
  BY DEF TypeInv, TypeOK, ReaderType
<1>2. rst' = "READ" /\ rcur' = i
  BY DEF SectionAvailable
<1>3. CASE rread' = rread /\ rmore' = FALSE
  BY <1>1, <1>2, <1>3 DEF HandInv, ReadAreHeld, IteratorIsPast, NothingInHand, Held
<1>4. CASE rread' = Append(rread, i) /\ rmore' = TRUE
  <2>1. /\ Len(rread') = Len(rread) + 1 /\ Len(rread) \in Nat
        /\ \A k \in 1 .. Len(rread') :
              rread'[k] = IF k <= Len(rread) THEN rread[k] ELSE i
    BY <1>1, <1>4
  <2>2. \A k \in 1 .. Len(rread) : rread[k] \in Int
    BY <1>1
  <2>3. ReadAreHeld'
    <3>1. \A k \in 1 .. Len(rread') : rread'[k] \in Sections /\ data[rname][rread'[k]] # Absent
      BY <1>1, <2>1 DEF HandInv, ReadAreHeld, Held
    <3>2. \A j, k \in 1 .. Len(rread') : j < k => rread'[j] < rread'[k]
      BY <2>1, <2>2 DEF HandInv, ReadAreHeld
    <3> QED BY <3>1, <3>2 DEF ReadAreHeld, Held
  <2>4. IteratorIsPast'
    BY <1>1, <1>2, <1>4, <2>1, <2>2 DEF IteratorIsPast
  <2> QED BY <1>2, <2>3, <2>4 DEF HandInv, NothingInHand
<1> QED BY <1>3, <1>4 DEF SectionAvailable

LEMMA HandReaderRead == ASSUME TypeInv, HandInv, ReaderRead PROVE HandInv'
<1>1. rst = "READ" /\ rname \in Names /\ UNCHANGED <<data, rname>>
  BY DEF ReaderRead, TypeInv, ReaderHasStore, ckptVars
<1>2. rcur \in Int /\ \A k \in 1 .. Len(rread) : rread[k] \in Int
  BY DEF TypeInv, TypeOK, ReaderType
<1>3. CASE ~rmore /\ SectionAvailable(rcur)
  <2>1. rcur \in Sections /\ Held(rname, rcur) /\ \A k \in 1 .. Len(rread) : rread[k] < rcur
    BY <1>1, <1>3 DEF TypeInv, SectionAtHand, HandInv, IteratorIsPast
  <2> QED BY <1>1, <1>3, <2>1, HandTakes
<1>4. CASE rmore /\ \E i \in Ahead : SectionAvailable(i)
  <2>1. PICK i \in Ahead : SectionAvailable(i)
    BY <1>4
  <2>2. i \in Sections /\ i > rcur /\ Held(rname, i)
    BY DEF Ahead, Held
  <2>3. \A k \in 1 .. Len(rread) : rread[k] < i
    BY <1>1, <1>2, <1>4, <2>2 DEF HandInv, IteratorIsPast
  <2> QED BY <1>1, <2>1, <2>2, <2>3, HandTakes
<1>5. CASE /\ UNCHANGED <<rread, rmore, rcur>>
           /\ \E r \in {"empty", "again", "err"} : ReaderAfter(r)
  <2>1. PICK r \in {"empty", "again", "err"} : ReaderAfter(r)
    BY <1>5
  <2>2. \/ rst' \in {"READ", "WAIT_DATA", "WAIT_ERROR", "WAIT_COMMIT"}
        \/ rst' = "CLOSE" /\ rread = << >>
    BY <1>1, <2>1 DEF ReaderAfter, ReaderNext, NextAfterEmpty
  <2>3. CASE rst' = "READ"
    BY <1>1, <1>5, <2>3, HandKept DEF Held
  <2>4. CASE rst' \in {"WAIT_DATA", "WAIT_ERROR", "WAIT_COMMIT"}
    BY <1>1, <1>5, <2>4 DEF HandInv, ReadAreHeld, IteratorIsPast, NothingInHand, Held
  <2>5. CASE rst' = "CLOSE" /\ rread = << >>
    BY <1>5, <2>5, HandEmptied
  <2> QED BY <2>2, <2>3, <2>4, <2>5
<1> QED BY <1>3, <1>4, <1>5 DEF ReaderRead

LEMMA HandReaderWait == ASSUME TypeInv, HandInv, ReaderWait PROVE HandInv'
<1>1. rst \in {"WAIT_DATA", "WAIT_ERROR", "WAIT_COMMIT"} /\ rst' \in {rst, "ITER_INIT"}
  BY DEF ReaderWait, ReaderAfter, ReaderNext
<1>2. UNCHANGED <<data, rname, rread>>
  BY DEF ReaderWait, ckptVars
<1> QED BY <1>1, <1>2 DEF HandInv, ReadAreHeld, IteratorIsPast, NothingInHand, Held

LEMMA HandReaderStep == ASSUME TypeInv, HandInv, ReaderStep PROVE HandInv'
<1>1. CASE ReaderOpen \/ ReaderReadInfo \/ ReaderClose \/ ReaderDelete \/ ReaderGetNew
  <2>1. rst \notin {"ITER_INIT", "READ", "WAIT_DATA", "WAIT_ERROR", "WAIT_COMMIT"}
        /\ rread' = rread
    BY <1>1 DEF ReaderOpen, ReaderReadInfo, ReaderClose, ReaderDelete, ReaderGetNew
  <2>2. rst' # "READ"
    BY <1>1 DEF ReaderOpen, ReaderReadInfo, ReaderClose, ReaderDelete, ReaderGetNew,
       ReaderAfter, ReaderNext
  <2> QED BY <2>1, <2>2, HandEmptied DEF HandInv, NothingInHand
<1> QED BY <1>1, HandIterInit, HandReaderRead, HandReaderWait DEF ReaderStep

LEMMA HandUserStep == ASSUME TypeInv, HandInv, UserActions PROVE HandInv'
<1>1. CASE MakeReader
  BY <1>1, HandEmptied DEF MakeReader, HandInv, NothingInHand
<1>2. CASE ReadCall
  BY <1>2, HandKept DEF ReadCall, ckptVars, Held
<1>3. CASE CommitSent \/ CommitNothing \/ ResetReader
  BY <1>3, HandEmptied DEF CommitSent, CommitNothing, Commit, ResetReader
<1> QED BY <1>1, <1>2, <1>3 DEF UserActions

-----------------------------------------------------------------------------
(* What a step does to the records.                                        *)

\* The writer writes the next record into a section that was not there, or
\* finds the section written and only counts the record.
RecordAppended ==
    /\ wname \in Names /\ widx \in Sections /\ ~ Held(wname, widx)
    /\ wst = "WRITE" /\ acked' = acked + 1
    /\ data' = [data EXCEPT ![wname][widx] = acked + 1]
NoRecordTouched == data' = data /\ acked' \in {acked, acked + 1}

LEMMA WriterData ==
    ASSUME TypeInv, ServiceIsSure, WriterActions
    PROVE  /\ UNCHANGED <<out, rst, rname, rread, rmore, rcur>>
           /\ RecordAppended \/ NoRecordTouched
<1> acked \in Nat /\ data \in [Names -> [Sections -> Nat]] /\ widx \in Nat
  BY DEF TypeInv, TypeOK, HistoryType, CkptType, WriterType
<1>1. UNCHANGED <<out, rst, rname, rread, rmore, rcur>>
  BY DEF WriterActions, WriterStep, WriterOpen, WriterReadInfo, WriterWrite,
     WriterUpdateInfo, WriterClose, WriterGetNew, MakeWriter, WriterCall,
     ForceStoreChange, SetMessageIndex, WriterFrame, rVars
<1>2. CASE WriterWrite
  <2>1. CASE UNCHANGED <<data, acked>>
    BY <1>1, <2>1 DEF NoRecordTouched
  <2>2. CASE ~IsCheckPointFull /\ AddSection
    <3>1. widx \in Sections
      BY <2>2 DEF IsCheckPointFull
    <3>2. \/ data' = data /\ acked' \in {acked, acked + 1}
          \/ /\ data[wname][widx] = Absent /\ acked' = acked + 1
             /\ data' = [data EXCEPT ![wname][widx] = acked + 1]
      BY <2>2 DEF AddSection, Fail, ServiceIsSure
    <3>3. CASE wname \in Names
      BY <1>1, <1>2, <3>1, <3>2, <3>3 DEF RecordAppended, NoRecordTouched, Held, WriterWrite
    <3>4. CASE wname \notin Names
      <4>1. [data EXCEPT ![wname][widx] = acked + 1] = data
        BY <3>1, <3>4
      <4> QED BY <1>1, <3>2, <4>1 DEF NoRecordTouched
    <3> QED BY <3>3, <3>4
  <2> QED BY <1>2, <2>1, <2>2 DEF WriterWrite
<1>3. CASE ~ WriterWrite
  BY <1>1, <1>3 DEF WriterActions, WriterStep, WriterOpen, WriterReadInfo, WriterUpdateInfo,
     WriterClose, WriterGetNew, MakeWriter, WriterCall, ForceStoreChange,
     SetMessageIndex, ckptVars, NoRecordTouched
<1> QED BY <1>1, <1>2, <1>3

\* The sections of an appended record's store.
LEMMA AppendedCells ==
    ASSUME TypeInv, RecordAppended
    PROVE  /\ data' \in [Names -> [Sections -> Nat]] /\ acked \in Nat
           /\ \A n \in Names, i \in Sections :
                 data'[n][i] = IF n = wname /\ i = widx THEN acked + 1 ELSE data[n][i]
<1>1. data \in [Names -> [Sections -> Nat]] /\ acked \in Nat
  BY DEF TypeInv, TypeOK, CkptType, HistoryType
<1>2. wname \in Names /\ widx \in Sections
      /\ data' = [data EXCEPT ![wname][widx] = acked + 1]
  BY DEF RecordAppended
<1>3. data' \in [Names -> [Sections -> Nat]]
  <2>1. acked + 1 \in Nat
    BY <1>1
  <2>2. [data EXCEPT ![wname][widx] = acked + 1] \in [Names -> [Sections -> Nat]]
    BY <1>1, <2>1, SectionWritten
  <2> QED BY <1>2, <2>2
<1>4. \A n \in Names : data'[n] = IF n = wname THEN [data[n] EXCEPT ![widx] = acked + 1]
                                                ELSE data[n]
  BY <1>1, <1>2
<1> QED BY <1>1, <1>2, <1>3, <1>4

-----------------------------------------------------------------------------
(* Nothing is delivered twice.                                             *)

LEMMA AckedType == ASSUME TypeInv PROVE acked \in Nat
BY DEF TypeInv, TypeOK, HistoryType

LEMMA OutType ==
    ASSUME TypeInv
    PROVE  out \in Seq(Nat) /\ Len(out) \in Nat /\ \A k \in 1 .. Len(out) : out[k] \in Nat
BY DEF TypeInv, TypeOK, HistoryType

LEMMA DataType ==
    ASSUME TypeInv
    PROVE  /\ data \in [Names -> [Sections -> Nat]]
           /\ \A n \in Names, i \in Sections : data[n][i] \in Nat
BY DEF TypeInv, TypeOK, CkptType

LEMMA ReadType ==
    ASSUME TypeInv
    PROVE  /\ rread \in Seq(Sections) /\ Len(rread) \in Nat
           /\ \A k \in 1 .. Len(rread) : rread[k] \in Sections
BY DEF TypeInv, TypeOK, ReaderType

RecordsInv == RecordsAreAcked /\ RecordsInOnePlace /\ DeliveredOnce

LEMMA DataAcked ==
    ASSUME TypeInv, RecordsInv
    PROVE  \A n \in Names, i \in Sections : data[n][i] \in 0 .. acked
BY AckedType, DataType DEF RecordsInv, RecordsAreAcked

\* Taking records out of the stores puts none of them in two places.
LEMMA RecordsKept ==
    ASSUME TypeInv, RecordsInv, UNCHANGED out, acked' \in {acked, acked + 1},
           \A n \in Names, i \in Sections : data'[n][i] \in {Absent, data[n][i]}
    PROVE  RecordsInv'
<1>1. acked' \in Nat /\ acked <= acked'
  BY AckedType
<1>2. RecordsAreAcked'
  <2>1. \A n \in Names, i \in Sections : data'[n][i] <= acked'
    BY <1>1, AckedType, DataAcked
  <2>2. \A k \in 1 .. Len(out) : out[k] \in 1 .. acked'
    BY <1>1, AckedType, OutType DEF RecordsInv, RecordsAreAcked
  <2> QED BY <2>1, <2>2 DEF RecordsAreAcked
<1>3. RecordsInOnePlace'
  <2>1. ASSUME NEW m \in Names, NEW n \in Names, NEW i \in Sections, NEW j \in Sections,
               data'[m][i] # Absent, data'[m][i] = data'[n][j]
        PROVE  m = n /\ i = j
    <3>1. data'[m][i] = data[m][i] /\ data'[n][j] = data[n][j]
      BY <2>1
    <3>2. data[m][i] # Absent /\ data[m][i] = data[n][j]
      BY <2>1, <3>1
    <3> QED BY <3>2 DEF RecordsInv, RecordsInOnePlace, Held
  <2>2. ASSUME NEW k \in 1 .. Len(out), NEW n \in Names, NEW i \in Sections
        PROVE  data'[n][i] # out[k]
    <3>1. data[n][i] # out[k] /\ Absent # out[k]
      BY AckedType, OutType DEF RecordsInv, RecordsInOnePlace, RecordsAreAcked
    <3> QED BY <3>1
  <2>3. \A m, n \in Names, i, j \in Sections :
           Held(m, i)' /\ data'[m][i] = data'[n][j] => m = n /\ i = j
    BY <2>1 DEF Held
  <2>4. \A k \in 1 .. Len(out'), n \in Names, i \in Sections : data'[n][i] # out'[k]
    BY <2>2
  <2> QED BY <2>3, <2>4 DEF RecordsInOnePlace
<1>4. DeliveredOnce'
  BY DEF RecordsInv, DeliveredOnce
<1> QED BY <1>2, <1>3, <1>4 DEF RecordsInv

\* The record appended is a new one.
LEMMA RecordsAppended ==
    ASSUME TypeInv, RecordsInv, RecordAppended, UNCHANGED out
    PROVE  RecordsInv'
<1>1. /\ acked' = acked + 1 /\ acked \in Nat
      /\ \A n \in Names, i \in Sections :
            data'[n][i] = IF n = wname /\ i = widx THEN acked + 1 ELSE data[n][i]
      /\ \A k \in 1 .. Len(out) : out[k] \in 1 .. acked
  BY AppendedCells DEF RecordAppended, RecordsInv, RecordsAreAcked
<1>2. RecordsAreAcked'
  <2>1. ASSUME NEW n \in Names, NEW i \in Sections
        PROVE  data'[n][i] <= acked'
    <3>1. data[n][i] \in 0 .. acked
      BY DataAcked
    <3>2. data'[n][i] \in {data[n][i], acked + 1}
      BY <1>1
    <3> QED BY <1>1, <3>1, <3>2
  <2>2. \A k \in 1 .. Len(out) : out[k] \in 1 .. acked'
    BY <1>1, AckedType, OutType
  <2> QED BY <2>1, <2>2 DEF RecordsAreAcked
<1>3. RecordsInOnePlace'
  <2>1. ASSUME NEW m \in Names, NEW n \in Names, NEW i \in Sections, NEW j \in Sections,
               data'[m][i] # Absent, data'[m][i] = data'[n][j]
        PROVE  m = n /\ i = j
    <3>1. CASE m = wname /\ i = widx
      BY <1>1, <2>1, <3>1, DataAcked
    <3>2. CASE ~ (m = wname /\ i = widx)
      <4>1. data'[m][i] = data[m][i] /\ data[m][i] <= acked
        BY <1>1, <3>2, DataAcked
      <4>2. data'[n][j] = data[n][j] \/ data'[n][j] = acked + 1
        BY <1>1
      <4>3. data'[n][j] = data[n][j]
        BY <1>1, <2>1, <4>1, <4>2
      <4>4. data[m][i] # Absent /\ data[m][i] = data[n][j]
        BY <2>1, <4>1, <4>3
      <4> QED BY <4>4 DEF RecordsInv, RecordsInOnePlace, Held
    <3> QED BY <3>1, <3>2
  <2>2. ASSUME NEW k \in 1 .. Len(out), NEW n \in Names, NEW i \in Sections
        PROVE  data'[n][i] # out[k]
    <3>1. data[n][i] # out[k]
      BY DEF RecordsInv, RecordsInOnePlace
    <3>2. out[k] \in 1 .. acked
      BY <1>1
    <3>3. CASE n = wname /\ i = widx
      <4>1. data'[n][i] = acked + 1
        BY <1>1, <3>3
      <4> QED BY <1>1, <3>2, <4>1
    <3>4. CASE ~ (n = wname /\ i = widx)
      <4>1. data'[n][i] = data[n][i]
        BY <1>1, <3>4
      <4> QED BY <3>1, <4>1
    <3> QED BY <3>3, <3>4
  <2>3. \A m, n \in Names, i, j \in Sections :
           Held(m, i)' /\ data'[m][i] = data'[n][j] => m = n /\ i = j
    BY <2>1 DEF Held
  <2>4. \A k \in 1 .. Len(out'), n \in Names, i \in Sections : data'[n][i] # out'[k]
    BY <2>2
  <2> QED BY <2>3, <2>4 DEF RecordsInOnePlace
<1>4. DeliveredOnce'
  BY DEF RecordsInv, DeliveredOnce
<1> QED BY <1>2, <1>3, <1>4 DEF RecordsInv

\* A commit of n records moves them from their sections to the records delivered.
RecordsMoved(n) ==
    /\ n \in 0 .. Len(rread) /\ rname \in Names /\ acked' = acked
    /\ data' = [data EXCEPT ![rname] = [i \in Sections |->
                   IF i \in FirstRead(n) THEN Absent ELSE @[i]]]
    /\ out' = out \o [k \in 1 .. n |-> data[rname][rread[k]]]

LEMMA CommitMoves ==
    ASSUME TypeInv, ServiceIsSure, NEW n \in 0 .. Len(rread), Commit(n)
    PROVE  RecordsMoved(n)
<1>1. PICK kept \in SUBSET FirstRead(n) :
         /\ IF kept = {} THEN NoFail ELSE Fail("del")
         /\ data' = [data EXCEPT ![rname] = [i \in Sections |->
                        IF i \in FirstRead(n) \ kept THEN Absent ELSE @[i]]]
  BY DEF Commit
<1>2. kept = {}
  BY <1>1 DEF Fail, ServiceIsSure
<1> QED BY <1>1, <1>2 DEF Commit, RecordsMoved, TypeInv, ReaderHasStore

LEMMA MovedCells ==
    ASSUME TypeInv, HandInv, NEW n, RecordsMoved(n)
    PROVE  /\ \A m \in Names, i \in Sections :
                 data'[m][i] = IF m = rname /\ i \in FirstRead(n) THEN Absent ELSE data[m][i]
           /\ Len(out') = Len(out) + n /\ Len(out) \in Nat /\ n \in Nat
           /\ \A k \in 1 .. Len(out) : out'[k] = out[k]
           /\ \A k \in 1 .. n : /\ rread[k] \in FirstRead(n)
                                /\ out'[Len(out) + k] = data[rname][rread[k]]
                                /\ Held(rname, rread[k])
           /\ \A k \in 1 .. Len(out') :
                 \/ k \in 1 .. Len(out)
                 \/ \E j \in 1 .. n : k = Len(out) + j
<1> DEFINE sent == [k \in 1 .. n |-> data[rname][rread[k]]]
<1>1. n \in 0 .. Len(rread) /\ rname \in Names
  BY DEF RecordsMoved
<1>2. n \in Nat /\ \A k \in 1 .. n : k \in 1 .. Len(rread) /\ rread[k] \in Sections
  BY <1>1, ReadType
<1>3. sent \in Seq(Nat) /\ Len(sent) = n /\ \A k \in 1 .. n : sent[k] = data[rname][rread[k]]
  <2>1. sent \in [1 .. n -> Nat]
    BY <1>1, <1>2, DataType
  <2> QED BY <1>2, <2>1
<1>4. out' = out \o sent
  BY DEF RecordsMoved
<1> HIDE DEF sent
<1>5. /\ Len(out') = Len(out) + n /\ Len(out) \in Nat /\ n \in Nat
      /\ \A k \in 1 .. Len(out) : out'[k] = out[k]
      /\ \A k \in 1 .. n : out'[Len(out) + k] = sent[k]
  <2>1. /\ Len(out \o sent) = Len(out) + Len(sent)
        /\ \A k \in 1 .. Len(out) + Len(sent) :
              (out \o sent)[k] = IF k <= Len(out) THEN out[k] ELSE sent[k - Len(out)]
    BY <1>3, OutType, ConcatProperties
  <2>2. \A k \in 1 .. n : Len(out) + k \in 1 .. Len(out) + n /\ (Len(out) + k) - Len(out) = k
                           /\ ~ (Len(out) + k <= Len(out))
    BY <1>2, OutType
  <2>3. \A k \in 1 .. Len(out) : k \in 1 .. Len(out) + n /\ k <= Len(out)
    BY <1>2, OutType
  <2> QED BY <1>2, <1>3, <1>4, <2>1, <2>2, <2>3, OutType
<1>6. \A m \in Names, i \in Sections :
         data'[m][i] = IF m = rname /\ i \in FirstRead(n) THEN Absent ELSE data[m][i]
  BY <1>1, DataType DEF RecordsMoved
<1>7. \A k \in 1 .. n : rread[k] \in FirstRead(n) /\ Held(rname, rread[k])
  BY <1>2 DEF FirstRead, HandInv, ReadAreHeld
<1>8. \A k \in 1 .. Len(out') : k \in 1 .. Len(out) \/ \E j \in 1 .. n : k = Len(out) + j
  <2> TAKE k \in 1 .. Len(out')
  <2>1. CASE k <= Len(out)
    BY <1>5, <2>1
  <2>2. CASE k > Len(out)
    <3>1. k - Len(out) \in 1 .. n /\ k = Len(out) + (k - Len(out))
      BY <1>5, <2>2
    <3> QED BY <3>1
  <2> QED BY <1>5, <2>1, <2>2
<1> QED BY <1>3, <1>5, <1>6, <1>7, <1>8

LEMMA RecordsDelivered ==
    ASSUME TypeInv, HandInv, RecordsInv, NEW n, RecordsMoved(n)
    PROVE  RecordsInv'
<1>1. n \in 0 .. Len(rread) /\ rname \in Names /\ acked' = acked
  BY DEF RecordsMoved
<1>2. \A k \in 1 .. n : k \in 1 .. Len(rread) /\ rread[k] \in Sections /\ Held(rname, rread[k])
  BY <1>1, MovedCells, ReadType
<1>3. RecordsAreAcked'
  <2>1. \A m \in Names, i \in Sections : data'[m][i] <= acked'
    <3>1. \A m \in Names, i \in Sections : data'[m][i] \in {Absent, data[m][i]}
      BY MovedCells
    <3> QED BY <1>1, <3>1, DataAcked, AckedType
  <2>2. ASSUME NEW k \in 1 .. Len(out')
        PROVE  out'[k] \in 1 .. acked'
    <3>1. CASE k \in 1 .. Len(out)
      BY <1>1, <3>1, MovedCells DEF RecordsInv, RecordsAreAcked
    <3>2. CASE \E j \in 1 .. n : k = Len(out) + j
      <4>1. PICK j \in 1 .. n : k = Len(out) + j
        BY <3>2
      <4>2. out'[k] = data[rname][rread[j]]
        BY <4>1, MovedCells
      <4>3. data[rname][rread[j]] \in 0 .. acked /\ data[rname][rread[j]] # Absent
        BY <1>1, <1>2, <4>1, DataAcked DEF Held
      <4> QED BY <1>1, <4>2, <4>3
    <3> QED BY <3>1, <3>2, MovedCells
  <2> QED BY <2>1, <2>2 DEF RecordsAreAcked
<1>4. RecordsInOnePlace'
  <2>1. ASSUME NEW m \in Names, NEW p \in Names, NEW i \in Sections, NEW j \in Sections,
               data'[m][i] # Absent, data'[m][i] = data'[p][j]
        PROVE  m = p /\ i = j
    <3>1. data[m][i] # Absent /\ data[m][i] = data[p][j]
      BY <2>1, MovedCells
    <3> QED BY <3>1 DEF RecordsInv, RecordsInOnePlace, Held
  <2>2. ASSUME NEW k \in 1 .. Len(out'), NEW m \in Names, NEW i \in Sections
        PROVE  data'[m][i] # out'[k]
    <3>1. CASE data'[m][i] = Absent
      BY <1>3, <3>1 DEF RecordsAreAcked
    <3>2. CASE data'[m][i] # Absent
      <4>1. data'[m][i] = data[m][i] /\ ~ (m = rname /\ i \in FirstRead(n)) /\ Held(m, i)
        <5>1. \A p \in Names, j \in Sections :
                 data'[p][j] = IF p = rname /\ j \in FirstRead(n) THEN Absent ELSE data[p][j]
          BY MovedCells
        <5> QED BY <3>2, <5>1 DEF Held
      <4>2. CASE k \in 1 .. Len(out)
        BY <4>1, <4>2, MovedCells DEF RecordsInv, RecordsInOnePlace
      <4>3. CASE \E j \in 1 .. n : k = Len(out) + j
        <5>1. PICK j \in 1 .. n : k = Len(out) + j
          BY <4>3
        <5>2. out'[k] = data[rname][rread[j]] /\ rread[j] \in FirstRead(n)
          BY <5>1, MovedCells
        <5>3. data[m][i] = data[rname][rread[j]] => m = rname /\ i = rread[j]
          BY <1>1, <1>2, <4>1, <5>1 DEF RecordsInv, RecordsInOnePlace
        <5> QED BY <4>1, <5>2, <5>3
      <4> QED BY <4>2, <4>3, MovedCells
    <3> QED BY <3>1, <3>2
  <2>3. \A m, p \in Names, i, j \in Sections :
           Held(m, i)' /\ data'[m][i] = data'[p][j] => m = p /\ i = j
    BY <2>1 DEF Held
  <2>4. \A k \in 1 .. Len(out'), p \in Names, i \in Sections : data'[p][i] # out'[k]
    BY <2>2
  <2> QED BY <2>3, <2>4 DEF RecordsInOnePlace
<1>5. DeliveredOnce'
  <2> SUFFICES ASSUME NEW k \in 1 .. Len(out'), NEW l \in 1 .. Len(out'), out'[k] = out'[l]
               PROVE  k = l
    BY DEF DeliveredOnce
  <2>1. \A q \in 1 .. Len(out), j \in 1 .. n : out[q] # data[rname][rread[j]]
    BY <1>1, <1>2 DEF RecordsInv, RecordsInOnePlace
  <2>2. \A h, j \in 1 .. n : data[rname][rread[h]] = data[rname][rread[j]] => h = j
    <3> TAKE h, j \in 1 .. n
    <3>1. data[rname][rread[h]] = data[rname][rread[j]] => rread[h] = rread[j]
      BY <1>1, <1>2 DEF RecordsInv, RecordsInOnePlace
    <3>2. h < j => rread[h] < rread[j]
      BY <1>2 DEF HandInv, ReadAreHeld
    <3>3. j < h => rread[j] < rread[h]
      BY <1>2 DEF HandInv, ReadAreHeld
    <3>4. h \in Int /\ j \in Int /\ rread[h] \in Int /\ rread[j] \in Int
      BY <1>1, <1>2
    <3> QED BY <3>1, <3>2, <3>3, <3>4
  <2>3. CASE k \in 1 .. Len(out) /\ l \in 1 .. Len(out)
    BY <2>3, MovedCells DEF RecordsInv, DeliveredOnce
  <2>4. CASE k \in 1 .. Len(out) /\ \E j \in 1 .. n : l = Len(out) + j
    BY <2>1, <2>4, MovedCells
  <2>5. CASE l \in 1 .. Len(out) /\ \E j \in 1 .. n : k = Len(out) + j
    BY <2>1, <2>5, MovedCells
  <2>6. CASE /\ \E j \in 1 .. n : k = Len(out) + j
             /\ \E j \in 1 .. n : l = Len(out) + j
    <3>1. PICK h, j \in 1 .. n : k = Len(out) + h /\ l = Len(out) + j
      BY <2>6
    <3>2. h = j
      BY <2>2, <3>1, MovedCells
    <3> QED BY <3>1, <3>2
  <2> QED BY <2>3, <2>4, <2>5, <2>6, MovedCells
<1> QED BY <1>3, <1>4, <1>5 DEF RecordsInv

\* What a step of the reader or of its user does to the records.
StoreUnlinked ==
    /\ rst = "DELETE" /\ UNCHANGED <<acked, out, rname, rread, rmore, rcur>>
    /\ data' = [data EXCEPT ![rname] = [i \in Sections |-> Absent]]

LEMMA ReaderData ==
    ASSUME TypeInv, ReaderStep
    PROVE  UNCHANGED <<data, acked, out>> \/ StoreUnlinked
BY DEF ReaderStep, ReaderOpen, ReaderReadInfo, ReaderIterInit, ReaderRead, ReaderWait,
   ReaderClose, ReaderDelete, ReaderGetNew, ReaderFrame, Unlink, StoreUnlinked, ckptVars

LEMMA UserData ==
    ASSUME TypeInv, ServiceIsSure, UserActions
    PROVE  UNCHANGED <<data, acked, out>> \/ \E n : RecordsMoved(n)
<1>1. CASE CommitSent \/ CommitNothing
  <2>1. PICK n \in 0 .. Len(rread) : Commit(n)
    BY <1>1, ReadType DEF CommitSent, CommitNothing
  <2> QED BY <2>1, CommitMoves
<1>2. CASE MakeReader \/ ReadCall \/ ResetReader
  BY <1>2 DEF MakeReader, ReadCall, ResetReader, ReaderFrame, ckptVars
<1> QED BY <1>1, <1>2 DEF UserActions

LEMMA OnceStep ==
    ASSUME TypeInv, OnceInv, ServiceIsSure, [Next]_vars
    PROVE  OnceInv'
<1>1. HandInv /\ RecordsInv
  BY DEF OnceInv, RecordsInv
<1>2. HandInv' /\ RecordsInv' => OnceInv'
  BY DEF OnceInv, RecordsInv
<1>3. CASE WriterActions
  <2>1. UNCHANGED <<out, rst, rname, rread, rmore, rcur>>
    BY <1>3, WriterData
  <2>2. CASE RecordAppended
    <3>1. \A n \in Names, i \in Sections : Held(n, i) => Held(n, i)'
      <4>1. acked + 1 # Absent
        BY AckedType
      <4>2. \A n \in Names, i \in Sections :
               data'[n][i] = IF n = wname /\ i = widx THEN acked + 1 ELSE data[n][i]
        BY <2>2, AppendedCells
      <4> QED BY <4>1, <4>2 DEF Held
    <3> QED BY <1>1, <1>2, <2>1, <2>2, <3>1, HandKept, RecordsAppended
  <2>3. CASE NoRecordTouched
    BY <1>1, <1>2, <2>1, <2>3, HandKept, RecordsKept DEF NoRecordTouched, Held
  <2> QED BY <1>3, <2>2, <2>3, WriterData
<1>4. CASE ReaderStep
  <2>1. CASE UNCHANGED <<data, acked, out>>
    BY <1>1, <1>2, <1>4, <2>1, HandReaderStep, RecordsKept
  <2>2. CASE StoreUnlinked
    <3>1. \A n \in Names, i \in Sections : data'[n][i] \in {Absent, data[n][i]}
      BY <2>2, DataType DEF StoreUnlinked
    <3> QED BY <1>1, <1>2, <1>4, <2>2, <3>1, HandReaderStep, RecordsKept DEF StoreUnlinked
  <2> QED BY <1>4, <2>1, <2>2, ReaderData
<1>5. CASE UserActions
  <2>1. CASE UNCHANGED <<data, acked, out>>
    BY <1>1, <1>2, <1>5, <2>1, HandUserStep, RecordsKept
  <2>2. CASE \E n : RecordsMoved(n)
    BY <1>1, <1>2, <1>5, <2>2, HandUserStep, RecordsDelivered
  <2> QED BY <1>5, <2>1, <2>2, UserData
<1>6. CASE Shutdown \/ Crash
  <2>1. UNCHANGED <<data, acked, out>> /\ rread' = << >> /\ rst' # "READ"
    BY <1>6 DEF Shutdown, Crash, NewProcess
  <2> QED BY <1>1, <1>2, <2>1, HandEmptied, RecordsKept
<1>7. CASE UNCHANGED vars
  <2>1. UNCHANGED <<data, acked, out, rst, rname, rread, rmore, rcur>>
    BY <1>7 DEF vars, ckptVars, rVars
  <2> QED BY <1>1, <1>2, <2>1, HandKept, RecordsKept DEF Held
<1> QED BY <1>3, <1>4, <1>5, <1>6, <1>7 DEF Next

LEMMA OnceInit == Init => OnceInv
BY DEF Init, OnceInv, HandInv, ReadAreHeld, IteratorIsPast, NothingInHand, RecordsAreAcked,
   RecordsInOnePlace, DeliveredOnce, Held

\* No record is delivered twice, whatever fails and however often the daemon
\* crashes or restarts, provided that the checkpoint service says of every write
\* and of every deletion whether it was done.
THEOREM OnceCorrect ==
    ASSUME ServiceIsSure
    PROVE  Spec => []DeliveredOnce
<1>1. TypeInv /\ OnceInv /\ [Next]_vars => OnceInv'
  BY OnceStep
<1>2. OnceInv => DeliveredOnce
  BY DEF OnceInv
<1> QED BY <1>1, <1>2, OnceInit, TypeInit, TypeStep, PTL DEF Spec

-----------------------------------------------------------------------------
(* The list of stores in one process.                                      *)

SureProcess == MaxRestarts = 0 /\ ServiceIsSure

LEMMA NamesType ==
    ASSUME TypeInv
    PROVE  /\ names \in Seq(Names) /\ Len(names) \in Nat
           /\ \A k \in 1 .. Len(names) : names[k] \in Names
           /\ nextName \in Nat /\ widx \in Nat
BY DEF TypeInv, TypeOK, ListType, WriterType

\* The newest store is one of the list, and no other is newer.
LEMMA NewestOfList ==
    ASSUME TypeInv, ListInOrder, names # << >>
    PROVE  /\ Len(names) \in 1 .. Len(names) /\ Last(names) = names[Len(names)]
           /\ Last(names) \in Names /\ Last(names) < nextName
           /\ \A k \in 1 .. Len(names) : names[k] <= Last(names)
<1>1. Len(names) \in 1 .. Len(names)
  BY NamesType
<1>2. Last(names) = names[Len(names)]
  BY DEF Last
<1>3. Last(names) \in Names /\ Last(names) < nextName
  BY <1>1, <1>2, NamesType DEF ListInOrder
<1>4. ASSUME NEW k \in 1 .. Len(names) PROVE names[k] <= Last(names)
  <2>1. CASE k = Len(names)
    BY <1>2, <1>3, <2>1
  <2>2. CASE k < Len(names)
    <3>1. names[k] < names[Len(names)] /\ names[k] \in Names
      BY <1>1, <2>2, NamesType DEF ListInOrder
    <3> QED BY <1>2, <1>3, <3>1
  <2> QED BY <2>1, <2>2, NamesType
<1> QED BY <1>1, <1>2, <1>3, <1>4

\* The oldest store is the first of the list, and no other is older.
LEMMA OldestOfList ==
    ASSUME TypeInv, ListInOrder, names # << >>
    PROVE  /\ 1 \in 1 .. Len(names) /\ Head(names) = names[1] /\ Head(names) \in Names
           /\ \A k \in 1 .. Len(names) : Head(names) <= names[k]
           /\ \A k \in 2 .. Len(names) : Head(names) < names[k]
<1>1. 1 \in 1 .. Len(names) /\ Head(names) = names[1] /\ Head(names) \in Names
  BY NamesType
<1>2. \A k \in 2 .. Len(names) : k \in 1 .. Len(names) /\ 1 < k
  BY NamesType
<1>3. \A k \in 2 .. Len(names) : Head(names) < names[k]
  BY <1>1, <1>2 DEF ListInOrder
<1>4. ASSUME NEW k \in 1 .. Len(names) PROVE Head(names) <= names[k]
  <2>1. CASE k = 1
    BY <1>1, <2>1
  <2>2. CASE k # 1
    <3>1. k \in 2 .. Len(names) /\ names[k] \in Names
      BY <2>2, NamesType
    <3> QED BY <1>1, <1>3, <3>1
  <2> QED BY <2>1, <2>2
<1> QED BY <1>1, <1>3, <1>4

\* A new store is the newest, and has nothing in it.
LEMMA PlacesAllocated ==
    ASSUME TypeInv, PlacesInv, AllocateStore, wname' = nextName, wst' = "OPEN", widx = 0,
           UNCHANGED <<ckptVars, widx, rname, rst>>
    PROVE  PlacesInv'
<1>1. nextName \in Names /\ nextName' = nextName + 1 /\ names' = Append(names, nextName)
  BY DEF AllocateStore
<1>2. /\ Len(names') = Len(names) + 1 /\ names' \in Seq(Names) /\ names' # << >>
      /\ \A k \in 1 .. Len(names) : names'[k] = names[k]
      /\ names'[Len(names) + 1] = nextName
  BY <1>1, NamesType, SMTT(30)
<1>3. \A k \in 1 .. Len(names') : k \in 1 .. Len(names) \/ k = Len(names) + 1
  BY <1>2, NamesType
<1>4. \A k \in 1 .. Len(names) : names[k] < nextName /\ names[k] \in Names
  BY NamesType DEF PlacesInv, ListInOrder
<1>5. ListInOrder'
  <2>1. ASSUME NEW j \in 1 .. Len(names'), NEW k \in 1 .. Len(names'), j < k
        PROVE  names'[j] < names'[k]
    <3>1. j \in 1 .. Len(names)
      BY <1>2, <2>1, NamesType
    <3>2. CASE k \in 1 .. Len(names)
      BY <1>2, <2>1, <3>1, <3>2 DEF PlacesInv, ListInOrder
    <3>3. CASE k = Len(names) + 1
      BY <1>2, <1>4, <3>1, <3>3
    <3> QED BY <1>3, <3>2, <3>3
  <2>2. ASSUME NEW k \in 1 .. Len(names') PROVE names'[k] < nextName'
    BY <1>1, <1>2, <1>3, <1>4, NamesType
  <2> QED BY <2>1, <2>2 DEF ListInOrder
<1>6. Last(names') = nextName
  BY <1>2 DEF Last
<1>7. ReaderAtOldest'
  <2>1. rst # "NONE" => names # << >>
    BY DEF TypeInv, ReaderHasStore
  <2>2. names # << >> => Head(names') = Head(names)
    BY <1>1, <1>2, NamesType
  <2> QED BY <2>1, <2>2 DEF PlacesInv, ReaderAtOldest
<1>8. data' = data /\ stub' = stub /\ info' = info
  BY DEF ckptVars
<1>9. HeldAreListed'
  <2> SUFFICES ASSUME NEW n \in Names, NEW i \in Sections, Held(n, i)'
               PROVE  \E k \in 1 .. Len(names') : names'[k] = n
    BY DEF HeldAreListed
  <2>1. PICK k \in 1 .. Len(names) : names[k] = n
    BY <1>8 DEF PlacesInv, HeldAreListed, Held
  <2>2. k \in 1 .. Len(names')
    BY <1>2, NamesType
  <2> QED BY <1>2, <2>1, <2>2
<1>10. WriterAtNewest'
  <2>1. nextName \notin stub
    BY <1>1 DEF PlacesInv, WriterInStep
  <2>2. \A i \in Sections : ~ Held(nextName, i)
    BY <1>1, <1>4 DEF PlacesInv, HeldAreListed
  <2> QED BY <1>2, <1>6, <1>8, <2>1, <2>2 DEF WriterAtNewest, Held
<1>11. WriterInStep'
  <2>1. \A n \in Names : n >= nextName' => info[n] = NoInfo /\ n \notin stub
    BY <1>1 DEF PlacesInv, WriterInStep
  <2>2. info[nextName] = NoInfo
    BY <1>1 DEF PlacesInv, WriterInStep
  <2> QED BY <1>8, <2>1, <2>2 DEF WriterInStep
<1>12. LeftAreEmpty'
  BY <1>8 DEF PlacesInv, LeftAreEmpty, Held
<1> QED BY <1>5, <1>7, <1>9, <1>10, <1>11, <1>12 DEF PlacesInv

\* A step that leaves the list of stores, and takes no record into a store.
LEMMA PlacesKept ==
    ASSUME TypeInv, PlacesInv, UNCHANGED <<names, nextName>>,
           rst' # "NONE" => rname' = rname /\ rst # "NONE",
           \A n \in Names, i \in Sections : Held(n, i)' => Held(n, i),
           rst' \in {"CLOSE", "DELETE"} => LeftAreEmpty',
           WriterAtNewest', WriterInStep'
    PROVE  PlacesInv'
<1>1. ListInOrder' /\ ReaderAtOldest'
  BY DEF PlacesInv, ListInOrder, ReaderAtOldest
<1>2. HeldAreListed'
  BY DEF PlacesInv, HeldAreListed
<1>3. LeftAreEmpty'
  BY DEF LeftAreEmpty
<1> QED BY <1>1, <1>2, <1>3 DEF PlacesInv

LEMMA PlacesWriter ==
    ASSUME TypeInv, PlacesInv, UNCHANGED <<names, nextName, rname, rst, data>>,
           stub \subseteq stub', WriterAtNewest', WriterInStep'
    PROVE  PlacesInv'
<1>1. LeftAreEmpty'
  BY DEF PlacesInv, LeftAreEmpty, Held
<1> QED BY <1>1, PlacesKept DEF Held

LEMMA PlacesOpen == ASSUME TypeInv, PlacesInv, WriterOpen PROVE PlacesInv'
<1>1. wst = "OPEN" /\ UNCHANGED <<names, nextName, rname, rst, data, stub, info, wname, widx>>
  BY DEF WriterOpen, WriterFrame, listVars, rVars
<1>2. wst' = "OPEN" \/ (wst' = "READINFO" /\ wopen' = TRUE)
  BY <1>1 DEF WriterOpen, WriterAfter, WriterNext
<1>3. WriterAtNewest'
  BY <1>1, <1>2 DEF PlacesInv, WriterAtNewest, Held
<1>4. WriterInStep'
  BY <1>1, <1>2 DEF PlacesInv, WriterInStep
<1> QED BY <1>1, <1>3, <1>4, PlacesWriter

LEMMA PlacesReadInfo == ASSUME TypeInv, PlacesInv, WriterReadInfo PROVE PlacesInv'
<1>1. /\ wst = "READINFO" /\ info[wname] = NoInfo /\ wname \in Names /\ wname = Last(names)
      /\ names # << >> /\ wopen
      /\ UNCHANGED <<names, nextName, rname, rst, data, stub, wname, wopen>>
  BY DEF WriterReadInfo, WriterFrame, listVars, rVars, TypeInv, WriterHasStore, PlacesInv,
     WriterInStep, WriterAtNewest
<1>2. widx' = widx
  BY <1>1 DEF WriterReadInfo
<1>3. \/ wst' = "WRITE" /\ info' = [info EXCEPT ![wname] = [off |-> woff, idx |-> widx]]
      \/ wst' = "READINFO" /\ info' = info
  BY <1>1 DEF WriterReadInfo, WriterAfter, WriterNext
<1>4. WriterAtNewest'
  BY <1>1, <1>2, <1>3 DEF PlacesInv, WriterAtNewest, Held
<1>5. ~ (wname >= nextName)
  BY <1>1, NewestOfList, NamesType DEF PlacesInv
<1>6. \A n \in Names : n >= nextName => info'[n] = info[n]
  BY <1>1, <1>3, <1>5 DEF TypeInv, TypeOK, CkptType
<1>7. WriterInStep'
  BY <1>1, <1>2, <1>3, <1>6 DEF PlacesInv, WriterInStep
<1> QED BY <1>1, <1>4, <1>7, PlacesWriter

\* The writer adds the next record at the end of the newest store, which is not
\* full and not marked, or adds nothing.
LEMMA AddedAtNewest ==
    ASSUME TypeInv, PlacesInv, ServiceIsSure, WriterWrite
    PROVE  /\ UNCHANGED <<names, nextName, rname, rst, stub, info, wname, wopen, out>>
           /\ wst = "WRITE"
           /\ \/ RecordAppended /\ widx' = widx + 1 /\ wst' = "WRITE"
              \/ UNCHANGED <<data, acked, widx, wst>>
              \/ UNCHANGED <<data, acked, widx>> /\ wst' = "UPDATEINFO" /\ MaxSections <= widx
<1>1. UNCHANGED <<names, nextName, rname, rst, stub, info, wname, wopen, out>> /\ wst = "WRITE"
  BY DEF WriterWrite, WriterFrame, listVars, rVars
<1>2. CASE IsCheckPointFull /\ WriterAfter("full") /\ UNCHANGED <<data, widx, acked>>
  <2>1. wst' \in {"WRITE", "UPDATEINFO"}
    BY <1>1, <1>2 DEF WriterAfter, WriterNext
  <2> QED BY <1>1, <1>2, <2>1 DEF IsCheckPointFull
<1>3. CASE UNCHANGED <<wst, data, widx, acked>>
  BY <1>1, <1>3
<1>4. CASE ~ IsCheckPointFull /\ AddSection
  <2>1. /\ wname \in Names /\ widx \in Sections
        /\ \A i \in Sections : Held(wname, i) => i < widx
    BY <1>1, <1>4, NamesType, NewestOfList
    DEF PlacesInv, WriterAtNewest, IsCheckPointFull
  <2>2. data[wname][widx] = Absent
    BY <2>1 DEF Held
  <2>3. \/ /\ data' = [data EXCEPT ![wname][widx] = acked + 1]
           /\ widx' = widx + 1 /\ acked' = acked + 1
        \/ UNCHANGED <<data, widx, acked>>
    BY <1>4, <2>2 DEF AddSection, Fail, ServiceIsSure
  <2>4. wst' = wst
    BY <1>4 DEF AddSection
  <2> QED BY <1>1, <2>1, <2>2, <2>3, <2>4 DEF RecordAppended, Held
<1> QED BY <1>2, <1>3, <1>4 DEF WriterWrite

LEMMA PlacesWrite ==
    ASSUME TypeInv, PlacesInv, ServiceIsSure, WriterWrite
    PROVE  PlacesInv'
<1>1. /\ UNCHANGED <<names, nextName, rname, rst, stub, info, wname, wopen>>
      /\ wst = "WRITE" /\ wst' \in {"WRITE", "UPDATEINFO"}
  BY AddedAtNewest
<1>2. wst' = "UPDATEINFO" => MaxSections <= widx'
  BY <1>1, AddedAtNewest
<1>3. WriterInStep'
  BY <1>1, <1>2 DEF PlacesInv, WriterInStep
<1>4. names # << >> /\ wname = Last(names) /\ wname \notin stub
  BY <1>1 DEF PlacesInv, WriterAtNewest
<1>5. CASE UNCHANGED <<data, widx>>
  <2>1. WriterAtNewest'
    BY <1>1, <1>5 DEF PlacesInv, WriterAtNewest, Held
  <2> QED BY <1>1, <1>3, <1>5, <2>1, PlacesWriter
<1>6. CASE RecordAppended /\ widx' = widx + 1
  <2>1. \A n \in Names, i \in Sections :
           Held(n, i)' => Held(n, i) \/ (n = wname /\ i = widx)
    <3>1. \A n \in Names, i \in Sections :
             data'[n][i] = IF n = wname /\ i = widx THEN acked + 1 ELSE data[n][i]
      BY <1>6, AppendedCells
    <3> QED BY <3>1 DEF Held
  <2>2. WriterAtNewest'
    <3>1. ASSUME NEW i \in Sections, Held(wname, i)' PROVE i < widx'
      <4>1. wname \in Names /\ widx \in Nat
        BY <1>6, NamesType DEF RecordAppended
      <4>2. i < widx \/ i = widx
        BY <1>1, <2>1, <3>1, <4>1 DEF PlacesInv, WriterAtNewest
      <4> QED BY <1>6, <4>1, <4>2
    <3> QED BY <1>1, <1>4, <3>1 DEF WriterAtNewest, Held
  <2>3. HeldAreListed'
    <3>1. \E k \in 1 .. Len(names) : names[k] = wname
      BY <1>4, NewestOfList DEF PlacesInv
    <3> QED BY <1>1, <2>1, <3>1 DEF PlacesInv, HeldAreListed
  <2>4. LeftAreEmpty'
    <3> SUFFICES ASSUME rst \in {"CLOSE", "DELETE"}
                 PROVE  rname \in stub /\ \A i \in Sections : ~ Held(rname, i)'
      BY <1>1 DEF LeftAreEmpty, Held
    <3>1. rname \in stub /\ rname \in Names /\ \A i \in Sections : ~ Held(rname, i)
      BY DEF PlacesInv, LeftAreEmpty, TypeInv, ReaderHasStore
    <3> QED BY <1>1, <1>4, <2>1, <3>1 DEF Held
  <2>5. ListInOrder' /\ ReaderAtOldest'
    BY <1>1 DEF PlacesInv, ListInOrder, ReaderAtOldest
  <2> QED BY <1>3, <2>2, <2>3, <2>4, <2>5 DEF PlacesInv
<1> QED BY <1>5, <1>6, AddedAtNewest

\* A store is marked full once it holds as many records as it shall.
LEMMA PlacesMarked ==
    ASSUME TypeInv, PlacesInv, NEW r \in {"ok", "err"}, NEW max \in Nat, max <= widx,
           UpdateInfoSection(max, r), wst \in {"WRITE", "UPDATEINFO"},
           wst' = IF r = "ok" THEN "CLOSE" ELSE wst,
           UNCHANGED <<names, nextName, rname, rst, data, wname, wopen>>
    PROVE  PlacesInv'
<1>1. wopen /\ wname \in Names /\ wname = Last(names) /\ names # << >> /\ wname \notin stub
  BY DEF TypeInv, WriterHasStore, PlacesInv, WriterInStep, WriterAtNewest
<1>2. ~ (wname >= nextName)
  BY <1>1, NewestOfList, NamesType DEF PlacesInv
<1>3. /\ info' \in {info, [info EXCEPT ![wname] = [off |-> woff, idx |-> widx]]}
      /\ \/ r = "ok" /\ stub' = stub \cup {wname} /\ widx' = 0
         \/ r = "err" /\ UNCHANGED <<stub, widx>>
  BY <1>1 DEF UpdateInfoSection, HoldsMax, NextStore
<1>4. \A n \in Names : n >= nextName => info'[n] = NoInfo /\ n \notin stub'
  <2> TAKE n \in Names
  <2>1. n >= nextName => n # wname /\ info[n] = NoInfo /\ n \notin stub
    BY <1>2 DEF PlacesInv, WriterInStep
  <2>2. n # wname => info'[n] = info[n] /\ (n \in stub' => n \in stub)
    BY <1>3 DEF TypeInv, TypeOK, CkptType
  <2> QED BY <2>1, <2>2
<1>5. WriterInStep'
  BY <1>1, <1>3, <1>4 DEF PlacesInv, WriterInStep
<1>6. WriterAtNewest'
  BY <1>3 DEF PlacesInv, WriterAtNewest, Held
<1> QED BY <1>3, <1>5, <1>6, PlacesWriter

LEMMA PlacesUpdateInfo == ASSUME TypeInv, PlacesInv, WriterUpdateInfo PROVE PlacesInv'
<1>1. PICK r \in {"ok", "err"} : UpdateInfoSection(MaxSections, r) /\ WriterAfter(r)
  BY DEF WriterUpdateInfo
<1>2. /\ wst = "UPDATEINFO" /\ MaxSections \in Nat /\ MaxSections <= widx
      /\ UNCHANGED <<names, nextName, rname, rst, data, wname, wopen>>
  BY DEF WriterUpdateInfo, WriterFrame, listVars, rVars, PlacesInv, WriterInStep
<1>3. wst' = IF r = "ok" THEN "CLOSE" ELSE wst
  BY <1>1, <1>2 DEF WriterAfter, WriterNext
<1> QED BY <1>1, <1>2, <1>3, PlacesMarked

LEMMA PlacesForce == ASSUME TypeInv, PlacesInv, ForceStoreChange PROVE PlacesInv'
<1>1. PICK r \in {"ok", "err"} : UpdateInfoSection(widx, r) /\ wst' = IF r = "ok" THEN "CLOSE" ELSE wst
  BY DEF ForceStoreChange
<1>2. /\ widx \in Nat /\ widx <= widx
      /\ UNCHANGED <<names, nextName, rname, rst, data, wname, wopen>>
  BY NamesType DEF ForceStoreChange, WriterFrame, listVars, rVars
<1>3. wst \in {"WRITE", "UPDATEINFO"}
  BY DEF ForceStoreChange, PlacesInv, WriterInStep, TypeInv, TypeOK, WriterType, WriterStates
<1> QED BY <1>1, <1>2, <1>3, PlacesMarked

LEMMA PlacesClose == ASSUME TypeInv, PlacesInv, WriterClose PROVE PlacesInv'
<1>1. /\ wst = "CLOSE" /\ wst' \in {"CLOSE", "GETNEW"}
      /\ UNCHANGED <<names, nextName, rname, rst, data, stub, info, wname, widx>>
  BY DEF WriterClose, WriterAfter, WriterNext, WriterFrame, ckptVars, listVars, rVars
<1>2. WriterAtNewest' /\ WriterInStep'
  BY <1>1 DEF PlacesInv, WriterAtNewest, WriterInStep
<1> QED BY <1>1, <1>2, PlacesWriter

LEMMA PlacesGetNew == ASSUME TypeInv, PlacesInv, WriterGetNew PROVE PlacesInv'
<1>1. /\ wst = "GETNEW" /\ widx = 0
      /\ UNCHANGED <<ckptVars, widx, rname, rst>>
  BY DEF WriterGetNew, WriterFrame, rVars, PlacesInv, WriterInStep
<1>2. CASE AllocateStore /\ wname' = nextName /\ WriterAfter("ok")
  <2>1. wst' = "OPEN"
    BY <1>1, <1>2 DEF WriterAfter, WriterNext
  <2> QED BY <1>1, <1>2, <2>1, PlacesAllocated
<1>3. CASE WriterAfter("err") /\ UNCHANGED listVars
  <2>1. wst' = "GETNEW"
    BY <1>1, <1>3 DEF WriterAfter, WriterNext
  <2>2. UNCHANGED <<names, nextName, data, stub, info>>
    BY <1>1, <1>3 DEF listVars, ckptVars
  <2>3. WriterAtNewest' /\ WriterInStep'
    BY <1>1, <2>1, <2>2 DEF PlacesInv, WriterAtNewest, WriterInStep
  <2> QED BY <1>1, <2>2, <2>3, PlacesWriter
<1> QED BY <1>2, <1>3 DEF WriterGetNew

LEMMA PlacesMakeWriter == ASSUME TypeInv, PlacesInv, MakeWriter PROVE PlacesInv'
<1>1. widx = 0 /\ names = << >> /\ wst' = "OPEN"
  BY DEF MakeWriter, PlacesInv, WriterInStep
<1>2. UNCHANGED <<ckptVars, widx, rname, rst>> /\ AllocateStore /\ wname' = nextName
  BY <1>1 DEF MakeWriter, WriterFrame, rVars
<1> QED BY <1>1, <1>2, PlacesAllocated

LEMMA PlacesCall == ASSUME TypeInv, PlacesInv, WriterCall PROVE PlacesInv'
<1>1. UNCHANGED <<names, nextName, rname, rst, data, stub, info, wst, wname, wopen, widx>>
  BY DEF WriterCall, WriterFrame, wVars, ckptVars, listVars, rVars
<1>2. WriterAtNewest' /\ WriterInStep'
  BY <1>1 DEF PlacesInv, WriterAtNewest, WriterInStep, Held
<1> QED BY <1>1, <1>2, PlacesWriter

LEMMA PlacesSetIndex == ASSUME TypeInv, PlacesInv, SetMessageIndex PROVE PlacesInv'
<1>1. /\ wst = "WRITE" /\ widx' \in Nat /\ widx < widx'
      /\ UNCHANGED <<names, nextName, rname, rst, data, stub, info, wst, wname, wopen>>
  BY NamesType DEF SetMessageIndex, ForwardIndex, WriterFrame, ckptVars, listVars, rVars
<1>2. WriterAtNewest'
  <2>1. \A i \in Sections : i < widx => i < widx'
    BY <1>1, NamesType
  <2> QED BY <1>1, <2>1 DEF PlacesInv, WriterAtNewest, Held
<1>3. WriterInStep'
  BY <1>1 DEF PlacesInv, WriterInStep
<1> QED BY <1>1, <1>2, <1>3, PlacesWriter

LEMMA PlacesWriterStep ==
    ASSUME TypeInv, PlacesInv, ServiceIsSure, WriterActions
    PROVE  PlacesInv'
BY PlacesOpen, PlacesReadInfo, PlacesWrite, PlacesUpdateInfo, PlacesClose, PlacesGetNew,
   PlacesMakeWriter, PlacesCall, PlacesForce, PlacesSetIndex
DEF WriterActions, WriterStep

\* In this process the writer adds a record or none.
LEMMA WriterAdds ==
    ASSUME TypeInv, PlacesInv, ServiceIsSure, WriterActions
    PROVE  RecordAppended \/ UNCHANGED <<data, acked>>
<1>1. CASE WriterWrite
  BY <1>1, AddedAtNewest
<1>2. CASE ~ WriterWrite
  BY <1>2 DEF WriterActions, WriterStep, WriterOpen, WriterReadInfo, WriterUpdateInfo,
     WriterClose, WriterGetNew, MakeWriter, WriterCall, ForceStoreChange,
     SetMessageIndex, ckptVars
<1> QED BY <1>1, <1>2

\* A step of the reader that leaves the list of stores.
LEMMA PlacesReader ==
    ASSUME TypeInv, PlacesInv,
           UNCHANGED <<names, nextName, stub, info, wst, wopen, wname, widx>>,
           rst' # "NONE" => rname' = rname /\ rst # "NONE",
           \A n \in Names, i \in Sections : data'[n][i] \in {Absent, data[n][i]},
           rst' \in {"CLOSE", "DELETE"} => LeftAreEmpty'
    PROVE  PlacesInv'
<1>1. \A n \in Names, i \in Sections : Held(n, i)' => Held(n, i)
  BY DEF Held
<1>2. WriterAtNewest'
  <2>1. wst \in {"OPEN", "READINFO", "WRITE", "UPDATEINFO"} => wname \in Names
    BY NewestOfList DEF PlacesInv, WriterAtNewest
  <2> QED BY <1>1, <2>1 DEF PlacesInv, WriterAtNewest, Held
<1>3. WriterInStep'
  BY DEF PlacesInv, WriterInStep
<1> QED BY <1>1, <1>2, <1>3, PlacesKept

LEMMA PlacesRead ==
    ASSUME TypeInv, HandInv, PlacesInv, ReadIsNext, ReaderRead
    PROVE  PlacesInv'
<1>1. /\ rst = "READ" /\ rname \in Names
      /\ UNCHANGED <<names, nextName, stub, info, wst, wopen, wname, widx, rname, data>>
  BY DEF ReaderRead, ReaderFrame, listVars, ckptVars, wVars, TypeInv, ReaderHasStore
<1>2. CASE rst' \in {"CLOSE", "DELETE"}
  <2>1. rmore /\ Ahead = {} /\ rname \in stub /\ rread = << >>
    BY <1>1, <1>2
    DEF ReaderRead, SectionAvailable, ReaderAfter, ReaderNext, NextAfterEmpty
  <2>2. rcur \in Int
    BY DEF TypeInv, TypeOK, ReaderType
  <2>3. ASSUME NEW i \in Sections PROVE ~ Held(rname, i)
    <3>1. CASE i <= rcur
      <4>1. ~ \E k \in 1 .. Len(rread) : rread[k] = i
        BY <2>1
      <4> QED BY <1>1, <2>1, <3>1, <4>1 DEF ReadIsNext
    <3>2. CASE i > rcur
      BY <2>1, <3>2 DEF Ahead, Held
    <3> QED BY <2>2, <3>1, <3>2
  <2>4. LeftAreEmpty'
    BY <1>1, <2>1, <2>3 DEF LeftAreEmpty, Held
  <2> QED BY <1>1, <2>4, PlacesReader
<1>3. CASE rst' \notin {"CLOSE", "DELETE"}
  BY <1>1, <1>3, PlacesReader
<1> QED BY <1>2, <1>3

\* Removing the name of a store that is not in the list leaves the list.
LEMMA WithoutAbsent ==
    ASSUME NEW list \in Seq(Names), NEW name, \A i \in 1 .. Len(list) : list[i] # name
    PROVE  Without(list, name) = list
<1>1. ~ \E i \in 1 .. Len(list) : list[i] = name
  OBVIOUS
<1> QED BY <1>1 DEF Without, RemoveFirst

\* What the reader's removal of its store does to the list.
LEMMA ListWithout ==
    ASSUME TypeInv, PlacesInv, ReaderDelete, Len(names) > 1
    PROVE  \/ rname = Head(names) /\ Without(names, rname) = Tail(names)
           \/ rname < Head(names) /\ Without(names, rname) = names
<1>1. names # << >> /\ rname \in Names /\ Head(names) \in Names /\ rname <= Head(names)
  BY OldestOfList DEF ReaderDelete, TypeInv, ReaderHasStore, PlacesInv, ReaderAtOldest
<1>2. CASE rname = Head(names)
  BY <1>1, <1>2, NamesType, WithoutHead
<1>3. CASE rname < Head(names)
  <2>1. \A k \in 1 .. Len(names) : names[k] # rname
    <3> TAKE k \in 1 .. Len(names)
    <3>1. Head(names) <= names[k] /\ names[k] \in Names
      BY <1>1, OldestOfList, NamesType DEF PlacesInv
    <3> QED BY <1>1, <1>3, <3>1
  <2> QED BY <1>3, <2>1, NamesType, WithoutAbsent
<1> QED BY <1>1, <1>2, <1>3

\* The reader removes no record with a store that it has left.
LEMMA DeleteTakesNothing == ASSUME TypeInv, PlacesInv, ReaderDelete PROVE data' = data
<1>1. rname \in Names /\ \A i \in Sections : ~ Held(rname, i)
  BY DEF ReaderDelete, PlacesInv, LeftAreEmpty, TypeInv, ReaderHasStore
<1>2. CASE Unlink(rname)
  <2>1. \A n \in Names : [data EXCEPT ![rname] = [i \in Sections |-> Absent]][n] = data[n]
    <3> TAKE n \in Names
    <3>1. data[rname] = [i \in Sections |-> Absent]
      BY <1>1, DataType DEF Held
    <3> QED BY <1>1, <3>1, DataType
  <2> QED BY <1>2, <2>1, DataType DEF Unlink
<1>3. CASE UNCHANGED ckptVars
  BY <1>3 DEF ckptVars
<1> QED BY <1>2, <1>3 DEF ReaderDelete

LEMMA PlacesDelete == ASSUME TypeInv, PlacesInv, ReaderDelete PROVE PlacesInv'
<1>1. /\ rst = "DELETE" /\ rname \in Names /\ rname \in stub
      /\ \A i \in Sections : ~ Held(rname, i)
      /\ UNCHANGED <<nextName, rname, wst, wopen, wname, widx>>
  BY DEF ReaderDelete, ReaderFrame, wVars, PlacesInv, LeftAreEmpty, TypeInv, ReaderHasStore
<1>2. \/ rst' = "DELETE" /\ UNCHANGED ckptVars
      \/ rst' = "GETNEW" /\ Unlink(rname)
  BY <1>1 DEF ReaderDelete, ReaderAfter, ReaderNext
<1>3. data' = data
  BY DeleteTakesNothing
<1>4. /\ stub' \subseteq stub /\ (rst' = "DELETE" => stub' = stub)
      /\ \A n \in Names : info[n] = NoInfo => info'[n] = NoInfo
  BY <1>1, <1>2 DEF Unlink, ckptVars, TypeInv, TypeOK, CkptType
<1>5. CASE names' = names
  <2>1. WriterAtNewest'
    BY <1>1, <1>3, <1>4, <1>5 DEF PlacesInv, WriterAtNewest, Held
  <2>2. WriterInStep'
    <3>1. wst \in {"OPEN", "READINFO"} => wname \in Names
      BY DEF TypeInv, WriterHasStore
    <3> QED BY <1>1, <1>4, <1>5, <3>1 DEF PlacesInv, WriterInStep
  <2>3. LeftAreEmpty'
    BY <1>1, <1>2, <1>3, <1>4 DEF LeftAreEmpty, Held
  <2> QED BY <1>1, <1>3, <1>5, <2>1, <2>2, <2>3, PlacesKept DEF Held
<1>6. CASE Len(names) > 1 /\ rname = Head(names) /\ names' = Tail(names)
  <2>1. /\ Len(names') = Len(names) - 1 /\ names' # << >> /\ names # << >>
        /\ \A k \in 1 .. Len(names') : k + 1 \in 1 .. Len(names) /\ names'[k] = names[k + 1]
        /\ \A k \in 2 .. Len(names) : k - 1 \in 1 .. Len(names') /\ names'[k - 1] = names[k]
    <3>1. Len(names') = Len(names) - 1 /\ names # << >>
          /\ \A k \in 1 .. Len(names') : names'[k] = names[k + 1]
      BY <1>6, NamesType, HeadTailProperties
    <3>2. \A k \in 1 .. Len(names') : k + 1 \in 1 .. Len(names)
      BY <3>1, NamesType
    <3>3. \A k \in 2 .. Len(names) : k - 1 \in 1 .. Len(names') /\ (k - 1) + 1 = k
      BY <3>1, NamesType
    <3>4. names' # << >>
      <4>1. Len(names') # 0
        BY <1>6, <3>1, NamesType
      <4> QED BY <4>1
    <3> QED BY <3>1, <3>2, <3>3, <3>4
  <2>2. ListInOrder'
    <3>1. ASSUME NEW j \in 1 .. Len(names'), NEW k \in 1 .. Len(names'), j < k
          PROVE  names'[j] < names'[k]
      <4>1. j + 1 < k + 1
        BY <3>1
      <4> QED BY <2>1, <4>1 DEF PlacesInv, ListInOrder
    <3>2. \A k \in 1 .. Len(names') : names'[k] < nextName'
      BY <1>1, <2>1 DEF PlacesInv, ListInOrder
    <3> QED BY <3>1, <3>2 DEF ListInOrder
  <2>3. ReaderAtOldest'
    <3>1. 1 \in 1 .. Len(names') /\ Head(names') = names'[1]
      BY <2>1, NamesType
    <3>2. 2 \in 2 .. Len(names) /\ names'[1] = names[2]
      BY <1>6, <2>1, NamesType
    <3>3. Head(names) < names[2]
      BY <2>1, <3>2, OldestOfList DEF PlacesInv
    <3>4. names[2] \in Names
      BY <3>2, NamesType
    <3> QED BY <1>1, <1>6, <3>1, <3>2, <3>3, <3>4 DEF ReaderAtOldest
  <2>4. HeldAreListed'
    <3> SUFFICES ASSUME NEW n \in Names, NEW i \in Sections, Held(n, i)
                 PROVE  \E k \in 1 .. Len(names') : names'[k] = n
      BY <1>3 DEF HeldAreListed, Held
    <3>1. PICK k \in 1 .. Len(names) : names[k] = n
      BY DEF PlacesInv, HeldAreListed
    <3>2. k # 1
      BY <1>1, <1>6, <2>1, <3>1, NamesType
    <3>3. k \in 2 .. Len(names)
      BY <3>2, NamesType
    <3> QED BY <2>1, <3>1, <3>3
  <2>5. Last(names') = Last(names)
    <3>1. Len(names) \in 2 .. Len(names) /\ Len(names) - 1 = Len(names')
      BY <1>6, <2>1, NamesType
    <3> QED BY <2>1, <3>1 DEF Last
  <2>6. WriterAtNewest'
    BY <1>1, <1>3, <1>4, <2>1, <2>5 DEF PlacesInv, WriterAtNewest, Held
  <2>7. WriterInStep'
    <3>1. wst # "NONE"
      BY <2>1 DEF PlacesInv, WriterInStep
    <3>2. wst \in {"OPEN", "READINFO"} => wname \in Names
      BY DEF TypeInv, WriterHasStore
    <3> QED BY <1>1, <1>4, <3>1, <3>2 DEF PlacesInv, WriterInStep
  <2>8. LeftAreEmpty'
    BY <1>1, <1>2, <1>3, <1>4 DEF LeftAreEmpty, Held
  <2> QED BY <2>2, <2>3, <2>4, <2>6, <2>7, <2>8 DEF PlacesInv
<1>7. names' = names \/ (Len(names) > 1 /\ names' = Without(names, rname))
  BY DEF ReaderDelete
<1> QED BY <1>5, <1>6, <1>7, ListWithout

LEMMA PlacesReaderStep ==
    ASSUME TypeInv, HandInv, PlacesInv, ReadIsNext, ReaderStep
    PROVE  PlacesInv'
<1>1. CASE ReaderOpen \/ ReaderReadInfo \/ ReaderIterInit \/ ReaderWait \/ ReaderClose
  <2>1. /\ rst # "NONE"
        /\ UNCHANGED <<names, nextName, stub, info, wst, wopen, wname, widx, rname, data>>
    BY <1>1 DEF ReaderOpen, ReaderReadInfo, ReaderIterInit, ReaderWait, ReaderClose,
       ReaderFrame, listVars, ckptVars, wVars
  <2>2. rst' \in {"CLOSE", "DELETE"} => rst \in {"CLOSE", "DELETE"}
    BY <1>1 DEF ReaderOpen, ReaderReadInfo, ReaderIterInit, ReaderWait, ReaderClose,
       ReaderAfter, ReaderNext
  <2>3. rst' \in {"CLOSE", "DELETE"} => LeftAreEmpty'
    BY <2>1, <2>2 DEF PlacesInv, LeftAreEmpty, Held
  <2> QED BY <2>1, <2>3, PlacesReader
<1>2. CASE ReaderGetNew
  <2>1. /\ rst # "NONE" /\ rst' = "OPEN" /\ rname' = Head(names)
        /\ UNCHANGED <<names, nextName, stub, info, wst, wopen, wname, widx, data>>
    BY <1>2 DEF ReaderGetNew, ReaderFrame, FirstStore, ReaderAfter, ReaderNext, listVars,
       ckptVars, wVars
  <2>2. Head(names) <= Head(names)
    BY <2>1, OldestOfList DEF PlacesInv, TypeInv, ReaderHasStore
  <2> QED BY <2>1, <2>2 DEF PlacesInv, ListInOrder, ReaderAtOldest, HeldAreListed,
       WriterAtNewest, WriterInStep, LeftAreEmpty, Held
<1> QED BY <1>1, <1>2, PlacesRead, PlacesDelete DEF ReaderStep

LEMMA PlacesUserStep ==
    ASSUME TypeInv, HandInv, PlacesInv, ServiceIsSure, UserActions
    PROVE  PlacesInv'
<1>1. UNCHANGED <<names, nextName, stub, info, wst, wopen, wname, widx>>
  BY DEF UserActions, MakeReader, ReadCall, CommitSent, CommitNothing, Commit, ResetReader,
     ReaderFrame, listVars, ckptVars, wVars
<1>2. CASE MakeReader
  <2>1. names # << >> /\ rst' = "OPEN" /\ rname' = Head(names) /\ data' = data
    BY <1>2 DEF MakeReader, FirstStore, ckptVars
  <2>2. Head(names) <= Head(names)
    BY <2>1, OldestOfList DEF PlacesInv
  <2> QED BY <1>1, <2>1, <2>2 DEF PlacesInv, ListInOrder, ReaderAtOldest, HeldAreListed,
       WriterAtNewest, WriterInStep, LeftAreEmpty, Held
<1>3. CASE ReadCall
  <2>1. rst # "NONE" /\ UNCHANGED <<rst, rname, data>>
    BY <1>3 DEF ReadCall, ckptVars
  <2>2. LeftAreEmpty'
    BY <1>1, <2>1 DEF PlacesInv, LeftAreEmpty, Held
  <2> QED BY <1>1, <2>1, <2>2, PlacesReader
<1>4. CASE CommitSent \/ CommitNothing
  <2>1. PICK n \in 0 .. Len(rread) : Commit(n)
    BY <1>4, ReadType DEF CommitSent, CommitNothing
  <2>2. rst # "NONE" /\ rst' = "ITER_INIT" /\ rname' = rname
    BY <2>1 DEF Commit
  <2>3. RecordsMoved(n)
    BY <2>1, CommitMoves
  <2>4. \A m \in Names, i \in Sections : data'[m][i] \in {Absent, data[m][i]}
    BY <2>3, MovedCells, SMTT(30)
  <2>5. rst' # "NONE" => rname' = rname /\ rst # "NONE"
    BY <2>2
  <2>6. rst' \in {"CLOSE", "DELETE"} => LeftAreEmpty'
    BY <2>2
  <2> QED BY <1>1, <2>4, <2>5, <2>6, PlacesReader, SMTT(60)
<1>5. CASE ResetReader
  BY <1>1, <1>5, PlacesReader DEF ResetReader, ckptVars
<1> QED BY <1>2, <1>3, <1>4, <1>5 DEF UserActions

\* The list keeps its order and the places theirs in every step of one process.
LEMMA PlacesStep ==
    ASSUME TypeInv, HandInv, PlacesInv, ReadIsNext, SureProcess, [Next]_vars
    PROVE  PlacesInv'
<1>1. ~ (Shutdown \/ Crash)
  BY DEF TypeInv, TypeOK, HistoryType, Shutdown, Crash, NewProcess, SureProcess
<1>2. CASE UNCHANGED vars
  BY <1>2 DEF vars, ckptVars, listVars, wVars, rVars, PlacesInv, ListInOrder, ReaderAtOldest,
     HeldAreListed, WriterAtNewest, WriterInStep, LeftAreEmpty, Held
<1> QED BY <1>1, <1>2, PlacesWriterStep, PlacesReaderStep, PlacesUserStep
    DEF Next, SureProcess

-----------------------------------------------------------------------------
(* The records follow each other.                                          *)

FollowInv == HeldInOrder /\ HeldFollow /\ ReadIsNext /\ DeliveredInOrder

LEMMA OutIsShort ==
    ASSUME TypeInv, RecordsInv, DeliveredInOrder
    PROVE  Len(out) <= acked
<1>1. CASE Len(out) = 0
  BY <1>1, AckedType
<1>2. CASE Len(out) # 0
  <2>1. Len(out) \in 1 .. Len(out)
    BY <1>2, OutType
  <2>2. out[Len(out)] = Len(out) /\ out[Len(out)] \in 1 .. acked
    BY <2>1 DEF DeliveredInOrder, RecordsInv, RecordsAreAcked
  <2> QED BY <2>2, OutType, AckedType
<1> QED BY <1>1, <1>2

\* A step that leaves the records where they are.
LEMMA FollowKept ==
    ASSUME FollowInv, UNCHANGED <<data, acked, out>>, ReadIsNext'
    PROVE  FollowInv'
BY DEF FollowInv, HeldInOrder, HeldFollow, DeliveredInOrder, Held

\* The record appended is the last one, and behind everything the reader passed.
LEMMA FollowAppended ==
    ASSUME TypeInv, HandInv, RecordsInv, PlacesInv, FollowInv, RecordAppended,
           UNCHANGED <<out, rst, rname, rread, rmore, rcur>>
    PROVE  FollowInv'
<1>1. /\ wname \in Names /\ widx \in Sections /\ acked' = acked + 1 /\ acked \in Nat
      /\ ~ Held(wname, widx)
      /\ \A i \in Sections : Held(wname, i) => i < widx
  BY AckedType DEF RecordAppended, PlacesInv, WriterAtNewest
<1>2. \A n \in Names, i \in Sections :
         data'[n][i] = IF n = wname /\ i = widx THEN acked + 1 ELSE data[n][i]
  BY AppendedCells
<1>3. \A n \in Names, i \in Sections :
         Held(n, i) => n <= wname /\ data[n][i] \in 1 .. acked /\ data'[n][i] = data[n][i]
  <2> TAKE n \in Names, i \in Sections
  <2> HAVE Held(n, i)
  <2>1. n <= wname
    <3>1. PICK k \in 1 .. Len(names) : names[k] = n
      BY DEF PlacesInv, HeldAreListed
    <3>2. names # << >> /\ wname = Last(names)
      BY DEF RecordAppended, PlacesInv, WriterAtNewest
    <3> QED BY <3>1, <3>2, NewestOfList DEF PlacesInv
  <2>2. data[n][i] \in 0 .. acked /\ data[n][i] # Absent
    BY DataAcked DEF Held
  <2>3. data'[n][i] = data[n][i]
    BY <1>1, <1>2
  <2> QED BY <2>1, <2>2, <2>3
<1>4. \A n \in Names, i \in Sections :
         data'[n][i] # Absent => Held(n, i) \/ (n = wname /\ i = widx)
  BY <1>2 DEF Held
<1>5. HeldInOrder'
  <2> SUFFICES ASSUME NEW m \in Names, NEW n \in Names, NEW i \in Sections, NEW j \in Sections,
                      data'[m][i] # Absent, data'[n][j] # Absent,
                      m < n \/ (m = n /\ i < j)
               PROVE  data'[m][i] < data'[n][j]
    BY DEF HeldInOrder, Held
  <2>1. CASE Held(m, i) /\ Held(n, j)
    <3>1. data[m][i] < data[n][j]
      BY <2>1 DEF FollowInv, HeldInOrder
    <3> QED BY <1>3, <2>1, <3>1
  <2>2. CASE n = wname /\ j = widx /\ Held(m, i)
    <3>1. data'[m][i] \in 1 .. acked /\ data'[n][j] = acked + 1
      BY <1>2, <1>3, <2>2
    <3> QED BY <1>1, <3>1
  <2>3. ~ (m = wname /\ i = widx)
    <3>1. CASE Held(n, j)
      <4>1. n <= wname /\ (n = wname => j < widx)
        BY <1>1, <1>3, <3>1
      <4> QED BY <1>1, <4>1
    <3>2. CASE n = wname /\ j = widx
      BY <3>2
    <3> QED BY <1>4, <3>1, <3>2
  <2> QED BY <1>4, <2>1, <2>2, <2>3
<1>6. HeldFollow'
  <2>1. ASSUME NEW n \in Names, NEW i \in Sections, data'[n][i] # Absent
        PROVE  data'[n][i] \in Len(out) + 1 .. acked + 1
    <3>1. CASE Held(n, i)
      <4>1. data[n][i] \in Len(out) + 1 .. acked /\ data'[n][i] = data[n][i]
        BY <1>3, <3>1 DEF FollowInv, HeldFollow
      <4> QED BY <1>1, <4>1, OutType
    <3>2. CASE n = wname /\ i = widx
      <4>1. data'[n][i] = acked + 1
        BY <1>2, <3>2
      <4>2. Len(out) <= acked
        BY OutIsShort DEF FollowInv
      <4> QED BY <1>1, <4>1, <4>2, OutType
    <3> QED BY <1>4, <2>1, <3>1, <3>2
  <2>2. ASSUME NEW r \in Len(out) + 1 .. acked + 1
        PROVE  \E n \in Names, i \in Sections : data'[n][i] = r
    <3>1. CASE r = acked + 1
      BY <1>1, <1>2, <3>1
    <3>2. CASE r # acked + 1
      <4>1. r \in Len(out) + 1 .. acked /\ r # Absent
        BY <1>1, <3>2, OutType
      <4>2. PICK n \in Names, i \in Sections : data[n][i] = r
        BY <4>1 DEF FollowInv, HeldFollow
      <4>3. data'[n][i] = r
        BY <1>3, <4>1, <4>2 DEF Held
      <4> QED BY <4>3
    <3> QED BY <3>1, <3>2
  <2> QED BY <1>1, <2>1, <2>2 DEF HeldFollow, Held
<1>7. \A k \in 1 .. Len(rread) :
         rread[k] \in Sections /\ rname \in Names /\ Held(rname, rread[k])
  <2> TAKE k \in 1 .. Len(rread)
  <2>1. rread # << >>
    BY ReadType
  <2>2. rst # "NONE"
    BY <2>1 DEF HandInv, NothingInHand
  <2> QED BY <2>2, ReadType DEF TypeInv, ReaderHasStore, HandInv, ReadAreHeld
<1>8. ReadIsNext'
  <2>1. \A k \in 1 .. Len(rread) : data'[rname][rread[k]] = Len(out) + k
    BY <1>3, <1>7 DEF FollowInv, ReadIsNext
  <2>2. ASSUME rst = "READ", NEW i \in Sections, data'[rname][i] # Absent,
               IF rmore THEN i <= rcur ELSE i < rcur
        PROVE  \E k \in 1 .. Len(rread) : rread[k] = i
    <3>1. rname \in Names /\ rcur \in Int
      BY <2>2 DEF TypeInv, TypeOK, ReaderType, ReaderHasStore
    <3>2. CASE Held(rname, i)
      BY <2>2, <3>2 DEF FollowInv, ReadIsNext
    <3>3. ~ (rname = wname /\ i = widx)
      <4>1. SUFFICES ASSUME rname = wname PROVE i # widx
        OBVIOUS
      <4>2. CASE ~ rmore
        <5>1. Held(wname, rcur) /\ rcur \in Sections
          BY <2>2, <4>1, <4>2 DEF HandInv, IteratorIsPast, TypeInv, SectionAtHand
        <5>2. rcur < widx
          BY <1>1, <5>1
        <5> QED BY <1>1, <2>2, <3>1, <4>2, <5>2
      <4>3. CASE rmore /\ rcur = -1
        BY <2>2, <4>3
      <4>4. CASE rmore /\ \E k \in 1 .. Len(rread) : rread[k] = rcur
        <5>1. Held(wname, rcur) /\ rcur \in Sections
          BY <1>7, <4>1, <4>4
        <5>2. rcur < widx
          BY <1>1, <5>1
        <5> QED BY <1>1, <2>2, <3>1, <4>4, <5>2
      <4> QED BY <2>2, <4>2, <4>3, <4>4 DEF FollowInv, ReadIsNext
    <3> QED BY <1>4, <2>2, <3>1, <3>2, <3>3
  <2>3. rst = "READ" /\ rmore => rcur = -1 \/ \E k \in 1 .. Len(rread) : rread[k] = rcur
    BY DEF FollowInv, ReadIsNext
  <2> QED BY <2>1, <2>2, <2>3 DEF ReadIsNext, Held
<1>9. DeliveredInOrder'
  BY DEF FollowInv, DeliveredInOrder
<1> QED BY <1>5, <1>6, <1>8, <1>9 DEF FollowInv

\* Every section held before section i of the reader's store was read.
PassedBefore(i) ==
    \A j \in Sections : Held(rname, j) /\ j < i => \E k \in 1 .. Len(rread) : rread[k] = j

\* The next section held holds the record that follows those read.
LEMMA NextFollows ==
    ASSUME TypeInv, RecordsInv, PlacesInv, FollowInv, rst # "NONE", NEW i \in Sections,
           Held(rname, i), PassedBefore(i), \A k \in 1 .. Len(rread) : rread[k] < i
    PROVE  data[rname][i] = Len(out) + Len(rread) + 1
<1> DEFINE r == Len(out) + Len(rread) + 1
           v == data[rname][i]
<1>1. rname \in Names /\ rname <= Head(names) /\ names # << >>
  BY DEF TypeInv, ReaderHasStore, PlacesInv, ReaderAtOldest
<1>2. v \in Len(out) + 1 .. acked /\ acked \in Nat
  BY <1>1, AckedType DEF FollowInv, HeldFollow
<1>3. \A k \in 1 .. Len(rread) : v # Len(out) + k
  <2> TAKE k \in 1 .. Len(rread)
  <2>1. rread[k] \in Sections /\ rread[k] # i /\ data[rname][rread[k]] = Len(out) + k
    BY ReadType DEF FollowInv, ReadIsNext
  <2> QED BY <1>1, <2>1 DEF RecordsInv, RecordsInOnePlace
<1>4. v >= r
  <2>1. SUFFICES ASSUME v < r PROVE FALSE
    BY <1>2, OutType, ReadType
  <2>2. v - Len(out) \in 1 .. Len(rread) /\ v = Len(out) + (v - Len(out))
    <3>1. v \in Nat /\ Len(out) < v /\ v < Len(out) + Len(rread) + 1
      BY <1>2, <2>1, OutType
    <3> HIDE DEF v
    <3> QED BY <3>1, OutType, ReadType
  <2> QED BY <1>3, <2>2
<1>5. r \in Len(out) + 1 .. acked /\ r # Absent
  BY <1>2, <1>4, OutType, ReadType
<1>6. PICK n \in Names, j \in Sections : data[n][j] = r
  BY <1>5 DEF FollowInv, HeldFollow
<1>7. Held(n, j)
  BY <1>5, <1>6 DEF Held
<1>8. ~ (n < rname)
  <2>1. PICK k \in 1 .. Len(names) : names[k] = n
    BY <1>7 DEF PlacesInv, HeldAreListed
  <2>2. Head(names) <= n /\ Head(names) \in Names
    BY <1>1, <2>1, OldestOfList DEF PlacesInv
  <2> QED BY <1>1, <2>2
<1>9. ~ (rname < n \/ (rname = n /\ i < j))
  <2>1. SUFFICES ASSUME rname < n \/ (rname = n /\ i < j) PROVE FALSE
    OBVIOUS
  <2>2. v < r
    BY <1>1, <1>6, <1>7, <2>1 DEF FollowInv, HeldInOrder
  <2> QED BY <1>2, <1>4, <1>5, <2>2
<1>10. ~ (rname = n /\ j < i)
  <2>1. SUFFICES ASSUME rname = n, j < i PROVE FALSE
    OBVIOUS
  <2>2. PICK k \in 1 .. Len(rread) : rread[k] = j
    BY <1>7, <2>1 DEF PassedBefore
  <2>3. r = Len(out) + k
    BY <1>6, <2>1, <2>2 DEF FollowInv, ReadIsNext
  <2> QED BY <2>3, OutType, ReadType
<1>11. n = rname /\ j = i
  BY <1>1, <1>8, <1>9, <1>10
<1> QED BY <1>6, <1>11

LEMMA FollowTakes ==
    ASSUME TypeInv, RecordsInv, PlacesInv, FollowInv, rst = "READ", NEW i \in Sections,
           Held(rname, i), PassedBefore(i), \A k \in 1 .. Len(rread) : rread[k] < i,
           SectionAvailable(i), UNCHANGED <<data, rname, out>>
    PROVE  ReadIsNext'
<1>1. rst' = "READ" /\ rcur' = i
  BY DEF SectionAvailable
<1>2. CASE rread' = rread /\ rmore' = FALSE
  BY <1>1, <1>2 DEF FollowInv, ReadIsNext, PassedBefore, Held
<1>3. CASE rread' = Append(rread, i) /\ rmore' = TRUE
  <2>1. /\ Len(rread') = Len(rread) + 1
        /\ \A k \in 1 .. Len(rread) : rread'[k] = rread[k]
        /\ rread'[Len(rread) + 1] = i
    BY <1>3, ReadType
  <2>2. /\ \A k \in 1 .. Len(rread) : k \in 1 .. Len(rread')
        /\ Len(rread) + 1 \in 1 .. Len(rread')
        /\ \A k \in 1 .. Len(rread') : k \in 1 .. Len(rread) \/ k = Len(rread) + 1
    BY <2>1, ReadType
  <2>3. \A k \in 1 .. Len(rread') : data[rname][rread'[k]] = Len(out) + k
    <3>1. ASSUME NEW k \in 1 .. Len(rread') PROVE data[rname][rread'[k]] = Len(out) + k
      <4>1. CASE k \in 1 .. Len(rread)
        BY <2>1, <4>1 DEF FollowInv, ReadIsNext
      <4>2. CASE k = Len(rread) + 1
        <5>1. data[rname][i] = Len(out) + Len(rread) + 1
          BY NextFollows
        <5> QED BY <2>1, <4>2, <5>1, OutType, ReadType
      <4> QED BY <2>2, <4>1, <4>2
    <3> QED BY <3>1
  <2>4. \A j \in Sections : Held(rname, j) /\ j <= i => \E k \in 1 .. Len(rread') : rread'[k] = j
    <3> TAKE j \in Sections
    <3>1. CASE j = i
      BY <2>1, <2>2, <3>1
    <3>2. CASE Held(rname, j) /\ j < i
      <4>1. PICK k \in 1 .. Len(rread) : rread[k] = j
        BY <3>2 DEF PassedBefore
      <4> QED BY <2>1, <2>2, <4>1
    <3> QED BY <3>1, <3>2
  <2>5. \E k \in 1 .. Len(rread') : rread'[k] = i
    BY <2>1, <2>2
  <2> QED BY <1>1, <1>3, <2>3, <2>4, <2>5 DEF ReadIsNext, Held
<1> QED BY <1>2, <1>3 DEF SectionAvailable

LEMMA FollowRead ==
    ASSUME TypeInv, HandInv, RecordsInv, PlacesInv, FollowInv, ReaderRead
    PROVE  ReadIsNext'
<1>1. rst = "READ" /\ rname \in Names /\ UNCHANGED <<data, rname, out>> /\ rcur \in Int
  BY DEF ReaderRead, ReaderFrame, TypeInv, TypeOK, ReaderType, ReaderHasStore, ckptVars
<1>2. CASE ~rmore /\ SectionAvailable(rcur)
  <2>1. rcur \in Sections /\ Held(rname, rcur) /\ \A k \in 1 .. Len(rread) : rread[k] < rcur
    BY <1>1, <1>2 DEF TypeInv, SectionAtHand, HandInv, IteratorIsPast
  <2>2. PassedBefore(rcur)
    BY <1>1, <1>2 DEF FollowInv, ReadIsNext, PassedBefore
  <2> QED BY <1>1, <1>2, <2>1, <2>2, FollowTakes
<1>3. CASE rmore /\ \E i \in Ahead : (\A j \in Ahead : i <= j) /\ SectionAvailable(i)
  <2>1. PICK i \in Ahead : (\A j \in Ahead : i <= j) /\ SectionAvailable(i)
    BY <1>3
  <2>2. i \in Sections /\ i > rcur /\ Held(rname, i)
    BY DEF Ahead, Held
  <2>3. \A k \in 1 .. Len(rread) : rread[k] < i
    <3> TAKE k \in 1 .. Len(rread)
    <3>1. rread[k] <= rcur /\ rread[k] \in Int
      BY <1>1, <1>3, ReadType DEF HandInv, IteratorIsPast
    <3> QED BY <1>1, <2>2, <3>1
  <2>4. PassedBefore(i)
    <3> SUFFICES ASSUME NEW j \in Sections, Held(rname, j), j < i
                 PROVE  \E k \in 1 .. Len(rread) : rread[k] = j
      BY DEF PassedBefore
    <3>1. j \notin Ahead
      BY <2>1, <2>2
    <3>2. j <= rcur
      BY <1>1, <3>1 DEF Ahead, Held
    <3> QED BY <1>1, <1>3, <3>2 DEF FollowInv, ReadIsNext
  <2> QED BY <1>1, <2>1, <2>2, <2>3, <2>4, FollowTakes
<1>4. CASE UNCHANGED <<rread, rmore, rcur>>
  BY <1>1, <1>4 DEF FollowInv, ReadIsNext, Held
<1> QED BY <1>2, <1>3, <1>4 DEF ReaderRead

\* A reader that holds nothing in hand and is not reading, or starts over.
LEMMA FollowEmptied ==
    ASSUME rread' = << >>, rst' = "READ" => rmore' /\ rcur' = -1
    PROVE  ReadIsNext'
BY DEF ReadIsNext

LEMMA FollowReaderStep ==
    ASSUME TypeInv, HandInv, RecordsInv, PlacesInv, FollowInv, ReaderStep
    PROVE  FollowInv'
<1>1. UNCHANGED <<data, acked, out>>
  <2>1. CASE ReaderDelete
    BY <2>1, DeleteTakesNothing DEF ReaderDelete, ReaderFrame
  <2>2. CASE ~ ReaderDelete
    BY <2>2 DEF ReaderStep, ReaderOpen, ReaderReadInfo, ReaderIterInit, ReaderRead,
       ReaderWait, ReaderClose, ReaderGetNew, ReaderFrame, ckptVars
  <2> QED BY <2>1, <2>2
<1>2. CASE ReaderOpen \/ ReaderReadInfo \/ ReaderClose \/ ReaderDelete \/ ReaderGetNew
  <2>1. rst \in {"OPEN", "READINFO", "CLOSE", "DELETE", "GETNEW"} /\ rread' = rread
    BY <1>2 DEF ReaderOpen, ReaderReadInfo, ReaderClose, ReaderDelete, ReaderGetNew
  <2>2. rst' # "READ"
    BY <1>2 DEF ReaderOpen, ReaderReadInfo, ReaderClose, ReaderDelete, ReaderGetNew,
       ReaderAfter, ReaderNext
  <2>3. rread' = << >>
    BY <2>1 DEF HandInv, NothingInHand
  <2> QED BY <1>1, <2>2, <2>3, FollowEmptied, FollowKept
<1>3. CASE ReaderIterInit
  BY <1>1, <1>3, FollowEmptied, FollowKept DEF ReaderIterInit
<1>4. CASE ReaderRead
  BY <1>1, <1>4, FollowRead, FollowKept
<1>5. CASE ReaderWait
  <2>1. rst' # "READ" /\ UNCHANGED <<rread, rname>>
    BY <1>5 DEF ReaderWait, ReaderAfter, ReaderNext
  <2>2. ReadIsNext'
    BY <1>1, <2>1 DEF FollowInv, ReadIsNext
  <2> QED BY <1>1, <2>2, FollowKept
<1> QED BY <1>2, <1>3, <1>4, <1>5 DEF ReaderStep

\* The records of a commit are the next ones of the log.
LEMMA CommitIsNext ==
    ASSUME TypeInv, HandInv, FollowInv, NEW n, RecordsMoved(n)
    PROVE  /\ Len(out') = Len(out) + n /\ Len(out) \in Nat /\ n \in Nat
           /\ out' = out \o [k \in 1 .. n |-> Len(out) + k]
           /\ \A k \in 1 .. n : out'[Len(out) + k] = Len(out) + k
           /\ n > 0 => Len(out) + n <= acked
<1>1. n \in 0 .. Len(rread) /\ n \in Nat /\ \A k \in 1 .. n : k \in 1 .. Len(rread)
  BY ReadType DEF RecordsMoved
<1>2. \A k \in 1 .. n : data[rname][rread[k]] = Len(out) + k
  BY <1>1 DEF FollowInv, ReadIsNext
<1>3. [k \in 1 .. n |-> data[rname][rread[k]]] = [k \in 1 .. n |-> Len(out) + k]
  BY <1>2
<1>4. n > 0 => Len(out) + n <= acked
  <2>1. SUFFICES ASSUME n > 0 PROVE Len(out) + n <= acked
    OBVIOUS
  <2>2. n \in 1 .. n /\ rread[n] \in Sections /\ rname \in Names /\ Held(rname, rread[n])
    BY <1>1, <2>1, ReadType DEF HandInv, ReadAreHeld, RecordsMoved
  <2>3. data[rname][rread[n]] \in Len(out) + 1 .. acked
    BY <2>2 DEF FollowInv, HeldFollow
  <2> QED BY <1>2, <2>2, <2>3
<1> QED BY <1>1, <1>2, <1>3, <1>4, MovedCells DEF RecordsMoved

LEMMA FollowMoved ==
    ASSUME TypeInv, HandInv, RecordsInv, PlacesInv, FollowInv, NEW n, RecordsMoved(n),
           rst' = "ITER_INIT", rread' = << >>
    PROVE  FollowInv'
<1>1. /\ Len(out') = Len(out) + n /\ Len(out) \in Nat /\ n \in Nat /\ acked' = acked
      /\ n \in 0 .. Len(rread) /\ rname \in Names /\ acked \in Nat
  BY CommitIsNext, AckedType DEF RecordsMoved
<1>2. \A m \in Names, i \in Sections :
         data'[m][i] = IF m = rname /\ i \in FirstRead(n) THEN Absent ELSE data[m][i]
  BY MovedCells
<1>3. \A m \in Names, i \in Sections : data'[m][i] # Absent =>
         Held(m, i) /\ data'[m][i] = data[m][i] /\ ~ (m = rname /\ i \in FirstRead(n))
  BY <1>2 DEF Held
<1>4. \A k \in 1 .. n : /\ rread[k] \in Sections /\ rread[k] \in FirstRead(n)
                        /\ data[rname][rread[k]] = Len(out) + k
  <2>1. \A k \in 1 .. n : k \in 1 .. Len(rread) /\ rread[k] \in FirstRead(n)
    BY <1>1, MovedCells, ReadType
  <2> QED BY <2>1, ReadType DEF FollowInv, ReadIsNext
<1>5. HeldInOrder'
  BY <1>3 DEF FollowInv, HeldInOrder, Held
<1>6. HeldFollow'
  <2>1. ASSUME NEW m \in Names, NEW i \in Sections, data'[m][i] # Absent
        PROVE  data'[m][i] \in Len(out) + n + 1 .. acked
    <3> DEFINE v == data[m][i]
    <3>1. v \in Len(out) + 1 .. acked /\ data'[m][i] = v /\ ~ (m = rname /\ i \in FirstRead(n))
      BY <1>3, <2>1 DEF FollowInv, HeldFollow
    <3>2. SUFFICES ASSUME v <= Len(out) + n PROVE FALSE
      BY <1>1, <3>1
    <3>3. v - Len(out) \in 1 .. n /\ Len(out) + (v - Len(out)) = v
      BY <1>1, <3>1, <3>2
    <3>4. PICK k \in 1 .. n : v = Len(out) + k
      BY <3>3
    <3>5. Held(m, i) /\ rread[k] \in Sections /\ data[m][i] = data[rname][rread[k]]
      BY <1>3, <1>4, <2>1, <3>4
    <3>6. m = rname /\ i = rread[k]
      BY <1>1, <3>5 DEF RecordsInv, RecordsInOnePlace
    <3> QED BY <1>4, <3>1, <3>6
  <2>2. ASSUME NEW r \in Len(out) + n + 1 .. acked
        PROVE  \E m \in Names, i \in Sections : data'[m][i] = r
    <3>1. r \in Len(out) + 1 .. acked
      BY <1>1
    <3>2. PICK m \in Names, i \in Sections : data[m][i] = r
      BY <3>1 DEF FollowInv, HeldFollow
    <3>3. ~ (m = rname /\ i \in FirstRead(n))
      <4>1. SUFFICES ASSUME m = rname, i \in FirstRead(n) PROVE FALSE
        OBVIOUS
      <4>2. PICK k \in 1 .. n : i = rread[k]
        BY <4>1 DEF FirstRead
      <4> QED BY <1>1, <1>4, <3>2, <4>1, <4>2
    <3> QED BY <1>2, <3>2, <3>3
  <2> QED BY <1>1, <2>1, <2>2 DEF HeldFollow, Held
<1>7. DeliveredInOrder'
  <2> SUFFICES ASSUME NEW k \in 1 .. Len(out') PROVE out'[k] = k
    BY DEF DeliveredInOrder
  <2>1. CASE k \in 1 .. Len(out)
    BY <2>1, MovedCells DEF FollowInv, DeliveredInOrder
  <2>2. CASE \E j \in 1 .. n : k = Len(out) + j
    BY <2>2, CommitIsNext
  <2> QED BY <2>1, <2>2, MovedCells
<1>8. ReadIsNext'
  BY FollowEmptied
<1> QED BY <1>5, <1>6, <1>7, <1>8 DEF FollowInv

LEMMA FollowUserStep ==
    ASSUME TypeInv, HandInv, RecordsInv, PlacesInv, FollowInv, ServiceIsSure, UserActions
    PROVE  FollowInv'
<1>1. CASE CommitSent \/ CommitNothing
  <2>1. PICK n \in 0 .. Len(rread) : Commit(n)
    BY <1>1, ReadType DEF CommitSent, CommitNothing
  <2>2. rst' = "ITER_INIT" /\ rread' = << >>
    BY <2>1 DEF Commit
  <2> QED BY <2>1, <2>2, CommitMoves, FollowMoved
<1>2. CASE MakeReader \/ ReadCall \/ ResetReader
  <2>1. UNCHANGED <<data, acked, out>>
    BY <1>2 DEF MakeReader, ReadCall, ResetReader, ReaderFrame, ckptVars
  <2>2. CASE MakeReader
    <3>1. rread' = << >> /\ rst' # "READ"
      BY <2>2 DEF MakeReader, HandInv, NothingInHand
    <3> QED BY <2>1, <3>1, FollowEmptied, FollowKept
  <2>3. CASE ReadCall
    BY <2>1, <2>3, FollowKept DEF ReadCall, FollowInv, ReadIsNext, Held
  <2>4. CASE ResetReader
    <3>1. rread' = << >> /\ rst' # "READ"
      BY <2>4 DEF ResetReader
    <3> QED BY <2>1, <3>1, FollowEmptied, FollowKept
  <2> QED BY <1>2, <2>2, <2>3, <2>4
<1> QED BY <1>1, <1>2 DEF UserActions

LEMMA FollowStep ==
    ASSUME TypeInv, HandInv, RecordsInv, PlacesInv, FollowInv, SureProcess, [Next]_vars
    PROVE  FollowInv'
<1>1. ~ (Shutdown \/ Crash)
  BY DEF TypeInv, TypeOK, HistoryType, Shutdown, Crash, NewProcess, SureProcess
<1>2. CASE UNCHANGED vars
  BY <1>2, FollowKept DEF vars, ckptVars, rVars, FollowInv, ReadIsNext, Held
<1>3. CASE WriterActions
  <2>1. UNCHANGED <<out, rst, rname, rread, rmore, rcur>>
    BY <1>3, WriterData DEF SureProcess
  <2>2. CASE RecordAppended
    BY <2>1, <2>2, FollowAppended
  <2>3. CASE UNCHANGED <<data, acked>>
    BY <2>1, <2>3, FollowKept DEF FollowInv, ReadIsNext, Held
  <2> QED BY <1>3, <2>2, <2>3, WriterAdds DEF SureProcess
<1> QED BY <1>1, <1>2, <1>3, FollowReaderStep, FollowUserStep DEF Next, SureProcess

-----------------------------------------------------------------------------
(* The store of one process is a log.                                      *)

LogInv == OnceInv /\ PlacesInv /\ FollowInv

LEMMA LogInit == Init => LogInv
<1> SUFFICES ASSUME Init PROVE LogInv
  OBVIOUS
<1>1. PlacesInv
  BY DEF Init, PlacesInv, ListInOrder, ReaderAtOldest, HeldAreListed, WriterAtNewest,
     WriterInStep, LeftAreEmpty, Held
<1>2. FollowInv
  BY DEF Init, FollowInv, HeldInOrder, HeldFollow, ReadIsNext, DeliveredInOrder, Held
<1> QED BY <1>1, <1>2, OnceInit DEF LogInv

LEMMA LogStep ==
    ASSUME SureProcess
    PROVE  TypeInv /\ LogInv /\ [Next]_vars => LogInv'
<1>1. OnceInv => HandInv /\ RecordsInv
  BY DEF OnceInv, RecordsInv
<1>2. FollowInv => ReadIsNext
  BY DEF FollowInv
<1> QED BY <1>1, <1>2, OnceStep, PlacesStep, FollowStep DEF LogInv, SureProcess

LEMMA LogAlways ==
    ASSUME SureProcess
    PROVE  Spec => [](TypeInv /\ LogInv)
<1>1. TypeInv /\ LogInv /\ [Next]_vars => LogInv'
  BY LogStep
<1> QED BY <1>1, LogInit, TypeInit, TypeStep, PTL DEF Spec

\* Every record acknowledged to the producer was handed over by a commit or is in
\* a store of the list, whatever the stores it went through, the steps that fail
\* and the removals that are given up half way.
THEOREM NothingLost ==
    ASSUME SureProcess
    PROVE  Spec => []NoAckedRecordLost
<1>1. TypeInv /\ LogInv => NoAckedRecordLost
  <2> SUFFICES ASSUME TypeInv, LogInv, NEW r \in 1 .. acked, r \notin ToSet(out)
               PROVE  \E n \in ToSet(names) : r \in Stored(n)
    BY DEF NoAckedRecordLost
  <2>1. r \in Nat /\ r # Absent
    BY AckedType
  <2>2. ~ (r \in 1 .. Len(out))
    <3>1. SUFFICES ASSUME r \in 1 .. Len(out) PROVE FALSE
      OBVIOUS
    <3>2. out[r] = r
      BY <3>1 DEF LogInv, FollowInv, DeliveredInOrder
    <3> QED BY <3>1, <3>2 DEF ToSet
  <2>3. r \in Len(out) + 1 .. acked
    BY <2>1, <2>2, OutType, AckedType
  <2>4. PICK n \in Names, i \in Sections : data[n][i] = r
    BY <2>3 DEF LogInv, FollowInv, HeldFollow
  <2>5. PICK k \in 1 .. Len(names) : names[k] = n
    BY <2>1, <2>4 DEF LogInv, PlacesInv, HeldAreListed, Held
  <2>6. n \in ToSet(names) /\ r \in Stored(n)
    BY <2>1, <2>4, <2>5 DEF ToSet, Stored
  <2> QED BY <2>6
<1> QED BY <1>1, LogAlways, PTL

\* An assembler commits record 1, 2, 3, ..., through stores, reads that fail and
\* are repeated, commits of a part of what was read, and resets of the reader.
THEOREM InOrder ==
    ASSUME SureProcess
    PROVE  Spec => []DeliveredInOrder
<1>1. LogInv => DeliveredInOrder
  BY DEF LogInv, FollowInv
<1> QED BY <1>1, LogAlways, PTL

\* Only the removal of a store takes a name from the list.
LEMMA ListShrinks ==
    ASSUME TypeInv, [Next]_vars, ~ Shutdown, ~ Crash
    PROVE  names' = names \/ AllocateStore \/ ReaderDelete
BY DEF Next, WriterActions, WriterStep, UserActions, ReaderStep, WriterOpen, WriterReadInfo,
   WriterWrite, WriterUpdateInfo, WriterClose, WriterGetNew, MakeWriter, WriterCall,
   ForceStoreChange, SetMessageIndex, ReaderOpen, ReaderReadInfo, ReaderIterInit, ReaderRead,
   ReaderWait, ReaderClose, ReaderGetNew, MakeReader, ReadCall, CommitSent, CommitNothing,
   Commit, ResetReader, vars, listVars

\* A store leaves the list only when its acknowledged records were committed:
\* the store removed was marked full and read to its end.
THEOREM OnlySentDropped ==
    ASSUME SureProcess
    PROVE  Spec => OnlySentStoresDropped
<1> DEFINE Dropped == \A n \in ToSet(names) \ ToSet(names') :
                         Stored(n) \cap (1 .. acked) \subseteq ToSet(out)
<1>1. TypeInv /\ LogInv /\ [Next]_vars => Dropped
  <2> SUFFICES ASSUME TypeInv, LogInv, [Next]_vars,
                      NEW n \in ToSet(names) \ ToSet(names')
               PROVE  Stored(n) \cap (1 .. acked) \subseteq ToSet(out)
    OBVIOUS
  <2>1. ~ Shutdown /\ ~ Crash
    BY DEF TypeInv, TypeOK, HistoryType, Shutdown, Crash, NewProcess, SureProcess
  <2>2. PICK k \in 1 .. Len(names) : names[k] = n
    BY NamesType DEF ToSet
  <2>3. ~ \E j \in 1 .. Len(names') : names'[j] = n
    BY DEF ToSet
  <2>4. ~ AllocateStore
    <3>1. SUFFICES ASSUME names' = Append(names, nextName) PROVE FALSE
      BY DEF AllocateStore
    <3>2. k \in 1 .. Len(names') /\ names'[k] = n
      BY <2>2, <3>1, NamesType
    <3> QED BY <2>3, <3>2
  <2>5. ReaderDelete
    BY <2>1, <2>2, <2>3, <2>4, ListShrinks
  <2>6. rname \in Names /\ \A i \in Sections : ~ Held(rname, i)
    BY <2>5 DEF ReaderDelete, LogInv, PlacesInv, LeftAreEmpty, TypeInv, ReaderHasStore
  <2>7. n = rname
    <3>1. CASE names' = names
      BY <2>2, <2>3, <3>1
    <3>2. CASE Len(names) > 1 /\ names' = Without(names, rname)
      <4>1. rname = Head(names) /\ names' = Tail(names)
        BY <2>2, <2>3, <2>5, <3>2, ListWithout DEF LogInv
      <4>2. k = 1
        <5>1. SUFFICES ASSUME k # 1 PROVE FALSE
          OBVIOUS
        <5>2. k - 1 \in 1 .. Len(names) - 1 /\ (k - 1) + 1 = k
          BY <2>2, <5>1, NamesType
        <5>3. Len(Tail(names)) = Len(names) - 1 /\ Tail(names)[k - 1] = names[(k - 1) + 1]
          BY <3>2, <5>2, NamesType, HeadTailProperties
        <5> QED BY <2>2, <2>3, <4>1, <5>2, <5>3
      <4> QED BY <2>2, <4>1, <4>2, NamesType
    <3> QED BY <2>5, <3>1, <3>2 DEF ReaderDelete
  <2>8. Stored(n) = {}
    BY <2>6, <2>7 DEF Stored, Held
  <2> QED BY <2>8
<1>2. Spec => [](TypeInv /\ LogInv)
  BY LogAlways
<1> QED BY <1>1, <1>2, PTL DEF Spec, OnlySentStoresDropped

\* A store marked full by its stub section gains no record until it is deleted.
THEOREM FullStoresAreKept ==
    ASSUME SureProcess
    PROVE  Spec => FullStoreGrowsNot
<1> DEFINE Kept == \A n \in stub : Stored(n)' \subseteq Stored(n)
<1>1. TypeInv /\ LogInv /\ [Next]_vars => Kept
  <2> SUFFICES ASSUME TypeInv, LogInv, [Next]_vars PROVE Kept
    OBVIOUS
  <2>1. HandInv /\ RecordsInv /\ PlacesInv
    BY DEF LogInv, OnceInv, RecordsInv
  <2>2. ASSUME NEW n \in stub,
               \A i \in Sections : data'[n][i] \in {Absent, data[n][i]}
        PROVE  Stored(n)' \subseteq Stored(n)
    BY <2>2 DEF Stored
  <2>3. CASE WriterActions
    <3>1. CASE RecordAppended
      <4>1. wname \notin stub /\ stub \subseteq Names
        BY <2>1, <3>1 DEF RecordAppended, PlacesInv, WriterAtNewest, TypeInv, TypeOK, CkptType
      <4>2. \A n \in stub, i \in Sections : data'[n][i] = data[n][i]
        BY <3>1, <4>1, AppendedCells
      <4> QED BY <2>2, <4>2
    <3>2. CASE UNCHANGED <<data, acked>>
      BY <2>2, <3>2
    <3> QED BY <2>1, <2>3, <3>1, <3>2, WriterAdds DEF SureProcess
  <2>4. CASE ReaderStep
    <3>1. data' = data
      <4>1. CASE ReaderDelete
        BY <2>1, <4>1, DeleteTakesNothing
      <4>2. CASE ~ ReaderDelete
        BY <2>4, <4>2 DEF ReaderStep, ReaderOpen, ReaderReadInfo, ReaderIterInit, ReaderRead,
           ReaderWait, ReaderClose, ReaderGetNew, ckptVars
      <4> QED BY <4>1, <4>2
    <3> QED BY <2>2, <3>1
  <2>5. CASE UserActions
    <3>1. CASE \E n : RecordsMoved(n)
      <4>1. PICK m : RecordsMoved(m)
        BY <3>1
      <4>2. \A n \in Names, i \in Sections : data'[n][i] \in {Absent, data[n][i]}
        BY <2>1, <4>1, MovedCells
      <4>3. stub \subseteq Names
        BY DEF TypeInv, TypeOK, CkptType
      <4> QED BY <2>2, <4>2, <4>3
    <3>2. CASE UNCHANGED <<data, acked, out>>
      BY <2>2, <3>2
    <3> QED BY <2>5, <3>1, <3>2, UserData DEF SureProcess
  <2>6. ~ (Shutdown \/ Crash)
    BY DEF TypeInv, TypeOK, HistoryType, Shutdown, Crash, NewProcess, SureProcess
  <2>7. CASE UNCHANGED vars
    BY <2>2, <2>7 DEF vars, ckptVars
  <2> QED BY <2>3, <2>4, <2>5, <2>6, <2>7 DEF Next
<1>2. Spec => [](TypeInv /\ LogInv)
  BY LogAlways
<1> QED BY <1>1, <1>2, PTL DEF Spec, FullStoreGrowsNot

\* The store implements the log: the steps of its writer append the next record,
\* commits deliver the next ones, and every other step leaves the log alone.
THEOREM StoreIsLog ==
    ASSUME SureProcess
    PROVE  Spec => Log!SafeSpec
<1>1. Init => Log!Init
  BY DEF Init, Log!Init
<1>2. TypeInv /\ LogInv /\ [Next]_vars => [Log!Next]_(Log!vars)
  <2> SUFFICES ASSUME TypeInv, LogInv, [Next]_vars, ~ UNCHANGED <<acked, out>>
               PROVE  Log!Next
    BY DEF Log!vars
  <2>1. HandInv /\ PlacesInv /\ FollowInv
    BY DEF LogInv, OnceInv
  <2>2. CASE WriterActions
    <3>1. acked' = acked + 1 /\ UNCHANGED out
      BY <2>1, <2>2, WriterAdds, WriterData DEF SureProcess, RecordAppended
    <3> QED BY <3>1 DEF Log!Next, Log!Write
  <2>3. CASE UserActions
    <3>1. PICK n : RecordsMoved(n)
      BY <2>3, UserData DEF SureProcess
    <3>2. /\ acked' = acked /\ acked \in Nat /\ n \in Nat /\ Len(out) \in Nat
          /\ out' = out \o [k \in 1 .. n |-> Len(out) + k]
          /\ n > 0 => Len(out) + n <= acked
      BY <2>1, <3>1, CommitIsNext, AckedType DEF RecordsMoved
    <3>3. n # 0
      <4>1. SUFFICES ASSUME n = 0 PROVE FALSE
        OBVIOUS
      <4>2. [k \in 1 .. n |-> Len(out) + k] = << >>
        BY <4>1
      <4>3. out' = out \o << >>
        BY <3>2, <4>2
      <4>4. out' = out
        BY <4>3, OutType, ConcatEmptySeq
      <4> QED BY <3>2, <4>4
    <3>4. n \in 1 .. acked - Len(out)
      BY <3>2, <3>3
    <3> QED BY <3>2, <3>4 DEF Log!Next, Log!Deliver
  <2>4. CASE ReaderStep
    BY <2>4, ReaderData DEF StoreUnlinked
  <2>5. CASE Shutdown \/ Crash \/ UNCHANGED vars
    BY <2>5 DEF Shutdown, Crash, NewProcess, vars
  <2> QED BY <2>2, <2>3, <2>4, <2>5 DEF Next
<1>3. Spec => [](TypeInv /\ LogInv)
  BY LogAlways
<1> QED BY <1>1, <1>2, <1>3, PTL DEF Spec, Log!SafeSpec

-----------------------------------------------------------------------------
(* What storeEmpty compares.                                               *)

Opened(n) == info[n] # NoInfo

\* A record's number follows from the offset of its store and its section.
RecordsAtOffsets ==
    \A n \in Names, i \in Sections :
        Held(n, i) => Opened(n) /\ data[n][i] = info[n].off + i + 1

\* A store starts where those before it end, and none ends past the last record.
OffsetsInOrder ==
    /\ \A m, n \in Names :
          Opened(m) /\ Opened(n) /\ m < n => info[m].off + info[m].idx <= info[n].off
    /\ \A n \in Names : Opened(n) => info[n].off + info[n].idx <= acked
WriterOffset ==
    /\ wst \in {"OPEN", "READINFO", "WRITE", "UPDATEINFO"} =>
          \A n \in Names : n > wname => ~ Opened(n)
    /\ wst \in {"WRITE", "UPDATEINFO"} => Opened(wname) /\ info[wname].off = woff
StartsInv == RecordsAtOffsets /\ OffsetsInOrder /\ WriterOffset

\* The reader never counts more than was committed.
ReaderCounts ==
    /\ roff + rdel <= Len(out)
    /\ \A n \in Names : Opened(n) /\ rname <= n => roff <= info[n].off
    /\ rst = "NONE" \/ (rop = "init" /\ rst \in {"OPEN", "READINFO"}) =>
          roff = 0 /\ ridx = 0 /\ rdel = 0

\* A reader is made, or made to go on, at the oldest store, with nothing in hand.
ReaderStarts ==
    /\ rop = "init" => rread = << >> /\ rst \in {"OPEN", "READINFO", "ITER_INIT", "READ"}
    /\ rop = "init" /\ rst = "READ" => rmore /\ rcur = -1
    /\ rst \in {"OPEN", "READINFO"} \/ rop = "init" => rname = Head(names)
    /\ rst = "READINFO" \/ (rop = "init" /\ rst # "OPEN") => ropen
    /\ rop = "init" /\ rst \in {"ITER_INIT", "READ"} =>
          /\ Opened(rname) /\ roff = info[rname].off
          /\ roff + ridx <= info[rname].off + info[rname].idx
SentInv == StartsInv /\ ReaderCounts /\ ReaderStarts

\* One process whose service says what it did and whose iterators never fail;
\* nothing moves the index from outside.
CountedProcess ==
    SureProcess /\ OneProcess /\ "iter" \notin Faults

LEMMA InfoType ==
    ASSUME TypeInv
    PROVE  /\ info \in [Names -> Infos \cup {NoInfo}]
           /\ \A n \in Names : Opened(n) => info[n].off \in Nat /\ info[n].idx \in Nat
           /\ woff \in Nat /\ widx \in Nat /\ roff \in Nat /\ ridx \in Nat /\ rdel \in Nat
<1>1. info \in [Names -> Infos \cup {NoInfo}]
  BY DEF TypeInv, TypeOK, CkptType
<1>2. \A n \in Names : Opened(n) => info[n] \in Infos
  BY <1>1 DEF Opened
<1> QED BY <1>1, <1>2 DEF Infos, TypeInv, TypeOK, WriterType, ReaderType

LEMMA InfoTypeNext ==
    ASSUME TypeInv'
    PROVE  \A n \in Names : Opened(n)' => info'[n].off \in Nat /\ info'[n].idx \in Nat
<1>1. info' \in [Names -> Infos \cup {NoInfo}]
  BY DEF TypeInv, TypeOK, CkptType
<1>2. \A n \in Names : Opened(n)' => info'[n] \in Infos
  BY <1>1 DEF Opened
<1> QED BY <1>2 DEF Infos

LEMMA CountStep ==
    ASSUME OneProcess, TypeInv, CountInv, [Next]_vars PROVE CountInv'
<1>1. ~(Shutdown \/ Crash)
  BY DEF TypeInv, TypeOK, HistoryType, Shutdown, Crash, NewProcess, OneProcess
<1>2. CASE UNCHANGED vars
  BY <1>2, CountUnchanged DEF vars, wVars, ckptVars, listVars
<1> QED BY <1>1, <1>2, CountWriterStep, CountReaderStep DEF Next

\* All that precedes a number was committed, when no store behind the reader's
\* starts before it and the reader's own holds nothing before it.
LEMMA SentUpTo ==
    ASSUME TypeInv, RecordsInv, PlacesInv, FollowInv, StartsInv, rname \in Names,
           names # << >>, rname = Head(names), NEW c \in 0 .. acked,
           \A i \in Sections : Held(rname, i) => c <= data[rname][i] - 1,
           \A n \in Names : Opened(n) /\ rname < n => c <= info[n].off
    PROVE  c <= Len(out)
<1>1. SUFFICES ASSUME c > Len(out) PROVE FALSE
  BY OutType, AckedType
<1>2. c \in Len(out) + 1 .. acked /\ c \in Nat
  BY <1>1, OutType, AckedType
<1>3. PICK n \in Names, i \in Sections : data[n][i] = c
  BY <1>2 DEF FollowInv, HeldFollow
<1>4. Held(n, i)
  BY <1>2, <1>3, <1>1, OutType DEF Held
<1>5. PICK k \in 1 .. Len(names) : names[k] = n
  BY <1>4 DEF PlacesInv, HeldAreListed
<1>6. rname <= n
  BY <1>5, OldestOfList DEF PlacesInv
<1>7. rname # n
  BY <1>2, <1>3, <1>4
<1>8. Opened(n) /\ c = info[n].off + i + 1 /\ info[n].off \in Nat
  BY <1>3, <1>4, InfoType DEF StartsInv, RecordsAtOffsets
<1> QED BY <1>2, <1>6, <1>7, <1>8, SMTT(30)

-----------------------------------------------------------------------------
(* The steps of the writer.                                                *)

\* The offsets of the stores stay, and a new store starts at the writer's.
InfoGrows ==
    /\ \A n \in Names : Opened(n) =>
          Opened(n)' /\ info'[n].off = info[n].off /\ info[n].idx <= info'[n].idx
    /\ \A n \in Names : Opened(n)' /\ ~ Opened(n) => info'[n].off = woff /\ widx = 0

LEMMA CountsKept ==
    ASSUME TypeInv, TypeInv', CountInv, RecordsInv, FollowInv, ReaderCounts, ReaderStarts,
           InfoGrows, wst # "NONE" \/ info' = info,
           UNCHANGED <<out, rst, rop, rname, roff, ridx, rdel, rread, rmore, rcur, ropen>>,
           names' = names \/ names = << >> \/ (names # << >> /\ Head(names') = Head(names)),
           rst = "NONE" => rop # "init"
    PROVE  ReaderCounts' /\ ReaderStarts'
<1>1. \A n \in Names : Opened(n)' /\ rname <= n => roff <= info'[n].off
  <2> TAKE n \in Names
  <2>1. CASE Opened(n)
    BY <2>1 DEF InfoGrows, ReaderCounts
  <2>2. CASE ~ Opened(n) /\ Opened(n)'
    <3>1. info'[n].off = woff /\ widx = 0 /\ wst # "NONE"
      BY <2>2 DEF InfoGrows, Opened
    <3>2. woff = acked
      BY <3>1, InfoType, AckedType DEF CountInv, CountedFromStart
    <3>3. Len(out) <= acked
      BY OutIsShort DEF FollowInv
    <3> QED BY <3>1, <3>2, <3>3, InfoType, AckedType, OutType DEF ReaderCounts
  <2> QED BY <2>1, <2>2
<1>2. ReaderCounts'
  BY <1>1 DEF ReaderCounts
<1>3. rst # "NONE" => rname \in Names /\ names # << >>
  BY DEF TypeInv, ReaderHasStore
<1>4. rst \in {"OPEN", "READINFO"} \/ rop = "init" => rname = Head(names')
  BY <1>3 DEF ReaderStarts
<1>5. rop = "init" /\ rst \in {"ITER_INIT", "READ"} =>
          /\ Opened(rname)' /\ roff = info'[rname].off
          /\ roff + ridx <= info'[rname].off + info'[rname].idx
  <2>1. SUFFICES ASSUME rop = "init", rst \in {"ITER_INIT", "READ"}
                 PROVE  /\ Opened(rname)' /\ roff = info'[rname].off
                        /\ roff + ridx <= info'[rname].off + info'[rname].idx
    OBVIOUS
  <2>2. rname \in Names /\ Opened(rname) /\ roff = info[rname].off
        /\ roff + ridx <= info[rname].off + info[rname].idx
    BY <1>3, <2>1 DEF ReaderStarts
  <2>3. Opened(rname)' /\ info'[rname].off = info[rname].off
        /\ info[rname].idx <= info'[rname].idx
    BY <2>2 DEF InfoGrows
  <2>4. info[rname].idx \in Nat /\ info'[rname].idx \in Nat
    BY <2>2, <2>3, InfoType, InfoTypeNext
  <2> QED BY <2>2, <2>3, <2>4, InfoType
<1>6. ReaderStarts'
  BY <1>4, <1>5 DEF ReaderStarts
<1> QED BY <1>2, <1>6

LEMMA StartsKept ==
    ASSUME TypeInv, StartsInv, UNCHANGED <<info, data, acked, woff>>,
           wst' \in {"WRITE", "UPDATEINFO"} => wst \in {"WRITE", "UPDATEINFO"} /\ wname' = wname,
           wst' \in {"OPEN", "READINFO"} => \A n \in Names : n > wname' => ~ Opened(n)
    PROVE  StartsInv' /\ InfoGrows
<1>1. InfoGrows
  BY InfoType DEF InfoGrows, Opened
<1>2. RecordsAtOffsets' /\ OffsetsInOrder'
  BY DEF StartsInv, RecordsAtOffsets, OffsetsInOrder, Opened, Held
<1>3. WriterOffset'
  BY DEF StartsInv, WriterOffset, Opened
<1> QED BY <1>1, <1>2, <1>3 DEF StartsInv

\* The writer puts its offset and index into the info section of its store.
InfoWritten ==
    /\ wname \in Names /\ \A n \in Names : n > wname => ~ Opened(n)
    /\ \/ Opened(wname) /\ info[wname].off = woff
       \/ ~ Opened(wname) /\ widx = 0
    /\ woff + widx = acked
    /\ info' = [info EXCEPT ![wname] = [off |-> woff, idx |-> widx]]

LEMMA StartsWritten ==
    ASSUME TypeInv, StartsInv, InfoWritten, UNCHANGED <<data, acked>>,
           wst' \notin {"OPEN", "READINFO"},
           wst' \in {"WRITE", "UPDATEINFO"} => UNCHANGED <<wname, woff>>
    PROVE  StartsInv' /\ InfoGrows
<1> DEFINE new == [off |-> woff, idx |-> widx]
<1>1. /\ new.off = woff /\ new.idx = widx /\ new # NoInfo
      /\ woff \in Nat /\ widx \in Nat /\ acked \in Nat /\ wname \in Nat
  BY InfoType, AckedType DEF NoInfo, InfoWritten
<1>2. \A n \in Names : info'[n] = IF n = wname THEN new ELSE info[n]
  BY InfoType DEF InfoWritten
<1> HIDE DEF new
<1>3. \A n \in Names : Opened(n)' <=> n = wname \/ Opened(n)
  BY <1>1, <1>2 DEF Opened
<1>4. Opened(wname) => woff + info[wname].idx <= woff + widx
  BY DEF InfoWritten, StartsInv, OffsetsInOrder
<1>5. Opened(wname) => info[wname].idx <= widx
  BY <1>1, <1>4, InfoType DEF InfoWritten
<1>6. InfoGrows
  <2>1. ASSUME NEW n \in Names, Opened(n)
        PROVE  Opened(n)' /\ info'[n].off = info[n].off /\ info[n].idx <= info'[n].idx
    BY <1>1, <1>2, <1>3, <1>5, <2>1, InfoType DEF InfoWritten
  <2>2. ASSUME NEW n \in Names, Opened(n)', ~ Opened(n)
        PROVE  info'[n].off = woff /\ widx = 0
    BY <1>1, <1>2, <1>3, <2>2 DEF InfoWritten
  <2> QED BY <2>1, <2>2 DEF InfoGrows
<1>7. RecordsAtOffsets'
  <2>1. \A n \in Names, i \in Sections : Held(n, i)' <=> Held(n, i)
    BY DEF Held
  <2>2. \A n \in Names : Opened(n) => Opened(n)' /\ info'[n].off = info[n].off
    BY <1>6 DEF InfoGrows
  <2> QED BY <2>1, <2>2 DEF StartsInv, RecordsAtOffsets
<1>8. OffsetsInOrder'
  <2>1. ASSUME NEW m \in Names, NEW n \in Names, Opened(m)', Opened(n)', m < n
        PROVE  info'[m].off + info'[m].idx <= info'[n].off
    <3>1. m # wname
      BY <1>3, <2>1 DEF InfoWritten
    <3>2. Opened(m) /\ info'[m] = info[m]
      BY <1>2, <1>3, <2>1, <3>1
    <3>3. info[m].off + info[m].idx <= info'[n].off
      <4>1. CASE Opened(n)
        BY <1>6, <2>1, <3>2, <4>1 DEF InfoGrows, StartsInv, OffsetsInOrder
      <4>2. CASE ~ Opened(n)
        <5>1. info'[n].off = woff /\ widx = 0
          BY <1>6, <2>1, <4>2 DEF InfoGrows
        <5>2. info[m].off + info[m].idx <= acked /\ woff = acked
          BY <1>1, <3>2, <5>1 DEF StartsInv, OffsetsInOrder, InfoWritten
        <5> QED BY <5>1, <5>2
      <4> QED BY <4>1, <4>2
    <3> QED BY <3>2, <3>3
  <2>2. ASSUME NEW n \in Names, Opened(n)' PROVE info'[n].off + info'[n].idx <= acked
    BY <1>1, <1>2, <1>3, <2>2 DEF StartsInv, OffsetsInOrder, InfoWritten
  <2> QED BY <2>1, <2>2 DEF OffsetsInOrder
<1>9. WriterOffset'
  BY <1>1, <1>2, <1>3 DEF WriterOffset, InfoWritten
<1> QED BY <1>6, <1>7, <1>8, <1>9 DEF StartsInv

LEMMA WriterCountsAll ==
    ASSUME CountInv, wst # "NONE" PROVE woff + widx = acked
BY DEF CountInv, CountedFromStart

LEMMA StartsReadInfo ==
    ASSUME TypeInv, CountInv, PlacesInv, StartsInv, WriterReadInfo
    PROVE  StartsInv' /\ InfoGrows
<1>1. /\ wst = "READINFO" /\ wname \in Names /\ ~ Opened(wname) /\ widx = 0
      /\ woff + widx = acked /\ \A n \in Names : n > wname => ~ Opened(n)
  BY WriterCountsAll DEF WriterReadInfo, TypeInv, WriterHasStore, PlacesInv, WriterInStep, Opened,
     StartsInv, WriterOffset
<1>2. UNCHANGED <<data, acked, woff, wname>>
  BY <1>1 DEF WriterReadInfo, Opened
<1>3. CASE /\ info' = [info EXCEPT ![wname] = [off |-> woff, idx |-> widx]]
           /\ WriterAfter("ok")
  <2>1. wst' = "WRITE"
    BY <1>1, <1>3 DEF WriterAfter, WriterNext
  <2> QED BY <1>1, <1>2, <1>3, <2>1, StartsWritten DEF InfoWritten
<1>4. CASE info' = info /\ WriterAfter("err")
  <2>1. wst' = "READINFO"
    BY <1>1, <1>4 DEF WriterAfter, WriterNext
  <2> QED BY <1>1, <1>2, <1>4, <2>1, StartsKept
<1> QED BY <1>1, <1>3, <1>4 DEF WriterReadInfo, Opened

LEMMA StartsUpdateInfo ==
    ASSUME TypeInv, CountInv, StartsInv, wst \in {"WRITE", "UPDATEINFO"}, wname \in Names,
           NEW max, NEW r \in {"ok", "err"}, UpdateInfoSection(max, r),
           UNCHANGED <<data, acked, wname>>,
           wst' = IF r = "ok" THEN "CLOSE" ELSE wst
    PROVE  StartsInv' /\ InfoGrows
<1>1. CASE UNCHANGED <<info, woff>>
  BY <1>1, StartsKept
<1>2. CASE /\ info' = [info EXCEPT ![wname] = [off |-> woff, idx |-> widx]]
           /\ r = "err" => woff' = woff
  <2>1. InfoWritten
    BY <1>2, WriterCountsAll DEF InfoWritten, StartsInv, WriterOffset
  <2> QED BY <1>2, <2>1, StartsWritten
<1> QED BY <1>1, <1>2 DEF UpdateInfoSection

LEMMA StartsWrite ==
    ASSUME TypeInv, CountInv, PlacesInv, ServiceIsSure, StartsInv, WriterWrite
    PROVE  StartsInv' /\ InfoGrows
<1>1. wst = "WRITE" /\ wst' \in {"WRITE", "UPDATEINFO"} /\ UNCHANGED <<info, woff, wname>>
  BY DEF WriterWrite, AddSection, WriterAfter, WriterNext
<1>2. CASE UNCHANGED <<data, acked>>
  BY <1>1, <1>2, StartsKept
<1>3. CASE RecordAppended
  <2>1. /\ wname \in Names /\ widx \in Sections /\ acked' = acked + 1 /\ acked \in Nat
        /\ \A n \in Names, i \in Sections :
              data'[n][i] = IF n = wname /\ i = widx THEN acked + 1 ELSE data[n][i]
    BY <1>3, AppendedCells DEF RecordAppended
  <2>2. Opened(wname) /\ info[wname].off = woff /\ woff + widx = acked
    BY <1>1, WriterCountsAll DEF StartsInv, WriterOffset
  <2>3. RecordsAtOffsets'
    <3> SUFFICES ASSUME NEW n \in Names, NEW i \in Sections, Held(n, i)'
                 PROVE  Opened(n) /\ data'[n][i] = info[n].off + i + 1
      BY <1>1 DEF RecordsAtOffsets, Opened
    <3>1. CASE n = wname /\ i = widx
      BY <2>1, <2>2, <3>1, InfoType
    <3>2. CASE ~(n = wname /\ i = widx)
      BY <2>1, <3>2 DEF Held, StartsInv, RecordsAtOffsets
    <3> QED BY <3>1, <3>2
  <2>4. OffsetsInOrder'
    <3>1. \A n \in Names : Opened(n) => info[n].off + info[n].idx <= acked + 1
      BY <2>1, InfoType DEF StartsInv, OffsetsInOrder
    <3> QED BY <1>1, <2>1, <3>1 DEF StartsInv, OffsetsInOrder, Opened
  <2>5. WriterOffset' /\ InfoGrows
    BY <1>1, InfoType DEF StartsInv, WriterOffset, InfoGrows, Opened
  <2> QED BY <2>3, <2>4, <2>5 DEF StartsInv
<1> QED BY <1>2, <1>3, AddedAtNewest

LEMMA StartsAllocated ==
    ASSUME TypeInv, PlacesInv, StartsInv, AllocateStore, wname' = nextName,
           UNCHANGED <<info, data, acked, woff>>, wst' = "OPEN"
    PROVE  StartsInv' /\ InfoGrows
<1>1. \A n \in Names : n > nextName => ~ Opened(n)
  BY NamesType DEF PlacesInv, WriterInStep, Opened
<1> QED BY <1>1, StartsKept

LEMMA StartsWriterStep ==
    ASSUME TypeInv, CountInv, PlacesInv, ServiceIsSure, OneProcess, StartsInv, WriterActions
    PROVE  StartsInv' /\ InfoGrows
<1>1. CASE WriterOpen
  <2>1. wst = "OPEN" /\ wst' \in {"OPEN", "READINFO"} /\ UNCHANGED <<info, data, acked, woff, wname>>
    BY <1>1 DEF WriterOpen, WriterAfter, WriterNext
  <2> QED BY <2>1, StartsKept DEF StartsInv, WriterOffset
<1>2. CASE WriterUpdateInfo
  <2>1. PICK r \in {"ok", "err"} : UpdateInfoSection(MaxSections, r) /\ WriterAfter(r)
    BY <1>2 DEF WriterUpdateInfo
  <2>2. wst = "UPDATEINFO" /\ wname \in Names /\ UNCHANGED <<data, acked, wname>>
    BY <1>2 DEF WriterUpdateInfo, TypeInv, WriterHasStore, PlacesInv, WriterInStep
  <2>3. wst' = IF r = "ok" THEN "CLOSE" ELSE wst
    BY <2>1, <2>2 DEF WriterAfter, WriterNext
  <2> QED BY <2>1, <2>2, <2>3, StartsUpdateInfo
<1>3. CASE ForceStoreChange
  <2>1. PICK r \in {"ok", "err"} :
           UpdateInfoSection(widx, r) /\ wst' = IF r = "ok" THEN "CLOSE" ELSE wst
    BY <1>3 DEF ForceStoreChange
  <2>2. wst \in {"WRITE", "UPDATEINFO"} /\ UNCHANGED <<data, acked, wname>>
    BY <1>3 DEF ForceStoreChange, TypeInv, TypeOK, WriterType, WriterStates, PlacesInv, WriterInStep
  <2>3. wname \in Names
    BY <2>2 DEF TypeInv, WriterHasStore, PlacesInv, WriterInStep
  <2> QED BY <2>1, <2>2, <2>3, StartsUpdateInfo
<1>4. CASE WriterClose
  <2>1. wst' \in {"CLOSE", "GETNEW"} /\ UNCHANGED <<info, data, acked, woff>>
    BY <1>4 DEF WriterClose, WriterAfter, WriterNext, ckptVars
  <2> QED BY <2>1, StartsKept
<1>5. CASE WriterGetNew
  <2>1. UNCHANGED <<info, data, acked, woff>> /\ wst = "GETNEW"
    BY <1>5 DEF WriterGetNew, ckptVars
  <2>2. CASE AllocateStore /\ wname' = nextName /\ WriterAfter("ok")
    <3>1. wst' = "OPEN"
      BY <2>1, <2>2 DEF WriterAfter, WriterNext
    <3> QED BY <2>1, <2>2, <3>1, StartsAllocated
  <2>3. CASE WriterAfter("err")
    <3>1. wst' = "GETNEW"
      BY <2>1, <2>3 DEF WriterAfter, WriterNext
    <3> QED BY <2>1, <3>1, StartsKept
  <2> QED BY <1>5, <2>2, <2>3 DEF WriterGetNew
<1>6. CASE MakeWriter
  <2>1. names = << >> /\ AllocateStore /\ wname' = nextName
    BY <1>6 DEF MakeWriter, CountInv, CountedFromStart
  <2>2. UNCHANGED <<info, data, acked, woff>> /\ wst' = "OPEN"
    BY <1>6 DEF MakeWriter, ckptVars
  <2> QED BY <2>1, <2>2, StartsAllocated
<1>7. CASE WriterCall
  <2>1. UNCHANGED <<info, data, acked, woff, wst, wname>>
    BY <1>7 DEF WriterCall, ckptVars, wVars
  <2> QED BY <2>1, StartsKept DEF StartsInv, WriterOffset
<1>8. ~SetMessageIndex
  BY DEF OneProcess, SetMessageIndex
<1> QED BY <1>1, <1>2, <1>3, <1>4, <1>5, <1>6, <1>7, <1>8, StartsReadInfo, StartsWrite
    DEF WriterActions, WriterStep

LEMMA SentWriterStep ==
    ASSUME TypeInv, TypeInv', CountInv, RecordsInv, PlacesInv, FollowInv, CountedProcess,
           SentInv, WriterActions
    PROVE  SentInv'
<1>1. StartsInv' /\ InfoGrows
  BY StartsWriterStep DEF CountedProcess, SureProcess, SentInv
<1>2. UNCHANGED <<out, rst, rop, rname, roff, ridx, rdel, rread, rmore, rcur, ropen>>
  BY DEF WriterActions, WriterStep, WriterOpen, WriterReadInfo, WriterWrite,
     WriterUpdateInfo, WriterClose, WriterGetNew, MakeWriter, WriterCall,
     ForceStoreChange, SetMessageIndex, WriterFrame, rVars
<1>3. wst # "NONE" \/ info' = info
  BY DEF WriterActions, WriterStep, WriterOpen, WriterReadInfo, WriterWrite,
     WriterUpdateInfo, WriterClose, WriterGetNew, MakeWriter, WriterCall,
     ForceStoreChange, SetMessageIndex, ckptVars
<1>4. names' = names \/ names = << >> \/ (names # << >> /\ Head(names') = Head(names))
  <2>1. names' = names \/ names' = Append(names, nextName)
    BY DEF WriterActions, WriterStep, WriterOpen, WriterReadInfo, WriterWrite,
       WriterUpdateInfo, WriterClose, WriterGetNew, MakeWriter, WriterCall,
       ForceStoreChange, SetMessageIndex, AllocateStore, listVars
  <2>2. names # << >> /\ names' = Append(names, nextName) => Head(names') = Head(names)
    BY NamesType
  <2> QED BY <2>1, <2>2
<1>5. rst = "NONE" => rop # "init"
  BY DEF SentInv, ReaderStarts
<1> QED BY <1>1, <1>2, <1>3, <1>4, <1>5, CountsKept DEF SentInv

-----------------------------------------------------------------------------
(* The steps of the reader and of its user.                                *)

LEMMA StartsRead ==
    ASSUME TypeInv, StartsInv, UNCHANGED <<info, acked, wst, wname, woff>>,
           \A n \in Names, i \in Sections : data'[n][i] \in {Absent, data[n][i]}
    PROVE  StartsInv'
BY DEF StartsInv, RecordsAtOffsets, OffsetsInOrder, WriterOffset, Opened, Held

\* A step that leaves the offset, the list and the info sections alone.
LEMMA ReaderCountsKept ==
    ASSUME ReaderCounts, UNCHANGED <<info, roff, ridx, rname>>,
           roff + rdel' <= Len(out'),
           rst' = "NONE" \/ (rop' = "init" /\ rst' \in {"OPEN", "READINFO"}) =>
              rdel' = rdel /\ (rst = "NONE" \/ (rop = "init" /\ rst \in {"OPEN", "READINFO"}))
    PROVE  ReaderCounts'
BY DEF ReaderCounts, Opened

\* A reader that is not being made, and leaves its store's beginning.
LEMMA ReaderStartsPast ==
    ASSUME rop' # "init", rst' \notin {"OPEN", "READINFO"}
    PROVE  ReaderStarts'
BY DEF ReaderStarts

LEMMA SentOpen ==
    ASSUME TypeInv, ReaderCounts, ReaderStarts, ReaderOpen
    PROVE  ReaderCounts' /\ ReaderStarts'
<1>1. /\ UNCHANGED <<info, names, rname, roff, ridx, rread, rmore, rcur, out>> /\ rst = "OPEN"
      /\ rop # "idle"
  BY DEF ReaderOpen, ckptVars, listVars, ReaderFrame
<1>2. PICK r \in {"ok", "err"} : ReaderAfter(r) /\ (r = "ok" => ropen') /\ (r # "ok" => ropen' = ropen)
  BY DEF ReaderOpen
<1>3. rst' = IF r = "ok" THEN "READINFO" ELSE "OPEN"
  BY <1>1, <1>2 DEF ReaderAfter, ReaderNext
<1>4. \/ rdel' = rdel /\ (rop' = "init" => rop = "init")
      \/ rop = "init" /\ rdel' = ridx /\ rop' = "idle"
  BY <1>2 DEF ReaderAfter
<1>5. roff + rdel' <= Len(out)
  BY <1>1, <1>4 DEF ReaderCounts
<1>6. rop' = "init" => rdel' = rdel
  BY <1>4 DEF ReaderCounts
<1>7. ReaderCounts'
  BY <1>1, <1>3, <1>4, <1>5, ReaderCountsKept
<1>8. ReaderStarts'
  BY <1>1, <1>2, <1>3, <1>4 DEF ReaderStarts
<1> QED BY <1>7, <1>8

LEMMA SentReadInfo ==
    ASSUME TypeInv, RecordsInv, PlacesInv, FollowInv, StartsInv, ReaderCounts, ReaderStarts,
           ReaderReadInfo
    PROVE  ReaderCounts' /\ ReaderStarts'
<1>1. /\ UNCHANGED <<info, names, rname, ropen, rread, rmore, rcur, out>>
      /\ rst = "READINFO" /\ rop # "idle"
  BY DEF ReaderReadInfo, ckptVars, listVars, ReaderFrame
<1>2. rname \in Names /\ names # << >> /\ rname = Head(names)
  BY <1>1 DEF TypeInv, ReaderHasStore, ReaderStarts
<1>3. CASE /\ Opened(rname) /\ roff' = info[rname].off /\ ridx' = info[rname].idx /\ rdel' = 0
           /\ rst' = "ITER_INIT" /\ rop' = InLoop(rop)
  <2>1. info[rname].off \in Nat /\ info[rname].idx \in Nat
    BY <1>2, <1>3, InfoType
  <2>2. info[rname].off + info[rname].idx <= acked
    BY <1>2, <1>3 DEF StartsInv, OffsetsInOrder
  <2>3. info[rname].off \in 0 .. acked
    BY <2>1, <2>2, AckedType
  <2>4. \A i \in Sections : Held(rname, i) => info[rname].off <= data[rname][i] - 1
    BY <1>2, <2>1 DEF StartsInv, RecordsAtOffsets
  <2>5. ASSUME NEW n \in Names, Opened(n), rname < n PROVE info[rname].off <= info[n].off
    <3>1. info[rname].off + info[rname].idx <= info[n].off
      BY <1>2, <1>3, <2>5 DEF StartsInv, OffsetsInOrder
    <3>2. info[n].off \in Nat
      BY <2>5, InfoType
    <3> QED BY <2>1, <3>1, <3>2
  <2>6. info[rname].off <= Len(out)
    BY <1>2, <2>3, <2>4, <2>5, SentUpTo
  <2>7. \A n \in Names : Opened(n) /\ rname <= n => info[rname].off <= info[n].off
    BY <1>2, <2>1, <2>5
  <2>8. ReaderCounts'
    BY <1>1, <1>3, <2>1, <2>6, <2>7 DEF ReaderCounts, Opened
  <2>9. rop' = "init" <=> rop = "init"
    BY <1>3 DEF InLoop
  <2>10. ReaderStarts'
    BY <1>1, <1>3, <2>1, <2>9 DEF ReaderStarts, Opened
  <2> QED BY <2>8, <2>10
<1>4. CASE ReaderAfter("err") /\ UNCHANGED <<roff, ridx>>
  <2>1. rst' = "READINFO"
    BY <1>1, <1>4 DEF ReaderAfter, ReaderNext
  <2>2. \/ rdel' = rdel /\ rop' # "init"
        \/ rop = "init" /\ rdel' = ridx /\ rop' = "idle"
    BY <1>4 DEF ReaderAfter
  <2>3. roff + rdel' <= Len(out)
    BY <1>1, <2>2 DEF ReaderCounts
  <2>4. ReaderCounts'
    BY <1>1, <1>4, <2>1, <2>2, <2>3, ReaderCountsKept
  <2>5. ReaderStarts'
    BY <1>1, <2>1, <2>2 DEF ReaderStarts
  <2> QED BY <2>4, <2>5
<1> QED BY <1>3, <1>4 DEF ReaderReadInfo, Opened, NothingDeleted

LEMMA SentIterInit ==
    ASSUME TypeInv, CountedProcess, ReaderCounts, ReaderStarts, ReaderIterInit
    PROVE  ReaderCounts' /\ ReaderStarts'
<1>1. /\ UNCHANGED <<info, names, rname, roff, ridx, ropen, out>> /\ rst = "ITER_INIT"
      /\ rread' = << >> /\ rmore' = TRUE /\ rcur' = -1
  BY DEF ReaderIterInit, ckptVars, listVars, ReaderFrame
<1>2. \/ ReaderAfter("ok")
      \/ rop # "init" /\ ReaderAfter("iterr")
  BY <1>1 DEF ReaderIterInit, Fail, CountedProcess, ReaderStarts
<1>3. rdel' = rdel /\ rst' \in {"READ", "ITER_INIT"} /\ (rop' = "init" => rop = "init" /\ rst' = "READ")
  BY <1>1, <1>2 DEF ReaderAfter, ReaderNext
<1>4. ReaderCounts'
  BY <1>1, <1>3, ReaderCountsKept DEF ReaderCounts
<1>5. ReaderStarts'
  BY <1>1, <1>3 DEF ReaderStarts, Opened
<1> QED BY <1>4, <1>5

\* What a new reader takes for deleted was committed.
LEMMA SentRead ==
    ASSUME TypeInv, CountedProcess, RecordsInv, PlacesInv, FollowInv, StartsInv,
           ReaderCounts, ReaderStarts, ReaderRead
    PROVE  ReaderCounts' /\ ReaderStarts'
<1>1. /\ UNCHANGED <<info, data, names, rname, roff, ridx, ropen, out>> /\ rst = "READ"
      /\ rname \in Names /\ names # << >>
  BY DEF ReaderRead, ckptVars, listVars, ReaderFrame, TypeInv, ReaderHasStore
<1>2. CASE rop # "init"
  <2>1. rdel' = rdel /\ rop' # "init" /\ rst' \notin {"NONE", "OPEN", "READINFO"}
    BY <1>1, <1>2 DEF ReaderRead, SectionAvailable, ReaderAfter, ReaderNext, NextAfterEmpty
  <2> QED BY <1>1, <2>1, ReaderCountsKept, ReaderStartsPast DEF ReaderCounts
<1>3. CASE rop = "init"
  <2>1. /\ rmore /\ rcur = -1 /\ rread = << >> /\ rname = Head(names)
        /\ Opened(rname) /\ roff = info[rname].off
        /\ roff + ridx <= info[rname].off + info[rname].idx
    BY <1>1, <1>3 DEF ReaderStarts
  <2>2. rop' = "idle" /\ rst' = "READ"
    BY <1>1, <1>3, <2>1 DEF ReaderRead, SectionAvailable, ReaderAfter, Fail, CountedProcess
  <2>3. roff + rdel' <= Len(out)
    <3>1. CASE \E i \in Ahead : (\A j \in Ahead : i <= j) /\ SectionAvailable(i)
      <4>1. PICK i \in Ahead : (\A j \in Ahead : i <= j) /\ rdel' = i
        BY <1>3, <3>1 DEF SectionAvailable
      <4>2. i \in Sections /\ Held(rname, i)
        BY DEF Ahead, Held
      <4>3. \A j \in Sections : Held(rname, j) => i <= j
        BY <2>1, <4>1 DEF Ahead, Held
      <4>4. PassedBefore(i)
        BY <4>2, <4>3 DEF PassedBefore
      <4>5. \A k \in 1 .. Len(rread) : rread[k] < i
        BY <2>1
      <4>6. data[rname][i] = Len(out) + Len(rread) + 1
        BY <1>1, <4>2, <4>4, <4>5, NextFollows
      <4>7. data[rname][i] = Len(out) + 1
        BY <2>1, <4>6, OutType
      <4>8. data[rname][i] = roff + i + 1
        BY <1>1, <2>1, <4>2 DEF StartsInv, RecordsAtOffsets
      <4> QED BY <4>1, <4>2, <4>7, <4>8, InfoType, OutType
    <3>2. CASE Ahead = {} /\ rdel' = ridx
      <4> DEFINE c == roff + ridx
      <4>1. info[rname].off \in Nat /\ info[rname].idx \in Nat /\ c \in Nat
        BY <1>1, <2>1, InfoType
      <4>2. info[rname].off + info[rname].idx <= acked
        BY <1>1, <2>1 DEF StartsInv, OffsetsInOrder
      <4>3. c \in 0 .. acked
        BY <2>1, <4>1, <4>2, AckedType
      <4>4. \A i \in Sections : ~ Held(rname, i)
        BY <2>1, <3>2 DEF Ahead, Held
      <4>5. \A n \in Names : Opened(n) /\ rname < n => c <= info[n].off
        <5> SUFFICES ASSUME NEW n \in Names, Opened(n), rname < n PROVE c <= info[n].off
          OBVIOUS
        <5>1. info[rname].off + info[rname].idx <= info[n].off /\ info[n].off \in Nat
          BY <1>1, <2>1, InfoType DEF StartsInv, OffsetsInOrder
        <5>2. c <= info[rname].off + info[rname].idx
          BY <2>1
        <5> HIDE DEF c
        <5> QED BY <4>1, <5>1, <5>2
      <4> HIDE DEF c
      <4>6. c <= Len(out)
        BY <1>1, <2>1, <4>3, <4>4, <4>5, SentUpTo
      <4> QED BY <3>2, <4>6 DEF c
    <3>3. Ahead = {} => \/ rdel' = ridx
                        \/ \E i \in Ahead : SectionAvailable(i)
      BY <1>1, <1>3, <2>1 DEF ReaderRead, ReaderAfter, Fail, CountedProcess
    <3>4. Ahead # {} => \E i \in Ahead : (\A j \in Ahead : i <= j) /\ SectionAvailable(i)
      BY <1>1, <1>3, <2>1 DEF ReaderRead, Fail, CountedProcess
    <3> QED BY <3>1, <3>2, <3>3, <3>4
  <2> QED BY <1>1, <2>2, <2>3, ReaderCountsKept, ReaderStartsPast
<1> QED BY <1>2, <1>3

LEMMA SentWaitOrClose ==
    ASSUME TypeInv, ReaderCounts, ReaderStarts, ReaderWait \/ ReaderClose
    PROVE  ReaderCounts' /\ ReaderStarts'
<1>1. /\ UNCHANGED <<info, rname, roff, ridx, out>> /\ rop # "init"
      /\ rst \in {"WAIT_DATA", "WAIT_ERROR", "WAIT_COMMIT", "CLOSE"}
  BY DEF ReaderWait, ReaderClose, ckptVars, ReaderFrame, ReaderStarts
<1>2. rdel' = rdel /\ rop' # "init" /\ rst' \notin {"NONE", "OPEN", "READINFO"}
  BY <1>1 DEF ReaderWait, ReaderClose, ReaderAfter, ReaderNext
<1> QED BY <1>1, <1>2, ReaderCountsKept, ReaderStartsPast DEF ReaderCounts

LEMMA SentDelete ==
    ASSUME TypeInv, PlacesInv, StartsInv, ReaderCounts, ReaderStarts, ReaderDelete
    PROVE  StartsInv' /\ ReaderCounts' /\ ReaderStarts'
<1>1. /\ UNCHANGED <<rname, roff, ridx, out, acked, wst, wname, woff>> /\ rop # "init"
      /\ rst = "DELETE" /\ rname \in Names
  BY DEF ReaderDelete, ReaderFrame, ReaderStarts, wVars, TypeInv, ReaderHasStore
<1>2. rdel' = rdel /\ rop' # "init" /\ rst' \notin {"NONE", "OPEN", "READINFO"}
  BY <1>1 DEF ReaderDelete, ReaderAfter, ReaderNext
<1>3. info' = info \/ info' = [info EXCEPT ![rname] = NoInfo]
  BY DEF ReaderDelete, Unlink, ckptVars
<1>4. data' = data
  BY DeleteTakesNothing
<1>5. \A n \in Names : /\ Opened(n)' => Opened(n) /\ info'[n] = info[n]
                       /\ n # rname => info'[n] = info[n]
  BY <1>1, <1>3, InfoType DEF Opened
<1>6. \A i \in Sections : ~ Held(rname, i)
  BY <1>1 DEF PlacesInv, LeftAreEmpty
<1>7. RecordsAtOffsets' /\ OffsetsInOrder'
  <2>1. RecordsAtOffsets'
    BY <1>4, <1>5, <1>6 DEF StartsInv, RecordsAtOffsets, Held, Opened
  <2>2. OffsetsInOrder'
    BY <1>1, <1>5 DEF StartsInv, OffsetsInOrder
  <2> QED BY <2>1, <2>2
<1>8. WriterOffset'
  <2>1. wst \in {"OPEN", "READINFO"} => wname \in Names
    BY DEF TypeInv, WriterHasStore
  <2>2. wst \in {"WRITE", "UPDATEINFO"} => wname \in Names /\ wname # rname
    <3>1. wst \in {"WRITE", "UPDATEINFO"} => wopen /\ wname \notin stub
      BY DEF PlacesInv, WriterInStep, WriterAtNewest
    <3>2. rname \in stub
      BY <1>1 DEF PlacesInv, LeftAreEmpty
    <3> QED BY <3>1, <3>2 DEF TypeInv, WriterHasStore
  <2> QED BY <1>1, <1>5, <2>1, <2>2 DEF StartsInv, WriterOffset, Opened
<1>9. ReaderCounts'
  BY <1>1, <1>2, <1>5 DEF ReaderCounts
<1> QED BY <1>2, <1>7, <1>8, <1>9, ReaderStartsPast DEF StartsInv

LEMMA SentGetNew ==
    ASSUME TypeInv, PlacesInv, ReaderCounts, ReaderStarts, ReaderGetNew
    PROVE  ReaderCounts' /\ ReaderStarts'
<1>1. /\ UNCHANGED <<info, names, roff, ridx, rread, out>> /\ rop # "init" /\ rst = "GETNEW"
      /\ rname \in Names /\ names # << >> /\ rname' = Head(names)
  BY DEF ReaderGetNew, FirstStore, ckptVars, listVars, ReaderFrame, ReaderStarts, TypeInv, ReaderHasStore
<1>2. rdel' = rdel /\ rop' # "init" /\ rst' = "OPEN"
  BY <1>1 DEF ReaderGetNew, ReaderAfter, ReaderNext
<1>3. Head(names) \in Names /\ rname <= Head(names)
  BY <1>1, OldestOfList DEF PlacesInv, ReaderAtOldest
<1>4. ReaderCounts'
  BY <1>1, <1>2, <1>3 DEF ReaderCounts, Opened
<1>5. ReaderStarts'
  BY <1>1, <1>2 DEF ReaderStarts
<1> QED BY <1>4, <1>5

LEMMA SentCommit ==
    ASSUME TypeInv, ServiceIsSure, HandInv, RecordsInv, PlacesInv, FollowInv, StartsInv,
           ReaderCounts, NEW n \in 0 .. Len(rread), Commit(n)
    PROVE  ReaderCounts' /\ ReaderStarts'
<1>1. RecordsMoved(n)
  BY CommitMoves
<1>2. /\ UNCHANGED <<info, rname, roff, ridx>> /\ rop' = "idle" /\ rst' = "ITER_INIT"
      /\ rdel' = IF n = 0 THEN rdel ELSE rread[n] + 1
  BY DEF Commit
<1>3. Len(out') = Len(out) + n /\ Len(out) \in Nat /\ n \in Nat
  BY <1>1, CommitIsNext
<1>4. roff + rdel' <= Len(out')
  <2>1. CASE n = 0
    BY <1>2, <1>3, <2>1 DEF ReaderCounts
  <2>2. CASE n # 0
    <3>1. n \in 1 .. Len(rread) /\ rread[n] \in Sections /\ rname \in Names
      BY <1>1, <1>3, <2>2, ReadType DEF RecordsMoved
    <3>2. Held(rname, rread[n]) /\ data[rname][rread[n]] = Len(out) + n
      BY <3>1 DEF HandInv, ReadAreHeld, FollowInv, ReadIsNext
    <3>3. Opened(rname) /\ Len(out) + n = info[rname].off + rread[n] + 1
      BY <3>1, <3>2 DEF StartsInv, RecordsAtOffsets
    <3>4. roff <= info[rname].off /\ info[rname].off \in Nat
      BY <3>1, <3>3, InfoType DEF ReaderCounts
    <3>5. roff + (rread[n] + 1) <= Len(out) + n
      BY <1>3, <3>1, <3>3, <3>4, InfoType, SMTT(30)
    <3> QED BY <1>2, <1>3, <2>2, <3>5
  <2> QED BY <2>1, <2>2
<1>5. ReaderCounts'
  BY <1>2, <1>4, ReaderCountsKept
<1> QED BY <1>2, <1>5, ReaderStartsPast

LEMMA SentUser ==
    ASSUME TypeInv, ServiceIsSure, HandInv, RecordsInv, PlacesInv, FollowInv, StartsInv,
           ReaderCounts, ReaderStarts, UserActions
    PROVE  ReaderCounts' /\ ReaderStarts'
<1>1. CASE MakeReader
  <2>1. /\ UNCHANGED <<info, names, roff, ridx, rdel, rread, out>> /\ rst = "NONE"
        /\ rname' = Head(names) /\ rst' = "OPEN" /\ rop' = "init"
    BY <1>1 DEF MakeReader, FirstStore, ckptVars, listVars, ReaderFrame
  <2>2. rread = << >> /\ roff = 0 /\ ridx = 0 /\ rdel = 0
    BY <2>1 DEF HandInv, NothingInHand, ReaderCounts
  <2>3. ReaderCounts'
    BY <2>1, <2>2, InfoType, OutType DEF ReaderCounts, Opened
  <2>4. ReaderStarts'
    BY <2>1, <2>2 DEF ReaderStarts
  <2> QED BY <2>3, <2>4
<1>2. CASE ReadCall
  <2>1. UNCHANGED <<info, names, rst, ropen, rname, roff, ridx, rdel, rread, out>> /\ rop' = "first"
        /\ rst # "NONE"
    BY <1>2 DEF ReadCall, ckptVars, listVars, ReaderFrame
  <2> QED BY <2>1, ReaderCountsKept DEF ReaderCounts, ReaderStarts
<1>3. CASE CommitSent \/ CommitNothing
  <2>1. PICK n \in 0 .. Len(rread) : Commit(n)
    BY <1>3, ReadType DEF CommitSent, CommitNothing
  <2> QED BY <2>1, SentCommit
<1>4. CASE ResetReader
  <2>1. /\ UNCHANGED <<info, out>> /\ rst' = "NONE" /\ rop' = "idle"
        /\ roff' = 0 /\ ridx' = 0 /\ rdel' = 0
    BY <1>4 DEF ResetReader, ckptVars, ReaderFrame
  <2> QED BY <2>1, ReaderStartsPast, InfoType, OutType DEF ReaderCounts, Opened
<1> QED BY <1>1, <1>2, <1>3, <1>4 DEF UserActions

LEMMA SentReaderStep ==
    ASSUME TypeInv, HandInv, RecordsInv, PlacesInv, FollowInv, CountedProcess, SentInv,
           ReaderStep \/ UserActions
    PROVE  SentInv'
<1>1. CASE ReaderDelete
  BY <1>1, SentDelete DEF SentInv
<1>2. CASE ~ ReaderDelete
  <2>1. StartsInv'
    <3>1. UNCHANGED <<info, acked, wst, wname, woff>>
      BY <1>2 DEF ReaderStep, UserActions, ReaderOpen, ReaderReadInfo, ReaderIterInit, ReaderRead,
         ReaderWait, ReaderClose, ReaderGetNew, MakeReader, ReadCall, CommitSent,
         CommitNothing, Commit, ResetReader, ReaderFrame, wVars, ckptVars
    <3>2. \A n \in Names, i \in Sections : data'[n][i] \in {Absent, data[n][i]}
      <4>1. CASE UserActions
        <5>1. CASE \E n : RecordsMoved(n)
          BY <5>1, MovedCells
        <5>2. CASE data' = data
          BY <5>2
        <5> QED BY <4>1, <5>1, <5>2, UserData DEF CountedProcess, SureProcess
      <4>2. CASE ReaderStep
        <5>1. data' = data
          BY <1>2, <4>2 DEF ReaderStep, ReaderOpen, ReaderReadInfo, ReaderIterInit, ReaderRead,
             ReaderWait, ReaderClose, ReaderGetNew, ckptVars
        <5> QED BY <5>1
      <4> QED BY <4>1, <4>2
    <3> QED BY <3>1, <3>2, StartsRead DEF SentInv
  <2>2. ReaderCounts' /\ ReaderStarts'
    <3>1. CASE UserActions
      BY <3>1, SentUser DEF SentInv, CountedProcess, SureProcess
    <3>2. CASE ReaderStep
      BY <1>2, <3>2, SentOpen, SentReadInfo, SentIterInit, SentRead, SentWaitOrClose, SentGetNew
         DEF ReaderStep, SentInv
    <3> QED BY <3>1, <3>2
  <2> QED BY <2>1, <2>2 DEF SentInv
<1> QED BY <1>1, <1>2

LEMMA SentInit == Init => SentInv
<1> SUFFICES ASSUME Init PROVE SentInv
  OBVIOUS
<1>1. \A n \in Names : ~ Opened(n)
  BY DEF Init, Opened
<1>2. StartsInv
  BY <1>1 DEF Init, StartsInv, RecordsAtOffsets, OffsetsInOrder, WriterOffset, Held
<1>3. ReaderCounts /\ ReaderStarts
  BY <1>1 DEF Init, ReaderCounts, ReaderStarts
<1> QED BY <1>2, <1>3 DEF SentInv

LEMMA SentUnchanged ==
    ASSUME SentInv, UNCHANGED vars PROVE SentInv'
<1>1. UNCHANGED <<info, data, names, acked, out>>
  BY DEF vars, ckptVars, listVars
<1>2. UNCHANGED <<wst, wname, woff, rst, rop, ropen, rname, roff, ridx, rdel, rread, rmore, rcur>>
  BY DEF vars, wVars, rVars
<1>3. StartsInv'
  BY <1>1, <1>2 DEF SentInv, StartsInv, RecordsAtOffsets, OffsetsInOrder, WriterOffset, Opened, Held
<1>4. ReaderCounts' /\ ReaderStarts'
  BY <1>1, <1>2 DEF SentInv, ReaderCounts, ReaderStarts, Opened
<1> QED BY <1>3, <1>4 DEF SentInv

\* When storeEmpty answers yes, every acknowledged record was committed: the
\* reader's counters never run ahead of the commits, in no step of reader or
\* writer.  (Where an iterator may fail they do: README, section 7.)
THEOREM EmptyMeansSent ==
    ASSUME CountedProcess
    PROVE  Spec => []StoreEmptySound
<1>1. Init => CountInv
  BY DEF Init, CountInv, CountedFromStart, FreshStoresHaveNoInfo
<1>2. TypeInv /\ TypeInv' /\ LogInv /\ CountInv /\ SentInv /\ [Next]_vars => CountInv' /\ SentInv'
  <2> SUFFICES ASSUME TypeInv, TypeInv', LogInv, CountInv, SentInv, [Next]_vars
               PROVE  CountInv' /\ SentInv'
    OBVIOUS
  <2>1. HandInv /\ RecordsInv /\ PlacesInv /\ FollowInv
    BY DEF LogInv, OnceInv, RecordsInv
  <2>2. ~(Shutdown \/ Crash)
    BY DEF TypeInv, TypeOK, HistoryType, Shutdown, Crash, NewProcess, OneProcess, CountedProcess
  <2>3. SentInv'
    BY <2>1, <2>2, SentWriterStep, SentReaderStep, SentUnchanged DEF Next
  <2> QED BY <2>3, CountStep DEF CountedProcess
<1>3. TypeInv /\ LogInv /\ CountInv /\ SentInv => StoreEmptySound
  <2> SUFFICES ASSUME TypeInv, LogInv, CountInv, SentInv, wst # "NONE",
                      woff + widx <= roff + rdel
               PROVE  Len(out) = acked
    BY DEF StoreEmptySound, StoreEmpty
  <2>1. woff + widx = acked
    BY WriterCountsAll
  <2>2. roff + rdel <= Len(out)
    BY DEF SentInv, ReaderCounts
  <2>3. Len(out) <= acked
    BY OutIsShort DEF LogInv, OnceInv, RecordsInv, FollowInv
  <2> QED BY <2>1, <2>2, <2>3, InfoType, OutType, AckedType
<1>4. Spec => [](TypeInv /\ LogInv)
  BY LogAlways DEF CountedProcess
<1> QED BY <1>1, <1>2, <1>3, <1>4, SentInit, TypeInit, TypeStep, PTL DEF Spec

=============================================================================
