--------------------------- MODULE CdhServR_proofs ---------------------------
(***************************************************************************)
(* Proofs about CdhServR: type correctness; that the thread releases no    *)
(* semaphore of a stop command that is gone; that a request gets one       *)
(* answer at most; that what a user was told is delivered has been         *)
(* delivered; and that a file on record is not delivered again.            *)
(***************************************************************************)
EXTENDS CdhServR, TLAPS, WellFoundedInduction, SequenceTheorems, FiniteSetTheorems

(* Types.  Work in the queue or in hand, and a stop command, are for a job; *)
(* a user's session is counted by its restarts, and the stop commands are   *)
(* numbered in their order.                                                 *)
Sessions == 0 .. MaxRestarts
Tasks    == [listed : BOOLEAN, stop : BOOLEAN, sem : Stops \cup {NoSem}, session : Sessions]
Items    == [job : Jobs, session : Sessions, retry : BOOLEAN]
AnyHands == [at : {"idle", "send", "save", "done", "answer"}, job : Jobs \cup {NoJob},
             session : Sessions, retry : BOOLEAN, rcode : {"none", "OK", "failed"}]
Hands    == {h \in AnyHands : h.at # "idle" => h.job \in Jobs}
AnyStops == [at : {"none", "waits", "signalled"}, job : Jobs \cup {NoJob}, session : Sessions]
Stoppers == {s \in AnyStops : s.at # "none" => s.job \in Jobs}
Requests == [file : 1 .. MaxFile, retry : BOOLEAN, session : Sessions,
             at : {"ready", "waits", "failed", "done"}]

SessionsCounted == \A u \in Users : user[u].session <= restarts
StopsNumbered == \A n \in Stops : n > stops => stopper[n].at = "none"

TypeInv ==
  /\ tasks \in [Jobs -> Tasks] /\ queue \in Seq(Items) /\ thread \in Hands
  /\ sentList \in Seq(Jobs) /\ sentFile \in Seq(Jobs)
  /\ stopper \in [Stops -> Stoppers] /\ StopsNumbered
  /\ user \in [Users -> Requests] /\ SessionsCounted
  /\ restarts \in 0 .. MaxRestarts /\ crashes \in 0 .. MaxCrashes /\ stops \in 0 .. MaxStops
  /\ delivered \cup known \cup twice \cup lost \subseteq Jobs
  /\ answers \in [Users -> Nat] /\ restopped \subseteq Users

-----------------------------------------------------------------------------
(* Tasks, and the work on them.  The thread works on a task from the time  *)
(* it takes it from the queue until the task leaves the list.              *)

Works(j) == thread.at \in {"send", "save", "done"} /\ thread.job = j

(* The task in the list is the one that was put into the queue.            *)
Listed(j, session) == tasks[j].listed /\ tasks[j].session = session

(* Work that is in the queue or in hand belongs to a task of the list, and *)
(* no task is worked on twice.                                             *)
WorkIsListed ==
  /\ \A i \in 1 .. Len(queue) : Listed(queue[i].job, queue[i].session) /\ ~ Works(queue[i].job)
  /\ \A i, j \in 1 .. Len(queue) : queue[i].job = queue[j].job => i = j
  /\ \A j \in Jobs : Works(j) => Listed(j, thread.session)

Current(u) == Listed(Job(u), user[u].session)
Unanswered(u) == user[u].at = "waits" /\ answers[u] = 0

(* Who owes an answer to the user's present request: the thread, unless a  *)
(* stop has come; a stop command that has not returned; or the thread that *)
(* has taken the task from the list and has the answer in hand.            *)
StopsFor(u, n) == stopper[n].at # "none" /\ stopper[n].job[1] = u
TaskOwes(u) == Current(u) /\ ~ tasks[Job(u)].stop
StopOwes(u, n) == StopsFor(u, n) /\ stopper[n].session = user[u].session
AnswerFor(u) == thread.at = "answer" /\ thread.job[1] = u
ThreadOwes(u) == AnswerFor(u) /\ thread.session = user[u].session

(* A listed task is for the file its user is at: no other file is asked    *)
(* for while there is a task.                                              *)
ListedIsPresent(u) ==
  \A j \in Jobs : j[1] = u /\ tasks[j].listed => j = Job(u) /\ tasks[j].session <= user[u].session

(* Nobody holds an answer to a request yet to come. *)
SessionsPassed(u) ==
  /\ \A n \in Stops : StopsFor(u, n) => stopper[n].session <= user[u].session
  /\ AnswerFor(u) => thread.session <= user[u].session

(* Nobody owes an answer that has been given, and no two owe the same one. *)
OneOwes(u) ==
  /\ TaskOwes(u) => Unanswered(u)
  /\ ThreadOwes(u) => Unanswered(u) /\ thread.job = Job(u) /\ ~ tasks[Job(u)].listed
  /\ \A n \in Stops : StopOwes(u, n) => Unanswered(u) /\ ~ TaskOwes(u) /\ ~ ThreadOwes(u)
  /\ \A m, n \in Stops : StopOwes(u, m) /\ StopOwes(u, n) => m = n

UserInv(u) == ListedIsPresent(u) /\ SessionsPassed(u) /\ OneOwes(u) /\ answers[u] <= 1

RequestInv == WorkIsListed /\ \A u \in Users \ restopped : UserInv(u)

-----------------------------------------------------------------------------
(* Deliveries and their records.                                           *)

SentAreDelivered ==
  /\ ToSet(sentList) \subseteq delivered /\ ToSet(sentFile) \subseteq delivered
  /\ thread.rcode = "OK" => thread.job \in delivered

(* What a user was told is delivered; one that is through has been told of *)
(* all its files.                                                          *)
ToldTruth(u) ==
  /\ user[u].at = "done" => user[u].file = MaxFile
  /\ \A f \in 1 .. MaxFile : f < user[u].file \/ user[u].at = "done" => <<u, f>> \in delivered

ServedInv == SentAreDelivered /\ \A u \in Users \ restopped : ToldTruth(u)

(* What is on record is in the list or has been lost by a crash. *)
RecordsAreListed == known \subseteq ToSet(sentList) \cup lost

(* A repeated request for a file on record, unless it has been lost. *)
Repeats(retry, j) == retry /\ j \in known \ lost

(* No such request is under way. *)
RepeatedAreAnswered ==
  /\ \A i \in 1 .. Len(queue) : ~ Repeats(queue[i].retry, queue[i].job)
  /\ thread.at = "send" => ~ Repeats(thread.retry, thread.job)

RecordInv == RecordsAreListed /\ RepeatedAreAnswered /\ NotDeliveredTwice

-----------------------------------------------------------------------------
(* Sequences.                                                              *)

\* A set of naturals that is not empty has a least element, which Min returns.
LEMMA MinOfNaturals ==
    ASSUME NEW I, I \subseteq Nat, I # {}
    PROVE  Min(I) \in I
<1> DEFINE Less == {p \in Nat \X Nat : p[1] < p[2]}
<1>1. IsWellFoundedOn(Less, Nat)
  BY NatLessThanWellFounded DEF OpToRel
<1>2. PICK i \in I : \A j \in I : ~ (<<j, i>> \in Less)
  BY <1>1, WFMin
<1>3. \A j \in I : i <= j
  <2>1. \A j, k \in Nat : ~ (<<j, k>> \in Less) => k <= j
    OBVIOUS
  <2> QED BY <1>2, <2>1
<1> QED BY <1>3 DEF Min

\* RemoveAt takes one element out and keeps the others.
LEMMA RemoveAtKeeps ==
    ASSUME NEW S, NEW s \in Seq(S), NEW k \in 1 .. Len(s)
    PROVE  /\ RemoveAt(s, k) \in Seq(S)
           /\ ToSet(RemoveAt(s, k)) \subseteq ToSet(s)
           /\ \A e \in ToSet(s) : e # s[k] => e \in ToSet(RemoveAt(s, k))
<1> DEFINE a == SubSeq(s, 1, k - 1)
           b == SubSeq(s, k + 1, Len(s))
<1>1. Len(s) \in Nat /\ \A i \in 1 .. Len(s) : s[i] \in S
  BY ElementOfSeq, LenProperties
<1>2. a \in Seq(S) /\ Len(a) = k - 1 /\ \A i \in 1 .. k - 1 : a[i] = s[i]
  BY <1>1, SubSeqProperties
<1>3. /\ b \in Seq(S) /\ Len(b) = Len(s) - k
      /\ \A i \in 1 .. Len(s) - k : b[i] = s[k + i]
  <2>1. \A i \in k + 1 .. Len(s) : s[i] \in S
    BY <1>1
  <2>2. /\ b \in Seq(S) /\ Len(b) = IF k + 1 <= Len(s) THEN Len(s) - (k + 1) + 1 ELSE 0
        /\ \A i \in 1 .. Len(s) - (k + 1) + 1 : b[i] = s[(k + 1) + i - 1]
    BY <1>1, <2>1, SubSeqProperties
  <2> QED BY <1>1, <2>2
<1>4. /\ RemoveAt(s, k) \in Seq(S) /\ Len(RemoveAt(s, k)) = Len(s) - 1
      /\ \A i \in 1 .. Len(s) - 1 :
            RemoveAt(s, k)[i] = IF i < k THEN s[i] ELSE s[i + 1]
  <2> HIDE DEF a, b
  <2>1. /\ a \o b \in Seq(S) /\ Len(a \o b) = Len(a) + Len(b)
        /\ \A i \in 1 .. Len(a) + Len(b) :
              (a \o b)[i] = IF i <= Len(a) THEN a[i] ELSE b[i - Len(a)]
    BY <1>2, <1>3, ConcatProperties
  <2>2. RemoveAt(s, k) = a \o b
    BY DEF RemoveAt, a, b
  <2>3. Len(a) + Len(b) = Len(s) - 1
    BY <1>1, <1>2, <1>3
  <2>4. ASSUME NEW i \in 1 .. Len(s) - 1
        PROVE  (a \o b)[i] = IF i < k THEN s[i] ELSE s[i + 1]
    <3>1. CASE i < k
      BY <1>1, <1>2, <2>1, <2>3, <3>1
    <3>2. CASE ~ (i < k)
      <4>1. (a \o b)[i] = b[i - (k - 1)]
        BY <1>1, <1>2, <2>1, <2>3, <3>2
      <4>2. i - (k - 1) \in 1 .. Len(s) - k /\ k + (i - (k - 1)) = i + 1
        BY <1>1, <3>2
      <4>3. b[i - (k - 1)] = s[k + (i - (k - 1))]
        BY <1>3, <4>2
      <4> QED BY <3>2, <4>1, <4>2, <4>3
    <3> QED BY <3>1, <3>2
  <2> QED BY <2>1, <2>2, <2>3, <2>4
<1>5. DOMAIN RemoveAt(s, k) = 1 .. Len(s) - 1 /\ DOMAIN s = 1 .. Len(s)
  BY <1>4, LenProperties
<1>6. ToSet(RemoveAt(s, k)) \subseteq ToSet(s)
  BY <1>1, <1>4, <1>5 DEF ToSet
<1>7. ASSUME NEW i \in 1 .. Len(s), s[i] # s[k]
      PROVE  \E j \in 1 .. Len(s) - 1 : RemoveAt(s, k)[j] = s[i]
  <2>1. CASE i < k
    BY <1>1, <1>4, <2>1
  <2>2. CASE i > k
    <3>1. i - 1 \in 1 .. Len(s) - 1 /\ ~ (i - 1 < k) /\ (i - 1) + 1 = i
      BY <1>1, <2>2
    <3> QED BY <1>4, <3>1
  <2> QED BY <1>7, <2>1, <2>2
<1>8. \A e \in ToSet(s) : e # s[k] => e \in ToSet(RemoveAt(s, k))
  BY <1>5, <1>7 DEF ToSet
<1> QED BY <1>4, <1>6, <1>8

\* The list without a user's entry holds nothing new, and all entries of others.
LEMMA WithoutKeeps ==
    ASSUME TypeInv, NEW u \in Users
    PROVE  /\ Without(u) \in Seq(Jobs)
           /\ ToSet(Without(u)) \subseteq ToSet(sentList)
           /\ \A e \in ToSet(sentList) : e[1] # u => e \in ToSet(Without(u))
<1> DEFINE I == {i \in 1 .. Len(sentList) : sentList[i][1] = u}
<1>1. sentList \in Seq(Jobs) /\ Len(sentList) \in Nat
  BY LenProperties DEF TypeInv
<1>2. CASE I = {}
  <2>1. Without(u) = sentList
    BY <1>2 DEF Without, RemoveFirstMatch
  <2> QED BY <1>1, <2>1
<1>3. CASE I # {}
  <2>1. Min(I) \in I
    <3>1. I \subseteq Nat
      BY <1>1
    <3> HIDE DEF I
    <3> QED BY <1>3, <3>1, MinOfNaturals
  <2>2. Without(u) = RemoveAt(sentList, Min(I))
    BY <1>3 DEF Without, RemoveFirstMatch, SelectInSeq
  <2> DEFINE k == Min(I)
  <2>3. k \in 1 .. Len(sentList) /\ sentList[k][1] = u
    BY <2>1
  <2> HIDE DEF I, k
  <2>4. /\ RemoveAt(sentList, k) \in Seq(Jobs)
        /\ ToSet(RemoveAt(sentList, k)) \subseteq ToSet(sentList)
        /\ \A e \in ToSet(sentList) : e # sentList[k] => e \in ToSet(RemoveAt(sentList, k))
    BY <1>1, <2>3, RemoveAtKeeps
  <2>5. Without(u) = RemoveAt(sentList, k)
    BY <2>2 DEF k
  <2> QED BY <2>3, <2>4, <2>5
<1> QED BY <1>2, <1>3

\* Append adds its element and keeps the others.
LEMMA AppendAdds ==
    ASSUME NEW S, NEW s \in Seq(S), NEW e \in S
    PROVE  /\ Append(s, e) \in Seq(S) /\ Append(s, e) # <<>>
           /\ ToSet(Append(s, e)) = ToSet(s) \cup {e}
           /\ Last(Append(s, e)) = e
<1>1. /\ Append(s, e) \in Seq(S) /\ Append(s, e) # <<>>
      /\ Len(Append(s, e)) = Len(s) + 1
      /\ \A i \in 1 .. Len(s) : Append(s, e)[i] = s[i]
      /\ Append(s, e)[Len(s) + 1] = e
  BY AppendProperties
<1>2. Len(s) \in Nat /\ DOMAIN s = 1 .. Len(s) /\ DOMAIN Append(s, e) = 1 .. Len(s) + 1
  BY <1>1, LenProperties
<1>3. ToSet(Append(s, e)) = ToSet(s) \cup {e}
  BY <1>1, <1>2 DEF ToSet
<1>4. Last(Append(s, e)) = e
  BY <1>1 DEF Last
<1> QED BY <1>1, <1>3, <1>4

\* What is written of a list is one of its entries, or the file stays.
LEMMA WrittenOfList ==
    ASSUME TypeInv, NEW list \in Seq(Jobs)
    PROVE  /\ Written(list) \in Seq(Jobs)
           /\ ToSet(Written(list)) \subseteq ToSet(list) \cup ToSet(sentFile)
<1>1. CASE list = <<>>
  BY <1>1 DEF Written, TypeInv
<1>2. CASE list # <<>>
  <2>1. Len(list) \in 1 .. Len(list) /\ DOMAIN list = 1 .. Len(list)
    BY <1>2, EmptySeq, LenProperties
  <2>2. Last(list) \in ToSet(list) /\ Last(list) \in Jobs
    BY <2>1, ElementOfSeq DEF Last, ToSet
  <2>3. Written(list) = <<Last(list)>>
    BY <1>2 DEF Written
  <2>4. <<Last(list)>> \in Seq(Jobs) /\ ToSet(<<Last(list)>>) = {Last(list)}
    BY <2>2 DEF ToSet
  <2> QED BY <2>2, <2>3, <2>4
<1> QED BY <1>1, <1>2

-----------------------------------------------------------------------------
(* Types.                                                                  *)

LEMMA TypesHold == TypeInv => TypeOK
BY DEF TypeInv, TypeOK, Hands, AnyHands, Stoppers, AnyStops, Items, Tasks, Requests, Sessions

\* A job is a user and a file.
LEMMA JobParts ==
    ASSUME NEW j \in Jobs
    PROVE  j[1] \in Users /\ j[2] \in 1 .. MaxFile /\ j = <<j[1], j[2]>>
BY DEF Jobs

LEMMA PresentJob ==
    ASSUME NEW u \in Users, user[u] \in Requests
    PROVE  Job(u) \in Jobs /\ Job(u)[1] = u
BY DEF Job, Jobs, Requests

LEMMA EmptyTypes == NoTask \in Tasks /\ Idle \in Hands /\ NoStop \in Stoppers
BY BoundsAssumption
DEF NoTask, Idle, NoStop, Tasks, Hands, AnyHands, Stoppers, AnyStops, Sessions, Stops

\* What an answer makes of a request.
LEMMA AnsweredType ==
    ASSUME NEW r \in Requests, NEW rcode
    PROVE  /\ Served(r) \in Requests /\ Refused(r) \in Requests /\ Answered(r, rcode) \in Requests
           /\ Served(r).session = r.session /\ Refused(r).session = r.session
           /\ Answered(r, rcode).session = r.session
<1>1. Refused(r) \in Requests /\ Refused(r).session = r.session
  BY DEF Refused, Requests
<1>2. Served(r) \in Requests /\ Served(r).session = r.session
  <2>1. CASE r.file < MaxFile
    <3>1. r.file + 1 \in 1 .. MaxFile
      BY <2>1, BoundsAssumption DEF Requests
    <3>2. Served(r) = [r EXCEPT !.file = r.file + 1, !.at = "ready", !.retry = FALSE]
      BY <2>1 DEF Served
    <3> QED BY <3>1, <3>2 DEF Requests
  <2>2. CASE ~ (r.file < MaxFile)
    <3>1. Served(r) = [r EXCEPT !.at = "done"]
      BY <2>2 DEF Served
    <3> QED BY <3>1 DEF Requests
  <2> QED BY <2>1, <2>2
<1> QED BY <1>1, <1>2 DEF Answered

LEMMA TypeInit == Init => TypeInv
<1> SUFFICES ASSUME Init PROVE TypeInv
  OBVIOUS
<1>1. tasks \in [Jobs -> Tasks] /\ thread \in Hands /\ stopper \in [Stops -> Stoppers]
  BY EmptyTypes DEF Init
<1>2. user \in [Users -> Requests] /\ SessionsCounted
  BY BoundsAssumption DEF Init, Requests, SessionsCounted, Sessions
<1>3. queue \in Seq(Items) /\ sentList \in Seq(Jobs) /\ sentFile \in Seq(Jobs)
  BY EmptySeq DEF Init
<1>4. StopsNumbered
  BY DEF Init, StopsNumbered, NoStop
<1> QED BY <1>1, <1>2, <1>3, <1>4, BoundsAssumption DEF TypeInv, Init

\* A user's request is replaced by one of the same session.
LEMMA RequestReplaced ==
    ASSUME TypeInv, NEW u \in Users, NEW r \in Requests, r.session = user[u].session,
           user' = [user EXCEPT ![u] = r], restarts' = restarts
    PROVE  user' \in [Users -> Requests] /\ SessionsCounted'
<1>1. user \in [Users -> Requests] /\ SessionsCounted
  BY DEF TypeInv
<1>2. user' \in [Users -> Requests]
  BY <1>1
<1>3. \A v \in Users : user'[v].session = user[v].session
  BY <1>1
<1> QED BY <1>1, <1>2, <1>3 DEF SessionsCounted

LEMMA AnswerType ==
    ASSUME TypeInv, NEW u \in Users, NEW session, NEW rcode,
           Answer(u, session, rcode), restarts' = restarts
    PROVE  user' \in [Users -> Requests] /\ SessionsCounted' /\ answers' \in [Users -> Nat]
<1>1. CASE user[u].session # session
  BY <1>1 DEF TypeInv, Answer, SessionsCounted
<1>2. CASE user[u].session = session
  <2>1. user[u] \in Requests /\ answers \in [Users -> Nat]
    BY DEF TypeInv
  <2> DEFINE r == Answered(user[u], rcode)
  <2>2. r \in Requests /\ r.session = user[u].session
    BY <2>1, AnsweredType
  <2>3. user' = [user EXCEPT ![u] = r] /\ answers' = [answers EXCEPT ![u] = @ + 1]
    BY <1>2 DEF Answer
  <2> HIDE DEF r
  <2>4. answers' \in [Users -> Nat]
    BY <2>1, <2>3
  <2> QED BY <2>2, <2>3, <2>4, RequestReplaced
<1> QED BY <1>1, <1>2

\* The task and the item that a request is put into.
NewTask(u) == [NoTask EXCEPT !.listed = TRUE, !.session = user[u].session]
NewItem(u) == [job |-> Job(u), session |-> user[u].session, retry |-> user[u].retry]

LEMMA NewWork ==
    ASSUME TypeInv, NEW u \in Users
    PROVE  /\ NewTask(u) \in Tasks /\ NewItem(u) \in Items
           /\ NewTask(u).listed /\ NewTask(u).session = user[u].session
           /\ ~ NewTask(u).stop /\ NewTask(u).sem = NoSem
<1>1. user[u] \in Requests /\ user[u].session \in Sessions /\ user[u].retry \in BOOLEAN
  BY DEF TypeInv, Requests
<1>2. NoTask \in Tasks /\ NoTask.stop = FALSE /\ NoTask.sem = NoSem
  BY EmptyTypes DEF NoTask
<1>3. NewItem(u) \in Items
  BY <1>1, PresentJob DEF NewItem, Items
<1> QED BY <1>1, <1>2, <1>3 DEF Tasks, NewTask

\* A request is refused or served at once, or put on the list and the queue.
LEMMA SendFileCases ==
    ASSUME NEW u \in Users, SendFile(u)
    PROVE  \/ /\ Exists(u) \/ AlreadySent(u)
              /\ user' = [user EXCEPT ![u] = IF Exists(u) THEN Refused(user[u]) ELSE Served(user[u])]
              /\ answers' = [answers EXCEPT ![u] = 1]
              /\ UNCHANGED <<tasks, queue>>
           \/ /\ ~ Exists(u) /\ ~ AlreadySent(u)
              /\ tasks' = [tasks EXCEPT ![Job(u)] = NewTask(u)]
              /\ queue' = Append(queue, NewItem(u))
              /\ user' = [user EXCEPT ![u] = [user[u] EXCEPT !.at = "waits"]]
              /\ answers' = [answers EXCEPT ![u] = 0]
BY DEF SendFile, NewTask, NewItem

LEMMA SendFileType == ASSUME TypeInv, NEW u \in Users, SendFile(u) PROVE TypeInv'
<1>1. user[u] \in Requests /\ answers \in [Users -> Nat] /\ tasks \in [Jobs -> Tasks]
  BY DEF TypeInv
<1>2. answers' \in [Users -> Nat]
  BY <1>1, SendFileCases
<1>3. user' \in [Users -> Requests] /\ SessionsCounted'
  <2>1. PICK r \in {Refused(user[u]), Served(user[u]), [user[u] EXCEPT !.at = "waits"]} :
           user' = [user EXCEPT ![u] = r]
    BY SendFileCases
  <2>2. [user[u] EXCEPT !.at = "waits"] \in Requests
        /\ [user[u] EXCEPT !.at = "waits"].session = user[u].session
    BY <1>1 DEF Requests
  <2>3. r \in Requests /\ r.session = user[u].session
    BY <1>1, <2>1, <2>2, AnsweredType
  <2> QED BY <2>1, <2>3, RequestReplaced DEF SendFile
<1>4. tasks' \in [Jobs -> Tasks] /\ queue' \in Seq(Items)
  <2>1. CASE UNCHANGED <<tasks, queue>>
    BY <2>1 DEF TypeInv
  <2>2. CASE ~ UNCHANGED <<tasks, queue>>
    <3>1. tasks' = [tasks EXCEPT ![Job(u)] = NewTask(u)] /\ queue' = Append(queue, NewItem(u))
      BY <2>2, SendFileCases
    <3> QED BY <1>1, <3>1, NewWork, AppendProperties DEF TypeInv
  <2> QED BY <2>1, <2>2
<1> QED BY <1>2, <1>3, <1>4 DEF TypeInv, SendFile, StopsNumbered

LEMMA StopSendFileType == ASSUME TypeInv, NEW j \in Jobs, StopSendFile(j) PROVE TypeInv'
<1>1. /\ tasks \in [Jobs -> Tasks] /\ stopper \in [Stops -> Stoppers] /\ tasks[j] \in Tasks
      /\ StopsNumbered /\ stops \in 0 .. MaxStops
  BY DEF TypeInv
<1>2. stops + 1 \in Stops /\ stops' = stops + 1 /\ stops' \in 0 .. MaxStops
  BY <1>1, BoundsAssumption DEF StopSendFile, Stops
<1>3. tasks' \in [Jobs -> Tasks]
  <2> DEFINE t == [tasks[j] EXCEPT !.stop = TRUE, !.sem = stops + 1]
  <2>1. t \in Tasks /\ tasks' = [tasks EXCEPT ![j] = t]
    BY <1>1, <1>2 DEF StopSendFile, Tasks
  <2> HIDE DEF t
  <2> QED BY <1>1, <2>1
<1>4. stopper' \in [Stops -> Stoppers] /\ StopsNumbered'
  <2> DEFINE s == [at |-> "waits", job |-> j, session |-> tasks[j].session]
  <2>1. s \in Stoppers /\ stopper' = [stopper EXCEPT ![stops + 1] = s]
    BY <1>1 DEF StopSendFile, Stoppers, AnyStops, Tasks
  <2> HIDE DEF s
  <2>2. \A n \in Stops : n > stops' => n > stops /\ n # stops + 1
    BY <1>1, <1>2 DEF Stops
  <2> QED BY <1>1, <1>2, <2>1, <2>2 DEF StopsNumbered
<1>5. restopped' \subseteq Users
  BY JobParts DEF TypeInv, StopSendFile, StoppedAgain
<1> QED BY <1>2, <1>3, <1>4, <1>5 DEF TypeInv, StopSendFile, SessionsCounted

\* The stop command ends, by the thread's signal or by its timeout.
LEMMA StopEnds ==
    ASSUME TypeInv, NEW n \in Stops, StopDone(n) \/ StopTimeout(n)
    PROVE  /\ stopper[n].at # "none" /\ stopper[n].job \in Jobs /\ stopper[n].job[1] \in Users
           /\ stopper' = [stopper EXCEPT ![n] = NoStop]
           /\ Answer(stopper[n].job[1], stopper[n].session, "failed")
           /\ tasks' = tasks
              \/ tasks' = [tasks EXCEPT ![stopper[n].job] = SemCleared(tasks[stopper[n].job])]
           /\ UNCHANGED <<queue, thread, sentList, sentFile, restarts, crashes, stops,
                           delivered, known, restopped, twice, lost>>
<1>1. stopper[n].at # "none"
  BY DEF StopDone, StopTimeout
<1>2. stopper[n].job \in Jobs
  BY <1>1 DEF TypeInv, Stoppers
<1> QED BY <1>1, <1>2, JobParts DEF StopDone, StopTimeout

\* A semaphore is taken away: the rest of the task stays.
LEMMA SemTaken ==
    ASSUME NEW t \in Tasks
    PROVE  /\ SemCleared(t) \in Tasks /\ SemCleared(t).sem = NoSem
           /\ SemCleared(t).listed = t.listed /\ SemCleared(t).stop = t.stop
           /\ SemCleared(t).session = t.session
BY DEF SemCleared, Tasks

LEMMA StopEndsType ==
    ASSUME TypeInv, NEW n \in Stops, StopDone(n) \/ StopTimeout(n)
    PROVE  TypeInv'
<1>1. stopper \in [Stops -> Stoppers] /\ tasks \in [Jobs -> Tasks] /\ StopsNumbered
  BY DEF TypeInv
<1>2. user' \in [Users -> Requests] /\ SessionsCounted' /\ answers' \in [Users -> Nat]
  BY StopEnds, AnswerType
<1>3. tasks' \in [Jobs -> Tasks]
  BY <1>1, StopEnds, SemTaken
<1>4. stopper' \in [Stops -> Stoppers] /\ StopsNumbered'
  <2>1. stopper' = [stopper EXCEPT ![n] = NoStop] /\ stops' = stops /\ NoStop.at = "none"
    BY StopEnds DEF NoStop
  <2> QED BY <1>1, <2>1, EmptyTypes DEF StopsNumbered
<1>5. UNCHANGED <<queue, thread, sentList, sentFile, restarts, crashes, stops,
                  delivered, known, restopped, twice, lost>>
  BY StopEnds
<1> QED BY <1>2, <1>3, <1>4, <1>5 DEF TypeInv

LEMMA MarkedTasks ==
    ASSUME TypeInv, NEW u \in Users, NEW session
    PROVE  /\ TasksOf(u, session) \subseteq Jobs
           /\ Cardinality(TasksOf(u, session)) \in Nat
<1>1. IsFiniteSet({u} \X (1 .. MaxFile))
  <2>1. IsFiniteSet({u})
    BY FS_Singleton
  <2>2. IsFiniteSet(1 .. MaxFile)
    BY FS_Interval, BoundsAssumption
  <2> QED BY <2>1, <2>2, FS_Product
<1>2. TasksOf(u, session) \subseteq {u} \X (1 .. MaxFile)
  BY DEF TasksOf, Jobs
<1>3. IsFiniteSet(TasksOf(u, session))
  BY <1>1, <1>2, FS_Subset
<1> QED BY <1>3, FS_CardinalityType DEF TasksOf

LEMMA StopTasksType ==
    ASSUME TypeInv, NEW u \in Users, NEW session \in Sessions, StopTasks(u, session)
    PROVE  TypeInv'
<1> DEFINE marked == TasksOf(u, session)
<1>1. tasks \in [Jobs -> Tasks] /\ stops \in 0 .. MaxStops /\ answers \in [Users -> Nat]
      /\ StopsNumbered /\ user[u] \in Requests
  BY DEF TypeInv
<1>2. stops' = stops + 1 /\ stops' \in 0 .. MaxStops /\ stopper' = stopper /\ restarts' = restarts
  BY <1>1, BoundsAssumption DEF StopTasks
<1>3. tasks' \in [Jobs -> Tasks]
  <2>1. \A j \in Jobs : [tasks[j] EXCEPT !.stop = TRUE] \in Tasks /\ tasks[j] \in Tasks
    BY <1>1 DEF Tasks
  <2> QED BY <2>1 DEF StopTasks
<1>4. restopped' \subseteq Users
  <2>1. marked \subseteq Jobs
    BY MarkedTasks
  <2> HIDE DEF marked
  <2>2. StoppedAgain(marked) \subseteq Users
    BY <2>1, JobParts DEF StoppedAgain
  <2> QED BY <2>2 DEF TypeInv, StopTasks, marked
<1>5. answers' \in [Users -> Nat]
  <2>1. answers' = answers \/ answers' = [answers EXCEPT ![u] = answers[u] + Cardinality(marked)]
    BY DEF StopTasks
  <2>2. Cardinality(marked) \in Nat
    BY MarkedTasks
  <2> HIDE DEF marked
  <2> QED BY <1>1, <2>1, <2>2
<1>6. user' \in [Users -> Requests] /\ SessionsCounted'
  <2>1. CASE user' = user
    BY <1>2, <2>1 DEF TypeInv, SessionsCounted
  <2>2. CASE user' # user
    <3>1. user' = [user EXCEPT ![u] = Answered(user[u], "failed")]
      BY <2>2 DEF StopTasks
    <3> QED BY <1>1, <1>2, <3>1, AnsweredType, RequestReplaced
  <2> QED BY <2>1, <2>2
<1>7. StopsNumbered'
  BY <1>1, <1>2 DEF StopsNumbered, Stops
<1> QED BY <1>2, <1>3, <1>4, <1>5, <1>6, <1>7 DEF TypeInv, StopTasks

LEMMA TakeType == ASSUME TypeInv, Take PROVE TypeInv'
<1>1. queue \in Seq(Items) /\ queue # <<>> /\ thread \in Hands
  BY DEF TypeInv, Take
<1>2. Head(queue) \in Items /\ queue' \in Seq(Items)
  BY <1>1, HeadTailProperties DEF Take
<1>3. thread' \in Hands
  BY <1>2 DEF Take, Hands, AnyHands, Items
<1> QED BY <1>2, <1>3 DEF TypeInv, Take, historyVars, SessionsCounted, StopsNumbered

\* The thread sends the file, or does not.
LEMMA DeliveryType == ASSUME TypeInv, Deliver \/ NotDelivered PROVE TypeInv'
<1>1. thread \in Hands
  BY DEF TypeInv
<1>2. thread' \in Hands
  BY <1>1 DEF Deliver, NotDelivered, Hands, AnyHands
<1>3. delivered' \cup twice' \subseteq Jobs /\ UNCHANGED <<known, lost, answers, restopped>>
  <2>1. CASE NotDelivered
    BY <2>1 DEF TypeInv, NotDelivered, historyVars
  <2>2. CASE Deliver
    <3>1. thread.job \in Jobs
      BY <1>1, <2>2 DEF Deliver, Hands
    <3> QED BY <2>2, <3>1 DEF TypeInv, Deliver
  <2> QED BY <2>1, <2>2
<1> QED BY <1>2, <1>3 DEF TypeInv, Deliver, NotDelivered, SessionsCounted, StopsNumbered

\* The list that SaveStatus leaves, and what of it is written.
LEMMA SavedList ==
    ASSUME TypeInv, SaveStatus
    PROVE  /\ sentList' \in Seq(Jobs) /\ sentFile' \in Seq(Jobs)
           /\ thread.job \in Jobs /\ thread.job[1] \in Users
           /\ \A e \in ToSet(sentList) : e[1] # thread.job[1] => e \in ToSet(sentList')
           /\ thread.rcode = "OK" => thread.job \in ToSet(sentList')
           /\ ToSet(sentList') \subseteq
                 ToSet(sentList) \cup (IF thread.rcode = "OK" THEN {thread.job} ELSE {})
           /\ ToSet(sentFile') \subseteq ToSet(sentFile) \cup ToSet(sentList')
<1> DEFINE d == thread.job
           w == Without(thread.job[1])
<1>1. d \in Jobs /\ thread.job[1] \in Users
  BY JobParts DEF TypeInv, SaveStatus, Hands
<1>2. /\ w \in Seq(Jobs) /\ ToSet(w) \subseteq ToSet(sentList)
      /\ \A e \in ToSet(sentList) : e[1] # thread.job[1] => e \in ToSet(w)
  BY <1>1, WithoutKeeps
<1>3. CASE thread.rcode = "OK"
  <2>1. sentList' = Append(w, d) /\ sentFile' = Written(Append(w, d))
    BY <1>3 DEF SaveStatus
  <2> HIDE DEF w, d
  <2>2. Append(w, d) \in Seq(Jobs) /\ ToSet(Append(w, d)) = ToSet(w) \cup {d}
    BY <1>1, <1>2, AppendAdds
  <2>3. /\ Written(Append(w, d)) \in Seq(Jobs)
        /\ ToSet(Written(Append(w, d))) \subseteq ToSet(Append(w, d)) \cup ToSet(sentFile)
    BY <2>2, WrittenOfList
  <2> QED BY <1>1, <1>2, <1>3, <2>1, <2>2, <2>3 DEF d
<1>4. CASE thread.rcode # "OK" /\ UNCHANGED <<sentList, sentFile>>
  BY <1>1, <1>4 DEF TypeInv
<1>5. CASE thread.rcode # "OK" /\ ~ UNCHANGED <<sentList, sentFile>>
  <2>1. sentList' = w /\ sentFile' = Written(w)
    BY <1>5 DEF SaveStatus
  <2> HIDE DEF w
  <2>2. Written(w) \in Seq(Jobs) /\ ToSet(Written(w)) \subseteq ToSet(w) \cup ToSet(sentFile)
    BY <1>2, WrittenOfList
  <2> QED BY <1>1, <1>2, <1>5, <2>1, <2>2
<1> QED BY <1>3, <1>4, <1>5

LEMMA SaveStatusType == ASSUME TypeInv, SaveStatus PROVE TypeInv'
<1>1. thread' \in Hands
  BY DEF TypeInv, SaveStatus, Hands, AnyHands
<1>2. known' \subseteq Jobs
  BY SavedList DEF TypeInv, SaveStatus, KnownOfOthers
<1> QED BY <1>1, <1>2, SavedList DEF TypeInv, SaveStatus, SessionsCounted, StopsNumbered

\* The task leaves the list, and the stop command whose semaphore it holds is released.
LEMMA SendFileDoneCases ==
    ASSUME TypeInv, SendFileDone
    PROVE  /\ thread.at = "done" /\ thread.job \in Jobs /\ tasks[thread.job] \in Tasks
           /\ tasks' = [tasks EXCEPT ![thread.job] = NoTask]
           /\ \/ stopper' = stopper
              \/ /\ tasks[thread.job].sem \in Stops
                 /\ stopper' = [stopper EXCEPT ![tasks[thread.job].sem] =
                                  [stopper[tasks[thread.job].sem] EXCEPT !.at = "signalled"]]
           /\ thread' = IF tasks[thread.job].stop THEN Idle ELSE [thread EXCEPT !.at = "answer"]
           /\ UNCHANGED <<queue, sentList, sentFile, user, restarts, crashes, stops, historyVars>>
<1>1. thread.at = "done" /\ thread.job \in Jobs /\ tasks[thread.job] \in Tasks
  BY DEF TypeInv, SendFileDone, Hands
<1>2. tasks[thread.job].sem # NoSem => tasks[thread.job].sem \in Stops
  BY <1>1 DEF Tasks
<1>3. AfterStop(tasks[thread.job]) = "idle" <=> tasks[thread.job].stop
  BY <1>1 DEF AfterStop
<1> QED BY <1>1, <1>2, <1>3 DEF SendFileDone

LEMMA SendFileDoneType ==
    ASSUME TypeInv, SendFileDone, SemaphoreLives
    PROVE  TypeInv'
<1>1. thread \in Hands /\ tasks \in [Jobs -> Tasks] /\ stopper \in [Stops -> Stoppers]
  BY DEF TypeInv
<1>2. thread' \in Hands
  <2>1. thread' = Idle \/ thread' = [thread EXCEPT !.at = "answer"]
    BY SendFileDoneCases
  <2>2. [thread EXCEPT !.at = "answer"] \in Hands
    BY <1>1, SendFileDoneCases DEF Hands, AnyHands
  <2> QED BY <2>1, <2>2, EmptyTypes
<1>3. tasks' \in [Jobs -> Tasks]
  BY <1>1, SendFileDoneCases, EmptyTypes
<1>4. stopper' \in [Stops -> Stoppers] /\ StopsNumbered'
  <2>1. CASE stopper' = stopper
    BY <2>1, SendFileDoneCases DEF TypeInv, StopsNumbered
  <2>2. CASE stopper' # stopper
    <3> DEFINE n == tasks[thread.job].sem
               s == [stopper[n] EXCEPT !.at = "signalled"]
    <3>1. n \in Stops /\ stopper' = [stopper EXCEPT ![n] = s]
      BY <2>2, SendFileDoneCases
    <3>2. stopper[n].at = "waits"
      BY <3>1, SendFileDoneCases DEF SemaphoreLives, Stops, NoSem
    <3>3. s \in Stoppers
      BY <1>1, <3>1, <3>2 DEF Stoppers, AnyStops
    <3>4. ~ (n > stops)
      BY <3>1, <3>2 DEF TypeInv, StopsNumbered
    <3> HIDE DEF n, s
    <3>5. stopper' \in [Stops -> Stoppers]
      BY <1>1, <3>1, <3>3
    <3>6. StopsNumbered'
      <4>1. stops' = stops /\ StopsNumbered
        BY SendFileDoneCases DEF TypeInv
      <4> QED BY <1>1, <3>1, <3>4, <4>1 DEF StopsNumbered
    <3> QED BY <3>5, <3>6
  <2> QED BY <2>1, <2>2
<1>5. UNCHANGED <<queue, sentList, sentFile, user, restarts, crashes, stops, historyVars>>
  BY SendFileDoneCases
<1> QED BY <1>2, <1>3, <1>4, <1>5 DEF TypeInv, historyVars, SessionsCounted

LEMMA SendFileReplyType == ASSUME TypeInv, SendFileReply PROVE TypeInv'
<1>1. thread.job[1] \in Users
  BY JobParts DEF TypeInv, SendFileReply, Hands
<1>2. user' \in [Users -> Requests] /\ SessionsCounted' /\ answers' \in [Users -> Nat]
  BY <1>1, AnswerType DEF SendFileReply
<1> QED BY <1>2, EmptyTypes DEF TypeInv, SendFileReply, StopsNumbered

LEMMA UserRestartType == ASSUME TypeInv, NEW u \in Users, UserRestart(u) PROVE TypeInv'
<1>1. /\ user \in [Users -> Requests] /\ restarts \in 0 .. MaxRestarts /\ restarts < MaxRestarts
      /\ restarts' = restarts + 1 /\ SessionsCounted
  BY DEF TypeInv, UserRestart
<1>2. user[u].session + 1 \in Sessions /\ user[u].session + 1 <= restarts + 1
  BY <1>1, BoundsAssumption DEF SessionsCounted, Requests, Sessions
<1> DEFINE r == [user[u] EXCEPT !.session = user[u].session + 1, !.retry = TRUE, !.at = "ready"]
<1>3. r \in Requests /\ r.session = user[u].session + 1
  BY <1>1, <1>2 DEF Requests
<1>4. user' = [user EXCEPT ![u] = r]
  BY DEF UserRestart
<1> HIDE DEF r
<1>5. user' \in [Users -> Requests]
  BY <1>1, <1>3, <1>4
<1>6. SessionsCounted'
  <2> SUFFICES ASSUME NEW v \in Users PROVE user'[v].session <= restarts'
    BY DEF SessionsCounted
  <2>1. CASE v = u
    BY <1>1, <1>2, <1>3, <1>4, <2>1
  <2>2. CASE v # u
    <3>1. user'[v] = user[v]
      BY <1>1, <1>4, <2>2
    <3>2. user[v].session \in Nat /\ user[v].session <= restarts
      BY <1>1 DEF SessionsCounted, Requests, Sessions
    <3> QED BY <1>1, <3>1, <3>2
  <2> QED BY <2>1, <2>2
<1>7. restarts' \in 0 .. MaxRestarts
  BY <1>1, BoundsAssumption
<1> QED BY <1>5, <1>6, <1>7 DEF TypeInv, UserRestart, serverVars, historyVars, StopsNumbered

LEMMA ResendType == ASSUME TypeInv, NEW u \in Users, Resend(u) PROVE TypeInv'
<1> DEFINE r == [user[u] EXCEPT !.at = "ready", !.retry = FALSE]
<1>1. r \in Requests /\ r.session = user[u].session /\ user' = [user EXCEPT ![u] = r]
  BY DEF TypeInv, Resend, Requests
<1> HIDE DEF r
<1>2. user' \in [Users -> Requests] /\ SessionsCounted'
  BY <1>1, RequestReplaced DEF Resend
<1> QED BY <1>2 DEF TypeInv, Resend, serverVars, historyVars, StopsNumbered

LEMMA CrashType == ASSUME TypeInv, Crash PROVE TypeInv'
<1>1. user \in [Users -> Requests] /\ SessionsCounted /\ crashes \in 0 .. MaxCrashes
  BY DEF TypeInv
<1>2. /\ tasks' \in [Jobs -> Tasks] /\ thread' \in Hands /\ queue' \in Seq(Items)
      /\ stopper' \in [Stops -> Stoppers] /\ StopsNumbered'
  BY EmptyTypes, EmptySeq DEF Crash, StopsNumbered, NoStop
<1>3. \A u \in Users : user'[u] \in Requests /\ user'[u].session = user[u].session
  BY <1>1, AnsweredType DEF Crash
<1>4. user' \in [Users -> Requests] /\ SessionsCounted'
  <2>1. DOMAIN user' = Users /\ user' = [u \in Users |-> user'[u]]
    BY DEF Crash
  <2>2. restarts' = restarts
    BY DEF Crash
  <2> QED BY <1>1, <1>3, <2>1, <2>2 DEF SessionsCounted
<1>5. crashes' \in 0 .. MaxCrashes
  <2>1. crashes' = crashes + 1 /\ crashes < MaxCrashes
    BY DEF Crash
  <2> QED BY <1>1, <2>1, BoundsAssumption
<1> QED BY <1>2, <1>4, <1>5 DEF TypeInv, Crash, Recovered

-----------------------------------------------------------------------------
(* Semaphores.                                                             *)

\* The semaphores stay while no task gets one and no stop command that waits changes.
LEMMA SemaphoresKept ==
    ASSUME SemaphoreLives,
           \A j \in Jobs : tasks'[j].sem = tasks[j].sem \/ tasks'[j].sem = NoSem,
           stopper' = stopper
    PROVE  SemaphoreLives'
BY DEF SemaphoreLives

LEMMA SemaphoreStep ==
    ASSUME TypeInv, SemaphoreLives, [Next]_vars
    PROVE  SemaphoreLives'
<1>1. tasks \in [Jobs -> Tasks] /\ stopper \in [Stops -> Stoppers]
      /\ \A j \in Jobs : tasks[j].sem # NoSem => tasks[j].sem \in Stops
  BY DEF TypeInv, Tasks
<1>2. ASSUME NEW u \in Users, SendFile(u) PROVE SemaphoreLives'
  <2>1. stopper' = stopper
    BY <1>2 DEF SendFile
  <2>2. Job(u) \in Jobs /\ NewTask(u).sem = NoSem
    BY NewWork, PresentJob DEF TypeInv
  <2>3. tasks' = tasks \/ tasks' = [tasks EXCEPT ![Job(u)] = NewTask(u)]
    BY <1>2, SendFileCases
  <2> QED BY <1>1, <2>1, <2>2, <2>3, SemaphoresKept
<1>3. ASSUME NEW u \in Users, NEW session \in Sessions, StopTasks(u, session)
      PROVE  SemaphoreLives'
  <2>1. \A j \in Jobs : tasks'[j].sem = tasks[j].sem
    BY <1>1, <1>3 DEF StopTasks, Tasks
  <2> QED BY <1>3, <2>1, SemaphoresKept DEF StopTasks
<1>4. ASSUME NEW j \in Jobs, StopSendFile(j) PROVE SemaphoreLives'
  <2> DEFINE m == stops + 1
             s == [at |-> "waits", job |-> j, session |-> tasks[j].session]
             t == [tasks[j] EXCEPT !.stop = TRUE, !.sem = m]
  <2>1. m \in Stops /\ m > stops /\ stopper[m].at = "none"
    <3>1. m \in Stops /\ m > stops
      BY <1>4, BoundsAssumption DEF TypeInv, StopSendFile, Stops
    <3> QED BY <3>1 DEF TypeInv, StopsNumbered
  <2>2. tasks' = [tasks EXCEPT ![j] = t] /\ stopper' = [stopper EXCEPT ![m] = s]
    BY <1>4 DEF StopSendFile
  <2>3. t.sem = m /\ s.at = "waits" /\ s.job = j
    BY <1>1 DEF Tasks
  <2> HIDE DEF m, s, t
  <2> SUFFICES ASSUME NEW k \in Jobs, tasks'[k].sem # NoSem
               PROVE  /\ stopper'[tasks'[k].sem].at = "waits"
                      /\ stopper'[tasks'[k].sem].job = k
    BY DEF SemaphoreLives
  <2>4. CASE k = j
    BY <1>1, <2>1, <2>2, <2>3, <2>4
  <2>5. CASE k # j
    <3>1. tasks'[k] = tasks[k]
      BY <1>1, <2>2, <2>5
    <3>2. /\ tasks[k].sem \in Stops /\ stopper[tasks[k].sem].at = "waits"
          /\ stopper[tasks[k].sem].job = k
      BY <1>1, <3>1 DEF SemaphoreLives
    <3>3. tasks[k].sem # m
      BY <2>1, <3>2
    <3> QED BY <1>1, <2>2, <3>1, <3>2, <3>3
  <2> QED BY <2>4, <2>5
<1>5. ASSUME NEW n \in Stops, StopDone(n) PROVE SemaphoreLives'
  <2>1. tasks' = tasks /\ stopper' = [stopper EXCEPT ![n] = NoStop] /\ stopper[n].at = "signalled"
    BY <1>5 DEF StopDone
  <2> QED BY <1>1, <2>1 DEF SemaphoreLives
<1>6. ASSUME NEW n \in Stops, StopTimeout(n) PROVE SemaphoreLives'
  <2> DEFINE j == stopper[n].job
  <2>1. /\ tasks' = [tasks EXCEPT ![j] = SemCleared(tasks[j])]
        /\ stopper' = [stopper EXCEPT ![n] = NoStop]
    BY <1>6 DEF StopTimeout
  <2>2. j \in Jobs
    BY <1>6, StopEnds
  <2>3. SemCleared(tasks[j]).sem = NoSem
    BY <1>1, <2>2, SemTaken
  <2> SUFFICES ASSUME NEW k \in Jobs, tasks'[k].sem # NoSem
               PROVE  /\ stopper'[tasks'[k].sem].at = "waits"
                      /\ stopper'[tasks'[k].sem].job = k
    BY DEF SemaphoreLives
  <2>4. k # j /\ tasks'[k] = tasks[k]
    BY <1>1, <2>1, <2>2, <2>3
  <2>5. /\ tasks[k].sem \in Stops /\ stopper[tasks[k].sem].at = "waits"
        /\ stopper[tasks[k].sem].job = k
    BY <1>1, <2>4 DEF SemaphoreLives
  <2>6. tasks[k].sem # n
    BY <2>4, <2>5
  <2> HIDE DEF j
  <2> QED BY <1>1, <2>1, <2>4, <2>5, <2>6
<1>7. CASE SendFileDone
  <2> DEFINE j == thread.job
             n == tasks[j].sem
  <2>1. /\ j \in Jobs /\ tasks' = [tasks EXCEPT ![j] = NoTask]
        /\ \/ stopper' = stopper
           \/ stopper' = [stopper EXCEPT ![n] = [stopper[n] EXCEPT !.at = "signalled"]]
    BY <1>7, SendFileDoneCases
  <2>2. NoTask.sem = NoSem
    BY DEF NoTask
  <2> SUFFICES ASSUME NEW k \in Jobs, tasks'[k].sem # NoSem
               PROVE  /\ stopper'[tasks'[k].sem].at = "waits"
                      /\ stopper'[tasks'[k].sem].job = k
    BY DEF SemaphoreLives
  <2>3. k # j /\ tasks'[k] = tasks[k]
    BY <1>1, <2>1, <2>2
  <2>4. /\ tasks[k].sem \in Stops /\ stopper[tasks[k].sem].at = "waits"
        /\ stopper[tasks[k].sem].job = k
    BY <1>1, <2>3 DEF SemaphoreLives
  <2>5. n # NoSem => stopper[n].job = j
    BY <2>1 DEF SemaphoreLives
  <2>6. tasks[k].sem # n
    BY <2>3, <2>4, <2>5 DEF Stops, NoSem
  <2> HIDE DEF j, n
  <2> QED BY <1>1, <2>1, <2>3, <2>4, <2>6
<1>8. CASE Crash
  BY <1>8 DEF Crash, SemaphoreLives, NoTask
<1>9. CASE Take \/ Deliver \/ NotDelivered \/ SaveStatus \/ SendFileReply
           \/ UNCHANGED vars \/ \E u \in Users : UserRestart(u) \/ Resend(u)
  <2>1. UNCHANGED <<tasks, stopper>>
    BY <1>9 DEF Take, Deliver, NotDelivered, SaveStatus, SendFileReply, UserRestart, Resend,
                vars, serverVars
  <2> QED BY <2>1 DEF SemaphoreLives
<1> QED BY <1>2, <1>3, <1>4, <1>5, <1>6, <1>7, <1>8, <1>9 DEF Next, Thread, Sessions

LEMMA TypeStep == TypeInv /\ SemaphoreLives /\ [Next]_vars => TypeInv' /\ SemaphoreLives'
<1> SUFFICES ASSUME TypeInv, SemaphoreLives, [Next]_vars PROVE TypeInv' /\ SemaphoreLives'
  OBVIOUS
<1>1. CASE Thread
  BY <1>1, TakeType, DeliveryType, SaveStatusType, SendFileDoneType, SendFileReplyType,
     SemaphoreStep DEF Thread
<1>2. CASE Crash
  BY <1>2, CrashType, SemaphoreStep
<1>3. ASSUME NEW u \in Users, SendFile(u) \/ UserRestart(u) \/ Resend(u)
      PROVE  TypeInv'
  BY <1>3, SendFileType, UserRestartType, ResendType
<1>4. ASSUME NEW u \in Users, NEW session \in Sessions, StopTasks(u, session)
      PROVE  TypeInv'
  BY <1>4, StopTasksType
<1>5. ASSUME NEW j \in Jobs, StopSendFile(j)
      PROVE  TypeInv'
  BY <1>5, StopSendFileType
<1>6. ASSUME NEW n \in Stops, StopDone(n) \/ StopTimeout(n)
      PROVE  TypeInv'
  BY <1>6, StopEndsType
<1>7. ASSUME UNCHANGED vars
      PROVE  TypeInv'
  BY <1>7 DEF vars, serverVars, historyVars, TypeInv, SessionsCounted, StopsNumbered
<1> QED BY <1>1, <1>2, <1>3, <1>4, <1>5, <1>6, <1>7, SemaphoreStep DEF Next, Sessions

LEMMA SemaphoreInit == Init => SemaphoreLives
BY DEF Init, SemaphoreLives, NoTask

\* Every variable keeps its type: the thread never works for nobody, whatever
\* restarts, crashes and stop commands come in between.
THEOREM TypeCorrect == Spec => []TypeOK
<1> QED BY TypeInit, SemaphoreInit, TypeStep, TypesHold, PTL DEF Spec

\* The thread releases no semaphore of a stop command that has returned: a task holds
\* that of one that waits for it, or none, though stop commands overwrite each other's
\* semaphores and give up in any order.
THEOREM SemaphoresLive == Spec => []SemaphoreLives
<1> QED BY TypeInit, SemaphoreInit, TypeStep, PTL DEF Spec

-----------------------------------------------------------------------------
(* One answer.                                                             *)

(* What concerns a user stays as it is, or stops concerning it. *)
Kept(v) ==
  /\ \A j \in Jobs : j[1] = v => tasks'[j] = tasks[j]
  /\ user'[v] = user[v] /\ answers'[v] = answers[v]
  /\ \A n \in Stops : StopsFor(v, n)' => StopsFor(v, n) /\ stopper'[n] = stopper[n]
  /\ AnswerFor(v)' => thread' = thread

(* Nothing changes but what concerns one user. *)
OnlyOf(u) ==
  /\ \A j \in Jobs : j[1] # u => tasks'[j] = tasks[j]
  /\ \A v \in Users \ {u} : user'[v] = user[v] /\ answers'[v] = answers[v]
  /\ \A n \in Stops : stopper'[n] = stopper[n] \/ stopper'[n].job[1] = u \/ stopper'[n].at = "none"
  /\ thread' = thread \/ thread'.job[1] = u \/ thread'.at # "answer"
  /\ restopped \subseteq restopped'

LEMMA UserKept ==
    ASSUME TypeInv, NEW v \in Users, UserInv(v), Kept(v)
    PROVE  UserInv(v)'
<1>1. /\ Job(v) \in Jobs /\ Job(v)[1] = v /\ Job(v)' = Job(v)
      /\ tasks'[Job(v)] = tasks[Job(v)] /\ user'[v] = user[v] /\ answers'[v] = answers[v]
  BY PresentJob DEF TypeInv, Kept, Job
<1>2. ListedIsPresent(v)'
  BY <1>1 DEF UserInv, ListedIsPresent, Kept
<1>3. TaskOwes(v)' <=> TaskOwes(v)
  BY <1>1 DEF TaskOwes, Current, Listed
<1>4. \A n \in Stops : StopOwes(v, n)' => StopOwes(v, n)
  BY <1>1 DEF StopOwes, Kept
<1>5. ThreadOwes(v)' => ThreadOwes(v) /\ thread' = thread
  BY <1>1 DEF ThreadOwes, Kept, AnswerFor
<1>6. SessionsPassed(v)'
  <2>1. \A n \in Stops : StopsFor(v, n)' => stopper'[n].session <= user'[v].session
    BY <1>1 DEF UserInv, SessionsPassed, Kept
  <2>2. AnswerFor(v)' => thread'.session <= user'[v].session
    BY <1>1 DEF UserInv, SessionsPassed, Kept, AnswerFor
  <2> QED BY <2>1, <2>2 DEF SessionsPassed
<1>7. OneOwes(v)'
  <2>1. Unanswered(v)' <=> Unanswered(v)
    BY <1>1 DEF Unanswered
  <2>2. TaskOwes(v)' => Unanswered(v)'
    BY <1>3, <2>1 DEF UserInv, OneOwes
  <2>3. ThreadOwes(v)' => Unanswered(v)' /\ thread'.job = Job(v)' /\ ~ tasks'[Job(v)'].listed
    BY <1>1, <1>5, <2>1 DEF UserInv, OneOwes
  <2>4. \A n \in Stops : StopOwes(v, n)' => Unanswered(v)' /\ ~ TaskOwes(v)' /\ ~ ThreadOwes(v)'
    BY <1>3, <1>4, <1>5, <2>1 DEF UserInv, OneOwes
  <2>5. \A m, n \in Stops : StopOwes(v, m)' /\ StopOwes(v, n)' => m = n
    BY <1>4 DEF UserInv, OneOwes
  <2> QED BY <2>2, <2>3, <2>4, <2>5 DEF OneOwes
<1> QED BY <1>1, <1>2, <1>6, <1>7 DEF UserInv

LEMMA OthersKept ==
    ASSUME TypeInv, RequestInv, NEW u \in Users, OnlyOf(u),
           u \notin restopped' => UserInv(u)'
    PROVE  \A v \in Users \ restopped' : UserInv(v)'
<1> SUFFICES ASSUME NEW v \in Users \ restopped', v # u
             PROVE  UserInv(v)'
  OBVIOUS
<1>1. UserInv(v)
  BY DEF RequestInv, OnlyOf
<1>2. Kept(v)
  BY DEF Kept, OnlyOf, StopsFor, AnswerFor
<1> QED BY <1>1, <1>2, UserKept

\* A user whose present request is answered, or not asked yet, is owed nothing.
LEMMA NobodyOwes ==
    ASSUME NEW u \in Users, UserInv(u), ~ Unanswered(u)
    PROVE  ~ TaskOwes(u) /\ ~ ThreadOwes(u) /\ \A n \in Stops : ~ StopOwes(u, n)
BY DEF UserInv, OneOwes

LEMMA QueueItems ==
    ASSUME TypeInv
    PROVE  /\ Len(queue) \in Nat
           /\ \A i \in 1 .. Len(queue) : queue[i] \in Items /\ queue[i].job \in Jobs
<1>1. queue \in Seq(Items)
  BY DEF TypeInv
<1>2. Len(queue) \in Nat /\ \A i \in 1 .. Len(queue) : queue[i] \in Items
  BY <1>1, ElementOfSeq, LenProperties
<1> QED BY <1>2 DEF Items

\* The work stays listed while the queue and the listing stay and the thread takes
\* nothing new.
LEMMA WorkKept ==
    ASSUME TypeInv, WorkIsListed, queue' = queue,
           \A j \in Jobs : tasks'[j].listed = tasks[j].listed /\ tasks'[j].session = tasks[j].session,
           \A j \in Jobs : Works(j)' => Works(j) /\ thread'.session = thread.session
    PROVE  WorkIsListed'
<1>1. \A i \in 1 .. Len(queue) : Listed(queue[i].job, queue[i].session)' /\ ~ Works(queue[i].job)'
  BY QueueItems DEF WorkIsListed, Listed
<1>2. \A i, j \in 1 .. Len(queue') : queue'[i].job = queue'[j].job => i = j
  BY DEF WorkIsListed
<1>3. \A j \in Jobs : Works(j)' => Listed(j, thread.session)'
  BY DEF WorkIsListed, Listed
<1> QED BY <1>1, <1>2, <1>3 DEF WorkIsListed

\* New work is put into the queue for a job that had none.
LEMMA WorkAdded ==
    ASSUME TypeInv, WorkIsListed, NEW u \in Users, ~ Exists(u), thread' = thread,
           tasks' = [tasks EXCEPT ![Job(u)] = NewTask(u)],
           queue' = Append(queue, NewItem(u))
    PROVE  WorkIsListed'
<1> DEFINE k == Job(u)
           e == NewItem(u)
<1>1. /\ queue \in Seq(Items) /\ Len(queue) \in Nat /\ tasks \in [Jobs -> Tasks]
      /\ \A i \in 1 .. Len(queue) : queue[i].job \in Jobs
  BY QueueItems DEF TypeInv
<1>2. /\ e \in Items /\ e.job = k /\ e.session = user[u].session /\ k \in Jobs
      /\ NewTask(u).listed /\ NewTask(u).session = user[u].session
  BY NewWork, PresentJob DEF TypeInv, NewItem
<1>3. ~ tasks[k].listed
  BY DEF Exists
<1> HIDE DEF k, e
<1>4. /\ Len(queue') = Len(queue) + 1
      /\ \A i \in 1 .. Len(queue) : queue'[i] = queue[i]
      /\ queue'[Len(queue) + 1] = e
  <2>1. queue' = Append(queue, e)
    BY DEF e
  <2> QED BY <1>1, <1>2, <2>1, AppendProperties
<1>5. \A i \in 1 .. Len(queue') : i \in 1 .. Len(queue) \/ i = Len(queue) + 1
  BY <1>1, <1>4
<1>6. \A i \in 1 .. Len(queue) : queue[i].job # k
  BY <1>3 DEF WorkIsListed, Listed
<1>7. ~ Works(k)
  BY <1>2, <1>3 DEF WorkIsListed, Listed
<1>8. tasks'[k] = NewTask(u) /\ \A j \in Jobs : j # k => tasks'[j] = tasks[j]
  <2>1. tasks' = [tasks EXCEPT ![k] = NewTask(u)]
    BY DEF k
  <2> QED BY <1>1, <1>2, <2>1
<1>9. \A j \in Jobs : Works(j)' <=> Works(j)
  BY DEF Works
<1>10. \A i \in 1 .. Len(queue') : Listed(queue[i].job, queue[i].session)' /\ ~ Works(queue[i].job)'
  <2> SUFFICES ASSUME NEW i \in 1 .. Len(queue')
               PROVE  Listed(queue[i].job, queue[i].session)' /\ ~ Works(queue[i].job)'
    OBVIOUS
  <2>1. CASE i \in 1 .. Len(queue)
    BY <1>1, <1>4, <1>6, <1>8, <1>9, <2>1 DEF WorkIsListed, Listed
  <2>2. CASE i = Len(queue) + 1
    BY <1>2, <1>4, <1>7, <1>8, <1>9, <2>2 DEF Listed
  <2> QED BY <1>5, <2>1, <2>2
<1>11. \A i, j \in 1 .. Len(queue') : queue'[i].job = queue'[j].job => i = j
  BY <1>2, <1>4, <1>5, <1>6 DEF WorkIsListed
<1>12. \A j \in Jobs : Works(j)' => Listed(j, thread.session)'
  BY <1>7, <1>8, <1>9 DEF WorkIsListed, Listed
<1> QED BY <1>10, <1>11, <1>12 DEF WorkIsListed

\* A request that is refused or served at once, or put on the list and the queue:
\* it is put there only while the user has no other task.
LEMMA SendFileRequest ==
    ASSUME TypeInv, RequestInv, NEW u \in Users, SendFile(u)
    PROVE  RequestInv'
<1>1. /\ user \in [Users -> Requests] /\ tasks \in [Jobs -> Tasks] /\ answers \in [Users -> Nat]
      /\ user[u] \in Requests /\ Job(u) \in Jobs /\ Job(u)[1] = u
  BY PresentJob DEF TypeInv
<1>2. /\ ~ Unanswered(u) /\ UNCHANGED <<thread, stopper, restopped>>
  BY DEF SendFile, Unanswered
<1>3. CASE Exists(u) \/ AlreadySent(u)
  <2>1. PICK r \in {Refused(user[u]), Served(user[u])} :
           /\ user' = [user EXCEPT ![u] = r] /\ answers' = [answers EXCEPT ![u] = 1]
           /\ Exists(u) => r = Refused(user[u])
    BY <1>3, SendFileCases
  <2>2. r.session = user[u].session /\ r \in Requests /\ (Exists(u) => r.file = user[u].file)
    <3>1. Refused(user[u]).file = user[u].file
      BY <1>1 DEF Refused, Requests
    <3> QED BY <1>1, <2>1, <3>1, AnsweredType
  <2>3. tasks' = tasks /\ queue' = queue
    BY <1>3, SendFileCases
  <2>4. user'[u] = r /\ answers'[u] = 1
    BY <1>1, <2>1
  <2>5. OnlyOf(u)
    BY <1>1, <1>2, <2>1, <2>3 DEF OnlyOf
  <2>6. ASSUME UserInv(u) PROVE UserInv(u)'
    <3>1. Exists(u) => Job(u)' = Job(u)
      BY <2>2, <2>4 DEF Job
    <3>2. ~ Exists(u) => \A j \in Jobs : j[1] = u => ~ tasks[j].listed
      BY <2>6 DEF UserInv, ListedIsPresent, Exists
    <3>3. ListedIsPresent(u)'
      BY <2>2, <2>3, <2>4, <2>6, <3>1, <3>2 DEF UserInv, ListedIsPresent
    <3>4. Job(u)' \in Jobs /\ Job(u)'[1] = u
      BY <2>2, <2>4 DEF Job, Jobs, Requests
    <3>5. ~ TaskOwes(u)'
      <4>1. CASE Exists(u)
        BY <1>2, <2>2, <2>3, <2>4, <2>6, <3>1, <4>1, NobodyOwes DEF TaskOwes, Current, Listed
      <4>2. CASE ~ Exists(u)
        BY <2>3, <3>2, <3>4, <4>2 DEF TaskOwes, Current, Listed
      <4> QED BY <4>1, <4>2
    <3>6. ~ ThreadOwes(u)' /\ \A n \in Stops : ~ StopOwes(u, n)'
      BY <1>2, <2>2, <2>4, <2>6, NobodyOwes DEF ThreadOwes, StopOwes, AnswerFor, StopsFor
    <3>7. SessionsPassed(u)'
      BY <1>2, <2>2, <2>4, <2>6 DEF UserInv, SessionsPassed, StopsFor, AnswerFor
    <3> QED BY <2>4, <3>3, <3>5, <3>6, <3>7 DEF UserInv, OneOwes
  <2>7. WorkIsListed'
    BY <1>2, <2>3, WorkKept DEF RequestInv, Works
  <2> QED BY <1>2, <2>5, <2>6, <2>7, OthersKept DEF RequestInv
<1>4. CASE ~ (Exists(u) \/ AlreadySent(u))
  <2>1. /\ ~ Exists(u) /\ tasks' = [tasks EXCEPT ![Job(u)] = NewTask(u)]
        /\ queue' = Append(queue, NewItem(u))
        /\ user' = [user EXCEPT ![u] = [user[u] EXCEPT !.at = "waits"]]
        /\ answers' = [answers EXCEPT ![u] = 0]
    BY <1>4, SendFileCases
  <2>2. NewTask(u).session = user[u].session
    BY NewWork
  <2>3. /\ tasks'[Job(u)] = NewTask(u) /\ answers'[u] = 0
        /\ user'[u].at = "waits" /\ user'[u].file = user[u].file
        /\ user'[u].session = user[u].session
        /\ \A j \in Jobs : j # Job(u) => tasks'[j] = tasks[j]
    BY <1>1, <2>1 DEF Requests
  <2>4. OnlyOf(u)
    BY <1>1, <1>2, <2>1 DEF OnlyOf
  <2>5. ASSUME UserInv(u) PROVE UserInv(u)'
    <3>1. Job(u)' = Job(u) /\ Unanswered(u)'
      BY <2>3 DEF Job, Unanswered
    <3>2. user[u].session \in Nat
      BY <1>1 DEF Requests, Sessions
    <3>3. ListedIsPresent(u)'
      BY <1>1, <2>2, <2>3, <2>5, <3>1, <3>2 DEF UserInv, ListedIsPresent
    <3>4. ~ ThreadOwes(u)' /\ \A n \in Stops : ~ StopOwes(u, n)'
      BY <1>2, <2>3, <2>5, NobodyOwes DEF ThreadOwes, StopOwes, AnswerFor, StopsFor
    <3>5. SessionsPassed(u)'
      BY <1>2, <2>3, <2>5 DEF UserInv, SessionsPassed, StopsFor, AnswerFor
    <3> QED BY <2>3, <3>1, <3>3, <3>4, <3>5 DEF UserInv, OneOwes
  <2>6. WorkIsListed'
    BY <1>2, <2>1, WorkAdded DEF RequestInv
  <2> QED BY <1>2, <2>4, <2>5, <2>6, OthersKept DEF RequestInv
<1> QED BY <1>3, <1>4

\* stopSendFile leaves the answer to itself, unless another stop has come before.
LEMMA StopSendFileRequest ==
    ASSUME TypeInv, RequestInv, NEW j \in Jobs, StopSendFile(j)
    PROVE  RequestInv'
<1> DEFINE m == stops + 1
           s == [at |-> "waits", job |-> j, session |-> tasks[j].session]
<1>0. PICK u \in Users : u = j[1]
  BY JobParts
<1>1. /\ user \in [Users -> Requests] /\ tasks \in [Jobs -> Tasks] /\ stopper \in [Stops -> Stoppers]
      /\ tasks[j] \in Tasks /\ user[u] \in Requests /\ Job(u) \in Jobs /\ Job(u)[1] = u
  BY PresentJob DEF TypeInv
<1>2. /\ m \in Stops /\ stopper[m].at = "none"
  <2>1. m \in Stops /\ m > stops
    BY BoundsAssumption DEF TypeInv, StopSendFile, Stops
  <2> QED BY <2>1 DEF TypeInv, StopsNumbered
<1>3. /\ tasks[j].listed /\ stopper' = [stopper EXCEPT ![m] = s]
      /\ UNCHANGED <<queue, thread, user, answers>>
  BY DEF StopSendFile
<1>4. /\ \A k \in Jobs : tasks'[k].listed = tasks[k].listed /\ tasks'[k].session = tasks[k].session
      /\ tasks'[j].stop /\ \A k \in Jobs : k # j => tasks'[k] = tasks[k]
  BY <1>1 DEF StopSendFile, Tasks
<1>5. s.at = "waits" /\ s.job = j /\ s.session = tasks[j].session
  OBVIOUS
<1> HIDE DEF m, s
<1>6. stopper'[m] = s /\ \A n \in Stops : n # m => stopper'[n] = stopper[n]
  BY <1>1, <1>2, <1>3
<1>7. OnlyOf(u)
  BY <1>0, <1>3, <1>4, <1>5, <1>6 DEF OnlyOf, StopSendFile
<1>8. WorkIsListed'
  BY <1>3, <1>4, WorkKept DEF RequestInv, Works
<1>9. ASSUME u \notin restopped' PROVE UserInv(u)'
  <2>1. UserInv(u) /\ ~ tasks[j].stop
    <3>1. u \notin restopped /\ u \notin StoppedAgain({j})
      BY <1>9 DEF StopSendFile
    <3>2. tasks[j].stop => u \in StoppedAgain({j})
      BY <1>0 DEF StoppedAgain
    <3> QED BY <3>1, <3>2 DEF RequestInv
  <2>2. j = Job(u) /\ tasks[j].session <= user[u].session /\ Job(u)' = Job(u)
    BY <1>0, <1>3, <2>1 DEF UserInv, ListedIsPresent, Job
  <2>3. ListedIsPresent(u)'
    BY <1>3, <1>4, <2>1, <2>2 DEF UserInv, ListedIsPresent
  <2>4. SessionsPassed(u)'
    <3>1. \A n \in Stops : StopsFor(u, n)' => stopper'[n].session <= user'[u].session
      BY <1>3, <1>5, <1>6, <2>1, <2>2 DEF UserInv, SessionsPassed, StopsFor
    <3>2. AnswerFor(u)' => thread'.session <= user'[u].session
      BY <1>3, <2>1 DEF UserInv, SessionsPassed, AnswerFor
    <3> QED BY <3>1, <3>2 DEF SessionsPassed
  <2>5. ~ TaskOwes(u)'
    BY <1>4, <2>2 DEF TaskOwes
  <2>6. Unanswered(u)' <=> Unanswered(u)
    BY <1>3 DEF Unanswered
  <2>7. ~ ThreadOwes(u)'
    BY <1>3, <2>1, <2>2 DEF UserInv, OneOwes, ThreadOwes, AnswerFor
  <2>8. \A n \in Stops : StopOwes(u, n)' => StopOwes(u, n) \/ (n = m /\ TaskOwes(u))
    BY <1>2, <1>3, <1>5, <1>6, <2>1, <2>2
    DEF StopOwes, StopsFor, TaskOwes, Current, Listed
  <2>9. OneOwes(u)'
    <3>1. \A n \in Stops : StopOwes(u, n)' => Unanswered(u)'
      BY <2>1, <2>6, <2>8 DEF UserInv, OneOwes
    <3>2. \A k, n \in Stops : StopOwes(u, k)' /\ StopOwes(u, n)' => k = n
      BY <2>1, <2>8 DEF UserInv, OneOwes
    <3> QED BY <2>5, <2>7, <3>1, <3>2 DEF OneOwes
  <2> QED BY <1>3, <2>1, <2>3, <2>4, <2>9 DEF UserInv
<1> QED BY <1>7, <1>8, <1>9, OthersKept DEF RequestInv

\* Whether the thread signals it or it gives up waiting, the stop command answers,
\* and nobody else has answered or will.
LEMMA StopEndsRequest ==
    ASSUME TypeInv, RequestInv, NEW n \in Stops, StopDone(n) \/ StopTimeout(n)
    PROVE  RequestInv'
<1>0. PICK u \in Users : u = stopper[n].job[1]
  BY StopEnds
<1>1. /\ user \in [Users -> Requests] /\ tasks \in [Jobs -> Tasks] /\ answers \in [Users -> Nat]
      /\ stopper \in [Stops -> Stoppers] /\ user[u] \in Requests
      /\ stopper[n].job \in Jobs /\ stopper[n].at # "none" /\ Job(u) \in Jobs
  BY StopEnds, PresentJob DEF TypeInv
<1>2. UNCHANGED <<queue, thread, restopped>> /\ Answer(u, stopper[n].session, "failed")
  BY <1>0, StopEnds
<1>3. /\ stopper'[n].at = "none" /\ \A k \in Stops : k # n => stopper'[k] = stopper[k]
  BY <1>1, StopEnds DEF NoStop
<1>4. /\ \A k \in Jobs : /\ tasks'[k].listed = tasks[k].listed
                         /\ tasks'[k].session = tasks[k].session
                         /\ tasks'[k].stop = tasks[k].stop
                         /\ k # stopper[n].job => tasks'[k] = tasks[k]
  BY <1>1, StopEnds, SemTaken
<1>5. \A v \in Users \ {u} : user'[v] = user[v] /\ answers'[v] = answers[v]
  BY <1>1, <1>2 DEF Answer
<1>6. OnlyOf(u)
  BY <1>0, <1>2, <1>3, <1>4, <1>5 DEF OnlyOf
<1>7. WorkIsListed'
  BY <1>2, <1>4, WorkKept DEF RequestInv, Works
<1>8. ASSUME UserInv(u) PROVE UserInv(u)'
  <2>1. user'[u].file = user[u].file /\ user'[u].session = user[u].session /\ Job(u)' = Job(u)
    BY <1>1, <1>2 DEF Answer, Answered, Refused, Requests, Job
  <2>2. ListedIsPresent(u)'
    BY <1>4, <1>8, <2>1 DEF UserInv, ListedIsPresent
  <2>3. SessionsPassed(u)'
    BY <1>2, <1>3, <1>8, <2>1 DEF UserInv, SessionsPassed, StopsFor, AnswerFor
  <2>4. /\ TaskOwes(u)' <=> TaskOwes(u)
        /\ ThreadOwes(u)' <=> ThreadOwes(u)
        /\ ~ StopOwes(u, n)' /\ \A k \in Stops : StopOwes(u, k)' => StopOwes(u, k) /\ k # n
    BY <1>1, <1>2, <1>3, <1>4, <2>1
    DEF TaskOwes, Current, Listed, ThreadOwes, AnswerFor, StopOwes, StopsFor
  <2>5. CASE user[u].session # stopper[n].session
    <3>1. user'[u] = user[u] /\ answers'[u] = answers[u]
      BY <1>2, <2>5 DEF Answer
    <3>2. Unanswered(u)' <=> Unanswered(u)
      BY <3>1 DEF Unanswered
    <3>3. thread'.job = thread.job /\ tasks'[Job(u)'].listed = tasks[Job(u)].listed
      BY <1>1, <1>2, <1>4, <2>1
    <3>4. OneOwes(u)'
      BY <1>8, <2>1, <2>4, <3>2, <3>3 DEF UserInv, OneOwes
    <3> QED BY <1>8, <2>2, <2>3, <3>1, <3>4 DEF UserInv
  <2>6. CASE user[u].session = stopper[n].session
    <3>1. StopOwes(u, n)
      BY <1>0, <1>1, <2>6 DEF StopOwes, StopsFor
    <3>2. answers[u] = 0
      BY <1>8, <3>1 DEF UserInv, OneOwes, Unanswered
    <3>3. answers'[u] = 1
      BY <1>1, <1>2, <2>6, <3>2 DEF Answer
    <3>4. ~ TaskOwes(u)' /\ ~ ThreadOwes(u)' /\ \A k \in Stops : ~ StopOwes(u, k)'
      BY <1>8, <2>4, <3>1 DEF UserInv, OneOwes
    <3> QED BY <2>2, <2>3, <3>3, <3>4 DEF UserInv, OneOwes
  <2> QED BY <2>5, <2>6
<1> QED BY <1>2, <1>6, <1>7, <1>8, OthersKept DEF RequestInv

\* stopTasks answers for the thread, which finds the task marked.
LEMMA StopTasksRequest ==
    ASSUME TypeInv, RequestInv, NEW u \in Users, NEW session \in Sessions, StopTasks(u, session)
    PROVE  RequestInv'
<1> DEFINE marked == TasksOf(u, session)
<1>1. /\ user \in [Users -> Requests] /\ tasks \in [Jobs -> Tasks] /\ answers \in [Users -> Nat]
      /\ user[u] \in Requests /\ Job(u) \in Jobs /\ Job(u)[1] = u
      /\ \A j \in Jobs : tasks[j] \in Tasks
  BY PresentJob DEF TypeInv
<1>2. UNCHANGED <<queue, thread, stopper>> /\ marked # {}
      /\ restopped' = restopped \cup StoppedAgain(marked)
  BY DEF StopTasks
<1>3. \A j \in Jobs : /\ tasks'[j].listed = tasks[j].listed
                      /\ tasks'[j].session = tasks[j].session
                      /\ j \in marked => tasks'[j].stop
                      /\ j \notin marked => tasks'[j] = tasks[j]
  BY <1>1 DEF StopTasks, Tasks
<1>4. \A j \in marked : j \in Jobs /\ j[1] = u /\ tasks[j].listed /\ tasks[j].session = session
  BY DEF TasksOf
<1>5. \/ user[u].session # session /\ user' = user /\ answers' = answers
      \/ /\ user[u].session = session
         /\ answers' = [answers EXCEPT ![u] = answers[u] + Cardinality(marked)]
         /\ user' = [user EXCEPT ![u] = Answered(user[u], "failed")]
  BY DEF StopTasks
<1>6. Job(u) \in marked <=> Listed(Job(u), session)
  BY <1>1 DEF TasksOf, Listed
<1> HIDE DEF marked
<1>7. OnlyOf(u)
  <2>1. \A v \in Users \ {u} : user'[v] = user[v] /\ answers'[v] = answers[v]
    BY <1>1, <1>5
  <2> QED BY <1>2, <1>3, <1>4, <2>1 DEF OnlyOf
<1>8. WorkIsListed'
  BY <1>2, <1>3, WorkKept DEF RequestInv, Works
<1>9. ASSUME u \notin restopped' PROVE UserInv(u)'
  <2>1. UserInv(u) /\ \A j \in marked : ~ tasks[j].stop
    BY <1>2, <1>4, <1>9 DEF RequestInv, StoppedAgain
  <2>2. user'[u].file = user[u].file /\ user'[u].session = user[u].session /\ Job(u)' = Job(u)
    BY <1>1, <1>5 DEF Answered, Refused, Requests, Job
  <2>3. ListedIsPresent(u)'
    BY <1>3, <2>1, <2>2 DEF UserInv, ListedIsPresent
  <2>4. SessionsPassed(u)'
    BY <1>2, <2>1, <2>2 DEF UserInv, SessionsPassed, StopsFor, AnswerFor
  <2>5. /\ ThreadOwes(u)' <=> ThreadOwes(u)
        /\ \A n \in Stops : StopOwes(u, n)' <=> StopOwes(u, n)
    BY <1>2, <2>2 DEF ThreadOwes, AnswerFor, StopOwes, StopsFor
  <2>6. CASE user[u].session # session
    <3>1. Unanswered(u)' <=> Unanswered(u)
      BY <1>5, <2>6 DEF Unanswered
    <3>2. TaskOwes(u)' => TaskOwes(u)
      BY <1>1, <1>3, <1>6, <2>2, <2>6 DEF TaskOwes, Current, Listed
    <3>3. thread'.job = thread.job /\ tasks'[Job(u)'].listed = tasks[Job(u)].listed
      BY <1>1, <1>2, <1>3, <2>2
    <3>4. OneOwes(u)'
      BY <2>1, <2>2, <2>5, <3>1, <3>2, <3>3 DEF UserInv, OneOwes
    <3> QED BY <1>5, <2>1, <2>3, <2>4, <2>6, <3>4 DEF UserInv
  <2>7. CASE user[u].session = session
    <3>1. marked = {Job(u)}
      BY <1>2, <1>4, <2>1 DEF UserInv, ListedIsPresent
    <3>2. TaskOwes(u)
      BY <1>6, <2>1, <2>7, <3>1 DEF TaskOwes, Current
    <3>3. answers[u] = 0 /\ Cardinality(marked) = 1
      BY <2>1, <3>1, <3>2, FS_Singleton DEF UserInv, OneOwes, Unanswered
    <3>4. answers'[u] = 1
      BY <1>1, <1>5, <2>7, <3>3
    <3>5. ~ TaskOwes(u)'
      BY <1>1, <1>3, <2>2, <3>1 DEF TaskOwes
    <3>6. ~ ThreadOwes(u)' /\ \A n \in Stops : ~ StopOwes(u, n)'
      BY <2>1, <2>5, <3>2 DEF UserInv, OneOwes, TaskOwes, Current, Listed
    <3> QED BY <2>3, <2>4, <3>4, <3>5, <3>6 DEF UserInv, OneOwes
  <2> QED BY <2>6, <2>7
<1> QED BY <1>7, <1>8, <1>9, OthersKept DEF RequestInv

\* The head of the queue and the others.
LEMMA QueueTaken ==
    ASSUME TypeInv, queue # <<>>, queue' = Tail(queue)
    PROVE  /\ Len(queue) \in Nat \ {0} /\ Head(queue) = queue[1]
           /\ Len(queue') = Len(queue) - 1
           /\ \A i \in 1 .. Len(queue') : i + 1 \in 1 .. Len(queue) /\ queue'[i] = queue[i + 1]
<1>1. queue \in Seq(Items)
  BY DEF TypeInv
<1>2. /\ Len(queue) \in Nat \ {0} /\ Len(queue') = Len(queue) - 1
      /\ \A i \in 1 .. Len(queue') : queue'[i] = queue[i + 1]
  BY <1>1, HeadTailProperties, EmptySeq
<1>3. Head(queue) = queue[1]
  BY <1>1
<1> QED BY <1>2, <1>3

\* What concerns no user's answer changes nothing for any.
LEMMA AllKept ==
    ASSUME TypeInv, RequestInv, UNCHANGED <<tasks, user, answers, stopper, restopped>>,
           thread' = thread \/ thread'.at # "answer"
    PROVE  \A v \in Users \ restopped' : UserInv(v)'
<1> SUFFICES ASSUME NEW v \in Users \ restopped PROVE UserInv(v)'
  OBVIOUS
<1>1. Kept(v)
  BY DEF Kept, StopsFor, AnswerFor
<1> QED BY <1>1, UserKept DEF RequestInv

\* The thread takes the first task.
LEMMA TakeRequest == ASSUME TypeInv, RequestInv, Take PROVE RequestInv'
<1>1. /\ Len(queue) \in Nat \ {0} /\ Head(queue) = queue[1]
      /\ Len(queue') = Len(queue) - 1
      /\ \A i \in 1 .. Len(queue') : i + 1 \in 1 .. Len(queue) /\ queue'[i] = queue[i + 1]
  BY QueueTaken DEF Take
<1>2. /\ thread'.job = queue[1].job /\ thread'.session = queue[1].session
      /\ thread'.at \in {"send", "save"}
      /\ UNCHANGED <<tasks, user, answers, stopper, restopped>>
  BY <1>1 DEF Take, historyVars
<1>3. 1 \in 1 .. Len(queue) /\ \A i \in 1 .. Len(queue) : queue[i].job \in Jobs
  BY <1>1, QueueItems
<1>4. \A v \in Users \ restopped' : UserInv(v)'
  BY <1>2, AllKept
<1>5. \A j \in Jobs : Works(j)' <=> j = queue[1].job
  BY <1>2 DEF Works
<1>6. ASSUME NEW i \in 1 .. Len(queue')
      PROVE  Listed(queue[i].job, queue[i].session)' /\ ~ Works(queue[i].job)'
  <2>1. Listed(queue[i + 1].job, queue[i + 1].session)
    BY <1>1 DEF RequestInv, WorkIsListed
  <2>2. queue[i + 1].job # queue[1].job
    <3>1. i + 1 \in 1 .. Len(queue) /\ i + 1 # 1
      BY <1>1
    <3> QED BY <1>3, <3>1 DEF RequestInv, WorkIsListed
  <2>3. queue[i + 1].job \in Jobs /\ queue'[i] = queue[i + 1]
    BY <1>1, <1>3
  <2> QED BY <1>2, <1>5, <2>1, <2>2, <2>3 DEF Listed
<1>7. ASSUME NEW i \in 1 .. Len(queue'), NEW j \in 1 .. Len(queue'), queue'[i].job = queue'[j].job
      PROVE  i = j
  <2>1. i + 1 = j + 1
    BY <1>1, <1>7 DEF RequestInv, WorkIsListed
  <2> QED BY <2>1
<1>8. \A j \in Jobs : Works(j)' => Listed(j, thread.session)'
  BY <1>2, <1>3, <1>5 DEF RequestInv, WorkIsListed, Listed
<1> QED BY <1>4, <1>6, <1>7, <1>8 DEF RequestInv, WorkIsListed

\* What the thread does with its task in hand is no matter for the task list.
LEMMA InHandRequest ==
    ASSUME TypeInv, RequestInv, Deliver \/ NotDelivered \/ SaveStatus
    PROVE  RequestInv'
<1>1. /\ UNCHANGED <<tasks, user, answers, stopper, restopped, queue>>
      /\ thread.at \in {"send", "save"}
  BY DEF Deliver, NotDelivered, SaveStatus, historyVars
<1>2. thread'.job = thread.job /\ thread'.session = thread.session /\ thread'.at \in {"save", "done"}
  BY DEF TypeInv, Hands, AnyHands, Deliver, NotDelivered, SaveStatus
<1>3. \A v \in Users \ restopped' : UserInv(v)'
  BY <1>1, <1>2, AllKept
<1>4. WorkIsListed'
  BY <1>1, <1>2, WorkKept DEF RequestInv, Works
<1> QED BY <1>3, <1>4 DEF RequestInv

\* The task leaves the list, and with it the duty to answer: to the stop command
\* that waits, to one that has answered already, or to the thread.
LEMMA SendFileDoneRequest ==
    ASSUME TypeInv, SemaphoreLives, RequestInv, SendFileDone
    PROVE  RequestInv'
<1> DEFINE j == thread.job
<1>0. PICK u \in Users : u = j[1]
  BY SendFileDoneCases, JobParts
<1>1. /\ user \in [Users -> Requests] /\ tasks \in [Jobs -> Tasks] /\ stopper \in [Stops -> Stoppers]
      /\ thread \in Hands /\ user[u] \in Requests /\ j \in Jobs /\ tasks[j] \in Tasks
      /\ Job(u) \in Jobs /\ Job(u)[1] = u
  BY SendFileDoneCases, PresentJob DEF TypeInv
<1>2. UNCHANGED <<queue, user, answers, restopped>>
  BY SendFileDoneCases DEF historyVars
<1>3. Works(j) /\ Listed(j, thread.session)
  BY <1>1, SendFileDoneCases DEF RequestInv, WorkIsListed, Works
<1>4. ~ tasks'[j].listed /\ \A k \in Jobs : k # j => tasks'[k] = tasks[k]
  BY <1>1, SendFileDoneCases DEF NoTask
<1>5. \A n \in Stops :
         \/ stopper'[n] = stopper[n]
         \/ /\ stopper[n].at # "none" /\ stopper'[n].at # "none" /\ stopper'[n].job = stopper[n].job
            /\ stopper'[n].session = stopper[n].session /\ stopper[n].job = j
  <2> SUFFICES ASSUME NEW n \in Stops, stopper'[n] # stopper[n]
               PROVE  /\ stopper[n].at # "none" /\ stopper'[n].at # "none"
                      /\ stopper'[n].job = stopper[n].job
                      /\ stopper'[n].session = stopper[n].session /\ stopper[n].job = j
    OBVIOUS
  <2>1. n = tasks[j].sem /\ stopper' = [stopper EXCEPT ![n] = [stopper[n] EXCEPT !.at = "signalled"]]
    BY <1>1, SendFileDoneCases
  <2>2. stopper[n].at = "waits" /\ stopper[n].job = j
    BY <1>1, <2>1 DEF SemaphoreLives, Stops, NoSem
  <2>3. stopper'[n] = [stopper[n] EXCEPT !.at = "signalled"] /\ stopper[n] \in AnyStops
    BY <1>1, <2>1 DEF Stoppers
  <2> QED BY <2>2, <2>3 DEF AnyStops
<1>6. \/ tasks[j].stop /\ thread'.at = "idle"
      \/ /\ ~ tasks[j].stop /\ thread'.at = "answer" /\ thread'.job = j
         /\ thread'.session = thread.session
  BY <1>1, SendFileDoneCases DEF Hands, AnyHands, Idle
<1> HIDE DEF j
<1>7. OnlyOf(u)
  BY <1>0, <1>2, <1>4, <1>5, <1>6 DEF OnlyOf
<1>8. WorkIsListed'
  <2>1. \A k \in Jobs : ~ Works(k)'
    BY <1>6 DEF Works
  <2>2. \A i \in 1 .. Len(queue) : /\ queue[i].job \in Jobs /\ queue[i].job # j
                                   /\ Listed(queue[i].job, queue[i].session)
    BY <1>3, QueueItems DEF RequestInv, WorkIsListed
  <2>3. \A i \in 1 .. Len(queue') : Listed(queue[i].job, queue[i].session)' /\ ~ Works(queue[i].job)'
    BY <1>2, <1>4, <2>1, <2>2 DEF Listed
  <2>4. \A i, k \in 1 .. Len(queue') : queue'[i].job = queue'[k].job => i = k
    BY <1>2 DEF RequestInv, WorkIsListed
  <2> QED BY <2>1, <2>3, <2>4 DEF WorkIsListed
<1>9. ASSUME UserInv(u) PROVE UserInv(u)'
  <2>1. j = Job(u) /\ tasks[j].session <= user[u].session /\ Job(u)' = Job(u)
    BY <1>0, <1>1, <1>2, <1>3, <1>9 DEF UserInv, ListedIsPresent, Listed, Job
  <2>2. ListedIsPresent(u)'
    BY <1>2, <1>4, <1>9, <2>1 DEF UserInv, ListedIsPresent
  <2>3. SessionsPassed(u)'
    <3>1. \A n \in Stops : StopsFor(u, n)' => stopper'[n].session <= user'[u].session
      BY <1>2, <1>5, <1>9 DEF UserInv, SessionsPassed, StopsFor
    <3>2. AnswerFor(u)' => thread'.session <= user'[u].session
      BY <1>2, <1>3, <1>6, <2>1 DEF AnswerFor, Listed
    <3> QED BY <3>1, <3>2 DEF SessionsPassed
  <2>4. ~ TaskOwes(u)'
    BY <1>4, <2>1 DEF TaskOwes, Current, Listed
  <2>5. ThreadOwes(u)' => TaskOwes(u) /\ thread'.job = j
    BY <1>2, <1>3, <1>6, <2>1 DEF ThreadOwes, AnswerFor, TaskOwes, Current, Listed
  <2>6. \A n \in Stops : StopOwes(u, n)' => StopOwes(u, n)
    BY <1>2, <1>5 DEF StopOwes, StopsFor
  <2>7. Unanswered(u)' <=> Unanswered(u)
    BY <1>2 DEF Unanswered
  <2>8. OneOwes(u)'
    <3>1. ThreadOwes(u)' => Unanswered(u)' /\ thread'.job = Job(u)' /\ ~ tasks'[Job(u)'].listed
      BY <1>4, <1>9, <2>1, <2>5, <2>7 DEF UserInv, OneOwes
    <3>2. \A n \in Stops : StopOwes(u, n)' => Unanswered(u)' /\ ~ ThreadOwes(u)'
      BY <1>9, <2>5, <2>6, <2>7 DEF UserInv, OneOwes
    <3>3. \A m, n \in Stops : StopOwes(u, m)' /\ StopOwes(u, n)' => m = n
      BY <1>9, <2>6 DEF UserInv, OneOwes
    <3> QED BY <2>4, <3>1, <3>2, <3>3 DEF OneOwes
  <2> QED BY <1>2, <1>9, <2>2, <2>3, <2>8 DEF UserInv
<1> QED BY <1>2, <1>7, <1>8, <1>9, OthersKept DEF RequestInv

\* The thread answers what nobody has answered.
LEMMA SendFileReplyRequest == ASSUME TypeInv, RequestInv, SendFileReply PROVE RequestInv'
<1>0. PICK u \in Users : u = thread.job[1]
  BY JobParts DEF TypeInv, SendFileReply, Hands
<1>1. /\ user \in [Users -> Requests] /\ answers \in [Users -> Nat] /\ user[u] \in Requests
      /\ thread.at = "answer" /\ thread'.at = "idle"
      /\ UNCHANGED <<tasks, queue, stopper, restopped>>
      /\ Answer(u, thread.session, thread.rcode)
  BY <1>0 DEF TypeInv, SendFileReply, Idle
<1>2. WorkIsListed'
  BY <1>1, WorkKept DEF RequestInv, Works
<1>3. \A v \in Users \ {u} : user'[v] = user[v] /\ answers'[v] = answers[v]
  BY <1>1 DEF Answer
<1>4. OnlyOf(u)
  BY <1>1, <1>3 DEF OnlyOf
<1>5. ASSUME UserInv(u) PROVE UserInv(u)'
  <2>1. CASE user[u].session # thread.session
    <3>1. Kept(u)
      BY <1>1, <2>1 DEF Answer, Kept, StopsFor, AnswerFor
    <3> QED BY <1>5, <3>1, UserKept
  <2>2. CASE user[u].session = thread.session
    <3>1. ThreadOwes(u)
      BY <1>0, <1>1, <2>2 DEF ThreadOwes, AnswerFor
    <3>2. /\ ~ tasks[Job(u)].listed /\ answers[u] = 0
          /\ ~ TaskOwes(u) /\ \A n \in Stops : ~ StopOwes(u, n)
      BY <1>5, <3>1 DEF UserInv, OneOwes, Unanswered, TaskOwes, Current, Listed
    <3>3. answers'[u] = 1 /\ user'[u] = Answered(user[u], thread.rcode)
      BY <1>1, <2>2, <3>2 DEF Answer
    <3>4. user'[u] \in Requests /\ user'[u].session = user[u].session
      BY <1>1, <3>3, AnsweredType
    <3>5. \A j \in Jobs : j[1] = u => ~ tasks'[j].listed
      BY <1>1, <1>5, <3>2 DEF UserInv, ListedIsPresent
    <3>6. Job(u)' \in Jobs /\ Job(u)'[1] = u
      BY <3>4 DEF Job, Jobs, Requests
    <3>7. ListedIsPresent(u)' /\ ~ TaskOwes(u)'
      BY <3>5, <3>6 DEF ListedIsPresent, TaskOwes, Current, Listed
    <3>8. ~ ThreadOwes(u)' /\ \A n \in Stops : ~ StopOwes(u, n)'
      BY <1>1, <3>2, <3>4 DEF ThreadOwes, AnswerFor, StopOwes, StopsFor
    <3>9. SessionsPassed(u)'
      BY <1>1, <1>5, <3>4 DEF UserInv, SessionsPassed, StopsFor, AnswerFor
    <3> QED BY <3>3, <3>7, <3>8, <3>9 DEF UserInv, OneOwes
  <2> QED BY <2>1, <2>2
<1> QED BY <1>1, <1>2, <1>4, <1>5, OthersKept DEF RequestInv

\* A user that restarts is owed nothing by its new session.
LEMMA UserRestartRequest ==
    ASSUME TypeInv, RequestInv, NEW u \in Users, UserRestart(u)
    PROVE  RequestInv'
<1>1. /\ user \in [Users -> Requests] /\ user[u] \in Requests /\ tasks \in [Jobs -> Tasks]
      /\ thread \in Hands /\ stopper \in [Stops -> Stoppers] /\ Job(u) \in Jobs /\ Job(u)[1] = u
      /\ UNCHANGED <<thread, tasks, queue, stopper, answers, restopped>>
  BY PresentJob DEF TypeInv, UserRestart, serverVars, historyVars
<1>2. /\ user'[u].session = user[u].session + 1 /\ user'[u].file = user[u].file
      /\ \A v \in Users \ {u} : user'[v] = user[v]
  BY <1>1 DEF UserRestart, Requests
<1>3. /\ user[u].session \in Nat /\ thread.session \in Nat
      /\ \A j \in Jobs : tasks[j].session \in Nat
      /\ \A n \in Stops : stopper[n].session \in Nat
  BY <1>1 DEF Requests, Tasks, Hands, AnyHands, Stoppers, AnyStops, Sessions
<1>4. OnlyOf(u)
  BY <1>1, <1>2 DEF OnlyOf
<1>5. WorkIsListed'
  BY <1>1, WorkKept DEF RequestInv, Works
<1>6. ASSUME UserInv(u) PROVE UserInv(u)'
  <2>1. Job(u)' = Job(u)
    BY <1>2 DEF Job
  <2>2. ListedIsPresent(u)'
    BY <1>1, <1>2, <1>3, <1>6, <2>1 DEF UserInv, ListedIsPresent
  <2>3. SessionsPassed(u)'
    BY <1>1, <1>2, <1>3, <1>6 DEF UserInv, SessionsPassed, StopsFor, AnswerFor
  <2>4. ~ TaskOwes(u)'
    <3>1. tasks[Job(u)].listed => tasks[Job(u)].session # user[u].session + 1
      BY <1>1, <1>3, <1>6 DEF UserInv, ListedIsPresent
    <3> QED BY <1>1, <1>2, <2>1, <3>1 DEF TaskOwes, Current, Listed
  <2>5. ~ ThreadOwes(u)'
    BY <1>1, <1>2, <1>3, <1>6 DEF UserInv, SessionsPassed, ThreadOwes, AnswerFor
  <2>6. \A n \in Stops : ~ StopOwes(u, n)'
    BY <1>1, <1>2, <1>3, <1>6 DEF UserInv, SessionsPassed, StopOwes, StopsFor
  <2> QED BY <1>1, <1>6, <2>2, <2>3, <2>4, <2>5, <2>6 DEF UserInv, OneOwes
<1> QED BY <1>1, <1>4, <1>5, <1>6, OthersKept DEF RequestInv

\* A file that was held back is ready again; what answer it had is no matter.
LEMMA ResendRequest ==
    ASSUME TypeInv, RequestInv, NEW u \in Users, Resend(u)
    PROVE  RequestInv'
<1>1. /\ user \in [Users -> Requests] /\ user[u] \in Requests /\ user[u].at = "failed"
      /\ UNCHANGED <<thread, tasks, queue, stopper, answers, restopped>>
  BY DEF TypeInv, Resend, serverVars, historyVars
<1>2. /\ user'[u].session = user[u].session /\ user'[u].file = user[u].file
      /\ \A v \in Users \ {u} : user'[v] = user[v]
  BY <1>1 DEF Resend, Requests
<1>3. OnlyOf(u)
  BY <1>1, <1>2 DEF OnlyOf
<1>4. WorkIsListed'
  BY <1>1, WorkKept DEF RequestInv, Works
<1>5. ASSUME UserInv(u) PROVE UserInv(u)'
  <2>1. Job(u)' = Job(u) /\ ~ Unanswered(u)
    BY <1>1, <1>2 DEF Job, Unanswered
  <2>2. ~ TaskOwes(u) /\ ~ ThreadOwes(u) /\ \A n \in Stops : ~ StopOwes(u, n)
    BY <1>5, <2>1, NobodyOwes
  <2>3. ~ TaskOwes(u)' /\ ~ ThreadOwes(u)' /\ \A n \in Stops : ~ StopOwes(u, n)'
    BY <1>1, <1>2, <2>1, <2>2
    DEF TaskOwes, Current, Listed, ThreadOwes, AnswerFor, StopOwes, StopsFor
  <2>4. ListedIsPresent(u)' /\ SessionsPassed(u)'
    BY <1>1, <1>2, <1>5, <2>1
    DEF UserInv, ListedIsPresent, SessionsPassed, AnswerFor, StopsFor
  <2> QED BY <1>1, <1>5, <2>3, <2>4 DEF UserInv, OneOwes
<1> QED BY <1>1, <1>3, <1>4, <1>5, OthersKept DEF RequestInv

\* A crash leaves no task, no work, no stop command and nobody waiting.
LEMMA CrashRequest == ASSUME TypeInv, RequestInv, Crash PROVE RequestInv'
<1>1. /\ thread'.at = "idle" /\ queue' = <<>> /\ UNCHANGED <<answers, restopped>>
      /\ \A j \in Jobs : ~ tasks'[j].listed
      /\ \A n \in Stops : stopper'[n].at = "none"
  BY DEF Crash, NoTask, NoStop, Idle
<1>2. WorkIsListed'
  BY <1>1 DEF WorkIsListed, Works
<1>3. ASSUME NEW u \in Users \ restopped PROVE UserInv(u)'
  <2>1. user'[u] \in Requests /\ user[u] \in Requests
    BY CrashType DEF TypeInv
  <2>2. Job(u)' \in Jobs
    BY <2>1 DEF Job, Jobs, Requests
  <2>3. ListedIsPresent(u)' /\ SessionsPassed(u)' /\ OneOwes(u)'
    BY <1>1, <2>2
    DEF ListedIsPresent, SessionsPassed, OneOwes, TaskOwes, Current, Listed, ThreadOwes,
        AnswerFor, StopOwes, StopsFor
  <2>4. answers[u] <= 1
    BY DEF RequestInv, UserInv
  <2> QED BY <1>1, <2>3, <2>4 DEF UserInv
<1> QED BY <1>1, <1>2, <1>3 DEF RequestInv

LEMMA RequestStep == TypeInv /\ SemaphoreLives /\ RequestInv /\ [Next]_vars => RequestInv'
<1> SUFFICES ASSUME TypeInv, SemaphoreLives, RequestInv, [Next]_vars PROVE RequestInv'
  OBVIOUS
<1>1. CASE Thread
  BY <1>1, TakeRequest, InHandRequest, SendFileDoneRequest, SendFileReplyRequest DEF Thread
<1>2. CASE Crash
  BY <1>2, CrashRequest
<1>3. ASSUME NEW u \in Users, SendFile(u) \/ UserRestart(u) \/ Resend(u)
      PROVE  RequestInv'
  BY <1>3, SendFileRequest, UserRestartRequest, ResendRequest
<1>4. ASSUME NEW u \in Users, NEW session \in Sessions, StopTasks(u, session)
      PROVE  RequestInv'
  BY <1>4, StopTasksRequest
<1>5. ASSUME NEW j \in Jobs, StopSendFile(j)
      PROVE  RequestInv'
  BY <1>5, StopSendFileRequest
<1>6. ASSUME NEW n \in Stops, StopDone(n) \/ StopTimeout(n)
      PROVE  RequestInv'
  BY <1>6, StopEndsRequest
<1>7. CASE UNCHANGED vars
  <2>1. UNCHANGED <<tasks, queue, thread, stopper, user, answers, restopped>>
    BY <1>7 DEF vars, serverVars, historyVars
  <2>2. WorkIsListed'
    BY <2>1, WorkKept DEF RequestInv, Works
  <2> QED BY <2>1, <2>2, AllKept DEF RequestInv
<1> QED BY <1>1, <1>2, <1>3, <1>4, <1>5, <1>6, <1>7 DEF Next, Sessions

LEMMA RequestInit == Init => RequestInv
<1> SUFFICES ASSUME Init PROVE RequestInv
  OBVIOUS
<1>1. WorkIsListed
  BY DEF Init, WorkIsListed, Works, Idle
<1>2. ASSUME NEW u \in Users PROVE UserInv(u)
  <2>1. /\ \A j \in Jobs : ~ tasks[j].listed
        /\ \A n \in Stops : stopper[n].at = "none"
        /\ answers[u] = 0 /\ thread.at = "idle"
    BY DEF Init, NoTask, NoStop, Idle
  <2>2. Job(u) \in Jobs
    BY TypeInit, PresentJob DEF TypeInv
  <2> QED BY <2>1, <2>2
      DEF UserInv, ListedIsPresent, SessionsPassed, OneOwes, TaskOwes, Current, Listed,
          ThreadOwes, AnswerFor, StopOwes, StopsFor
<1> QED BY <1>1, <1>2 DEF RequestInv

\* A request gets one answer at most, whoever gives it: the thread, the stop command
\* that waits for the thread or gives up waiting, or stopTasks; whatever restarts of
\* the users and crashes of the server come in between, and whatever tasks are stopped,
\* as long as no task of the user is stopped twice.
THEOREM OneAnswerOnly == Spec => []OneAnswer
<1>1. RequestInv => OneAnswer
  BY DEF RequestInv, UserInv, OneAnswer
<1> QED BY <1>1, TypeInit, SemaphoreInit, TypeStep, RequestInit, RequestStep, PTL DEF Spec

-----------------------------------------------------------------------------
(* What the users were told.                                               *)

\* A user that keeps its place has been told nothing new.
LEMMA ToldNothing ==
    ASSUME NEW u \in Users, ToldTruth(u), delivered \subseteq delivered',
           user'[u].file = user[u].file, user'[u].at = "done" <=> user[u].at = "done"
    PROVE  ToldTruth(u)'
BY DEF ToldTruth

\* A user that goes on has been told that the file it was at is delivered.
LEMMA ToldOfFile ==
    ASSUME TypeInv, NEW u \in Users, ToldTruth(u), delivered' = delivered,
           user'[u] = Served(user[u]), <<u, user[u].file>> \in delivered
    PROVE  ToldTruth(u)'
<1>1. user[u] \in Requests /\ user[u].file \in 1 .. MaxFile /\ MaxFile \in Nat
  BY BoundsAssumption DEF TypeInv, Requests
<1>2. CASE user[u].file < MaxFile
  <2>1. user'[u].file = user[u].file + 1 /\ user'[u].at = "ready"
    BY <1>1, <1>2 DEF Served, Requests
  <2>2. ASSUME NEW f \in 1 .. MaxFile, f < user[u].file + 1
        PROVE  <<u, f>> \in delivered
    <3>1. f < user[u].file \/ f = user[u].file
      BY <1>1, <2>2
    <3> QED BY <3>1 DEF ToldTruth
  <2> QED BY <2>1, <2>2 DEF ToldTruth
<1>3. CASE ~ (user[u].file < MaxFile)
  <2>1. user[u].file = MaxFile /\ user'[u].file = MaxFile
    BY <1>1, <1>3 DEF Served, Requests
  <2>2. ASSUME NEW f \in 1 .. MaxFile
        PROVE  <<u, f>> \in delivered
    <3>1. f < user[u].file \/ f = user[u].file
      BY <1>1, <2>1
    <3> QED BY <3>1 DEF ToldTruth
  <2> QED BY <2>1, <2>2 DEF ToldTruth
<1> QED BY <1>2, <1>3

\* An answer of failure, or one that comes over an old connection, tells a user nothing.
LEMMA ToldNothingNew ==
    ASSUME NEW u \in Users, user[u] \in Requests, ToldTruth(u), delivered \subseteq delivered',
           user'[u] = user[u] \/ user'[u] = Answered(user[u], "failed")
    PROVE  ToldTruth(u)'
<1>1. user'[u].file = user[u].file /\ (user'[u].at = "done" <=> user[u].at = "done")
  BY DEF Answered, Refused, Requests
<1> QED BY <1>1, ToldNothing

\* The users are told of no file by the actions that leave them where they are.
LEMMA PlaceKept ==
    ASSUME TypeInv, ServedInv, delivered \subseteq delivered', restopped \subseteq restopped',
           \A v \in Users : user'[v] = user[v] \/ user'[v] = Answered(user[v], "failed")
    PROVE  \A v \in Users \ restopped' : ToldTruth(v)'
<1> SUFFICES ASSUME NEW v \in Users \ restopped' PROVE ToldTruth(v)'
  OBVIOUS
<1>1. ToldTruth(v) /\ user[v] \in Requests
  BY DEF ServedInv, TypeInv
<1> QED BY <1>1, ToldNothingNew

LEMMA SentKept ==
    ASSUME ServedInv, UNCHANGED <<sentList, sentFile, delivered>>,
           thread' = thread \/ thread'.rcode # "OK"
    PROVE  SentAreDelivered'
BY DEF ServedInv, SentAreDelivered

LEMMA SendFileServed ==
    ASSUME TypeInv, ServedInv, NEW u \in Users, SendFile(u)
    PROVE  ServedInv'
<1>1. /\ user \in [Users -> Requests] /\ user[u] \in Requests /\ user[u].at = "ready"
      /\ UNCHANGED <<delivered, thread, sentList, sentFile, restopped>>
  BY DEF TypeInv, SendFile
<1>2. SentAreDelivered'
  BY <1>1, SentKept
<1>3. ASSUME NEW v \in Users \ restopped PROVE ToldTruth(v)'
  <2>1. ToldTruth(v)
    BY DEF ServedInv
  <2>2. CASE v # u
    <3>1. user'[v] = user[v]
      BY <1>1, <2>2, SendFileCases
    <3> QED BY <1>1, <2>1, <3>1, ToldNothing
  <2>3. CASE v = u /\ ~ Exists(u) /\ AlreadySent(u)
    <3>1. user'[u] = Served(user[u])
      BY <1>1, <2>3, SendFileCases
    <3>2. <<u, user[u].file>> \in delivered
      BY <2>3 DEF AlreadySent, OnRecord, ServedInv, SentAreDelivered, ToSet
    <3> QED BY <1>1, <2>1, <2>3, <3>1, <3>2, ToldOfFile
  <2>4. CASE v = u /\ (Exists(u) \/ ~ AlreadySent(u))
    <3>1. PICK r \in {Refused(user[u]), [user[u] EXCEPT !.at = "waits"]} :
             user' = [user EXCEPT ![u] = r]
      BY <2>4, SendFileCases
    <3>2. user'[u].file = user[u].file /\ user'[u].at # "done"
      BY <1>1, <3>1 DEF Refused, Requests
    <3> QED BY <1>1, <2>1, <2>4, <3>2, ToldNothing
  <2> QED BY <2>2, <2>3, <2>4
<1> QED BY <1>1, <1>2, <1>3 DEF ServedInv

\* Stop commands, restarts, crashes and repeated requests leave the users where they are.
LEMMA UserStepServed ==
    ASSUME TypeInv, ServedInv, NEW u \in Users, UserRestart(u) \/ Resend(u)
    PROVE  ServedInv'
<1>1. /\ user \in [Users -> Requests] /\ user[u] \in Requests /\ user[u].at # "done"
      /\ UNCHANGED <<delivered, thread, sentList, sentFile, restopped>>
  BY DEF TypeInv, UserRestart, Resend, serverVars, historyVars
<1>2. user'[u].file = user[u].file /\ user'[u].at # "done"
  <2>1. CASE UserRestart(u)
    <3>1. user' = [user EXCEPT ![u] = [user[u] EXCEPT !.session = @ + 1, !.retry = TRUE,
                                                      !.at = "ready"]]
      BY <2>1 DEF UserRestart
    <3> QED BY <1>1, <3>1 DEF Requests
  <2>2. CASE Resend(u)
    <3>1. user' = [user EXCEPT ![u].at = "ready", ![u].retry = FALSE]
      BY <2>2 DEF Resend
    <3> QED BY <1>1, <3>1 DEF Requests
  <2> QED BY <2>1, <2>2
<1>3. \A v \in Users \ {u} : user'[v] = user[v]
  BY <1>1 DEF UserRestart, Resend
<1>4. \A v \in Users \ restopped : ToldTruth(v)'
  BY <1>1, <1>2, <1>3, ToldNothing DEF ServedInv
<1> QED BY <1>1, <1>4, SentKept DEF ServedInv

LEMMA StopServed ==
    ASSUME TypeInv, ServedInv,
           \/ \E j \in Jobs : StopSendFile(j)
           \/ \E n \in Stops : StopDone(n) \/ StopTimeout(n)
           \/ \E u \in Users : \E session \in Sessions : StopTasks(u, session)
    PROVE  ServedInv'
<1>1. UNCHANGED <<delivered, thread, sentList, sentFile>> /\ restopped \subseteq restopped'
  BY DEF StopSendFile, StopDone, StopTimeout, StopTasks
<1>2. \A v \in Users : user'[v] = user[v] \/ user'[v] = Answered(user[v], "failed")
  <2>1. user \in [Users -> Requests]
    BY DEF TypeInv
  <2>2. user' = user \/ \E u \in Users : user' = [user EXCEPT ![u] = Answered(user[u], "failed")]
    <3>1. ASSUME NEW n \in Stops, StopDone(n) \/ StopTimeout(n)
          PROVE  user' = user
                 \/ \E u \in Users : user' = [user EXCEPT ![u] = Answered(user[u], "failed")]
      BY <3>1, StopEnds DEF Answer
    <3>2. ASSUME NEW u \in Users, NEW session \in Sessions, StopTasks(u, session)
          PROVE  user' = user \/ user' = [user EXCEPT ![u] = Answered(user[u], "failed")]
      BY <3>2 DEF StopTasks
    <3>3. ASSUME NEW j \in Jobs, StopSendFile(j) PROVE user' = user
      BY <3>3 DEF StopSendFile
    <3> QED BY <3>1, <3>2, <3>3
  <2> QED BY <2>1, <2>2
<1> QED BY <1>1, <1>2, PlaceKept, SentKept DEF ServedInv

LEMMA CrashServed == ASSUME TypeInv, ServedInv, Crash PROVE ServedInv'
<1>1. /\ sentList' = sentFile /\ sentFile' = sentFile /\ UNCHANGED <<delivered, restopped>>
      /\ thread'.rcode # "OK" /\ \A v \in Users : user'[v] = Answered(user[v], "failed")
  BY DEF Crash, Recovered, Idle
<1>2. SentAreDelivered'
  BY <1>1 DEF ServedInv, SentAreDelivered
<1> QED BY <1>1, <1>2, PlaceKept DEF ServedInv

\* The thread tells a user of the file it has in hand, which is the one the user is at.
LEMMA SendFileReplyServed ==
    ASSUME TypeInv, RequestInv, ServedInv, SendFileReply
    PROVE  ServedInv'
<1>0. PICK u \in Users : u = thread.job[1]
  BY JobParts DEF TypeInv, SendFileReply, Hands
<1>1. /\ UNCHANGED <<sentList, sentFile, delivered, restopped>> /\ thread'.rcode # "OK"
      /\ thread.at = "answer" /\ Answer(u, thread.session, thread.rcode)
      /\ user \in [Users -> Requests] /\ user[u] \in Requests
  BY <1>0 DEF TypeInv, SendFileReply, Idle
<1>2. ASSUME NEW v \in Users \ restopped PROVE ToldTruth(v)'
  <2>1. ToldTruth(v)
    BY DEF ServedInv
  <2>2. CASE v # u \/ user[u].session # thread.session
    <3>1. user'[v] = user[v]
      BY <1>1, <2>2 DEF Answer
    <3> QED BY <1>1, <2>1, <3>1, ToldNothing
  <2>3. CASE v = u /\ user[u].session = thread.session
    <3>1. user'[u] = Answered(user[u], thread.rcode)
      BY <1>1, <2>3 DEF Answer
    <3>2. ThreadOwes(u)
      BY <1>0, <1>1, <2>3 DEF ThreadOwes, AnswerFor
    <3>3. user[u].at = "waits" /\ thread.job = Job(u)
      BY <2>3, <3>2 DEF RequestInv, UserInv, OneOwes, Unanswered
    <3>4. CASE thread.rcode = "OK"
      <4>1. user'[u] = Served(user[u])
        BY <3>1, <3>3, <3>4 DEF Answered
      <4>2. <<u, user[u].file>> \in delivered
        BY <3>3, <3>4 DEF ServedInv, SentAreDelivered, Job
      <4> QED BY <1>1, <2>1, <2>3, <4>1, <4>2, ToldOfFile
    <3>5. CASE thread.rcode # "OK"
      <4>1. user'[u] = Answered(user[u], "failed")
        BY <3>1, <3>5 DEF Answered
      <4> QED BY <1>1, <2>1, <2>3, <4>1, ToldNothingNew
    <3> QED BY <3>4, <3>5
  <2> QED BY <2>2, <2>3
<1> QED BY <1>1, <1>2, SentKept DEF ServedInv

LEMMA ThreadServed ==
    ASSUME TypeInv, RequestInv, ServedInv, Thread
    PROVE  ServedInv'
<1>1. thread \in Hands
  BY DEF TypeInv
<1>2. CASE Take \/ NotDelivered
  <2>1. UNCHANGED <<sentList, sentFile, user, delivered, restopped>>
    BY <1>2 DEF Take, NotDelivered, historyVars
  <2>2. CASE Take
    <3>1. thread'.rcode \in {"failed", "none"}
      BY <2>2 DEF Take
    <3> QED BY <2>1, <3>1, PlaceKept, SentKept DEF ServedInv
  <2>3. CASE NotDelivered
    <3>1. thread' = [thread EXCEPT !.at = "save", !.rcode = "failed"]
      BY <2>3 DEF NotDelivered
    <3>2. thread'.rcode = "failed"
      BY <1>1, <3>1 DEF Hands, AnyHands
    <3> QED BY <2>1, <3>2, PlaceKept, SentKept DEF ServedInv
  <2> QED BY <1>2, <2>2, <2>3
<1>3. CASE Deliver
  <2>1. /\ delivered' = delivered \cup {thread.job} /\ thread'.job = thread.job
        /\ UNCHANGED <<sentList, sentFile, user, restopped>>
    BY <1>1, <1>3 DEF Deliver, Hands, AnyHands
  <2>2. SentAreDelivered'
    BY <2>1 DEF ServedInv, SentAreDelivered
  <2> QED BY <2>1, <2>2, PlaceKept DEF ServedInv
<1>4. CASE SaveStatus
  <2>1. /\ UNCHANGED <<user, delivered, restopped>>
        /\ thread'.rcode = thread.rcode /\ thread'.job = thread.job
    BY <1>1, <1>4 DEF SaveStatus, Hands, AnyHands
  <2>2. SentAreDelivered'
    BY <1>4, <2>1, SavedList DEF ServedInv, SentAreDelivered
  <2> QED BY <2>1, <2>2, PlaceKept DEF ServedInv
<1>5. CASE SendFileDone
  <2>1. UNCHANGED <<sentList, sentFile, delivered, user, restopped>>
    BY <1>5, SendFileDoneCases DEF historyVars
  <2>2. thread'.rcode # "OK" \/ (thread'.rcode = thread.rcode /\ thread'.job = thread.job)
    <3>1. thread' = Idle \/ thread' = [thread EXCEPT !.at = "answer"]
      BY <1>5, SendFileDoneCases
    <3> QED BY <1>1, <3>1 DEF Hands, AnyHands, Idle
  <2>3. SentAreDelivered'
    BY <2>1, <2>2 DEF ServedInv, SentAreDelivered
  <2> QED BY <2>1, <2>3, PlaceKept DEF ServedInv
<1> QED BY <1>2, <1>3, <1>4, <1>5, SendFileReplyServed DEF Thread

LEMMA ServedStep == TypeInv /\ RequestInv /\ ServedInv /\ [Next]_vars => ServedInv'
<1> SUFFICES ASSUME TypeInv, RequestInv, ServedInv, [Next]_vars PROVE ServedInv'
  OBVIOUS
<1>1. ASSUME NEW u \in Users, SendFile(u) \/ UserRestart(u) \/ Resend(u)
      PROVE  ServedInv'
  BY <1>1, SendFileServed, UserStepServed
<1>2. CASE UNCHANGED vars
  BY <1>2, PlaceKept, SentKept DEF vars, serverVars, historyVars, ServedInv
<1> QED BY <1>1, <1>2, ThreadServed, CrashServed, StopServed DEF Next, Sessions

LEMMA ServedInit == Init => ServedInv
<1> SUFFICES ASSUME Init PROVE ServedInv
  OBVIOUS
<1>1. SentAreDelivered
  BY DEF Init, SentAreDelivered, ToSet, Idle
<1>2. ASSUME NEW u \in Users PROVE ToldTruth(u)
  <2>1. user[u].at = "ready" /\ user[u].file = 1
    BY DEF Init
  <2> QED BY <2>1, BoundsAssumption DEF ToldTruth
<1> QED BY <1>1, <1>2 DEF ServedInv

\* A user that goes on to its next file was told the truth: what it has behind it was
\* delivered, though the answer came from the list of files sent, though the server
\* crashed and recovered that list from its file, and whoever stopped what, as long as
\* no task of the user is stopped twice.
THEOREM ToldOnlyTruth == Spec => []ServedWereDelivered
<1>1. ServedInv => ServedWereDelivered
  BY DEF ServedInv, ToldTruth, ServedWereDelivered
<1> QED BY <1>1, TypeInit, SemaphoreInit, TypeStep, RequestInit, RequestStep, ServedInit, ServedStep,
        PTL DEF Spec

-----------------------------------------------------------------------------
(* Records.                                                                *)

\* The records, their losses and the requests under way stay.
LEMMA RecordsKept ==
    ASSUME RecordInv, UNCHANGED <<queue, sentList, known, twice, lost>>,
           thread'.at = "send" => thread' = thread
    PROVE  RecordInv'
BY DEF RecordInv, RecordsAreListed, RepeatedAreAnswered, NotDeliveredTwice, Repeats

\* A repeated request for a file on record is answered from the list; it is put into
\* the queue only when the record has been lost.
LEMMA SendFileRecord ==
    ASSUME TypeInv, RecordInv, NEW u \in Users, SendFile(u)
    PROVE  RecordInv'
<1>1. UNCHANGED <<thread, sentList, known, twice, lost>>
  BY DEF SendFile
<1>2. CASE queue' = queue
  BY <1>1, <1>2, RecordsKept
<1>3. CASE queue' # queue
  <2> DEFINE e == NewItem(u)
  <2>1. queue' = Append(queue, e) /\ ~ AlreadySent(u)
    BY <1>3, SendFileCases
  <2>2. e \in Items /\ e.job = Job(u) /\ e.retry = user[u].retry
    BY NewWork DEF NewItem
  <2>3. ~ Repeats(e.retry, e.job)
    BY <2>1, <2>2
    DEF AlreadySent, OnRecord, Repeats, RecordInv, RecordsAreListed, ToSet, Job
  <2> HIDE DEF e
  <2>4. queue \in Seq(Items) /\ Len(queue) \in Nat
    BY QueueItems DEF TypeInv
  <2>5. /\ Len(queue') = Len(queue) + 1
        /\ \A i \in 1 .. Len(queue) : queue'[i] = queue[i]
        /\ queue'[Len(queue) + 1] = e
    BY <2>1, <2>2, <2>4, AppendProperties
  <2>6. ASSUME NEW i \in 1 .. Len(queue')
        PROVE  ~ Repeats(queue[i].retry, queue[i].job)'
    <3>1. CASE i \in 1 .. Len(queue)
      BY <1>1, <2>5, <3>1 DEF RecordInv, RepeatedAreAnswered, Repeats
    <3>2. CASE i = Len(queue) + 1
      BY <1>1, <2>3, <2>5, <3>2 DEF Repeats
    <3> QED BY <2>4, <2>5, <3>1, <3>2
  <2> QED BY <1>1, <2>6
      DEF RecordInv, RecordsAreListed, RepeatedAreAnswered, NotDeliveredTwice, Repeats
<1> QED BY <1>2, <1>3

LEMMA TakeRecord == ASSUME TypeInv, RecordInv, Take PROVE RecordInv'
<1>1. /\ Len(queue) \in Nat \ {0} /\ Head(queue) = queue[1]
      /\ Len(queue') = Len(queue) - 1
      /\ \A i \in 1 .. Len(queue') : i + 1 \in 1 .. Len(queue) /\ queue'[i] = queue[i + 1]
  BY QueueTaken DEF Take
<1>2. thread'.job = queue[1].job /\ thread'.retry = queue[1].retry
      /\ UNCHANGED <<sentList, known, twice, lost>>
  BY <1>1 DEF Take, historyVars
<1>3. \A i \in 1 .. Len(queue') : ~ Repeats(queue[i].retry, queue[i].job)'
  BY <1>1, <1>2 DEF RecordInv, RepeatedAreAnswered, Repeats
<1>4. ~ Repeats(thread.retry, thread.job)'
  <2>1. 1 \in 1 .. Len(queue)
    BY <1>1
  <2> QED BY <1>2, <2>1 DEF RecordInv, RepeatedAreAnswered, Repeats
<1> QED BY <1>2, <1>3, <1>4
    DEF RecordInv, RecordsAreListed, RepeatedAreAnswered, NotDeliveredTwice

LEMMA DeliverRecord == ASSUME TypeInv, RecordInv, Deliver PROVE RecordInv'
<1> DEFINE d == thread.job
<1>1. /\ thread.at = "send" /\ thread'.at = "save"
      /\ UNCHANGED <<queue, sentList, known, lost>>
      /\ twice' = twice \cup (IF thread.retry /\ d \in known THEN {d} ELSE {})
  BY DEF TypeInv, Hands, AnyHands, Deliver
<1>2. thread.retry /\ d \in known => d \in lost
  BY <1>1 DEF RecordInv, RepeatedAreAnswered, Repeats
<1> HIDE DEF d
<1>3. NotDeliveredTwice'
  BY <1>1, <1>2 DEF RecordInv, NotDeliveredTwice
<1> QED BY <1>1, <1>3 DEF RecordInv, RecordsAreListed, RepeatedAreAnswered, Repeats

\* A new record is of the task that is in hand, and so of no other request.
LEMMA SaveStatusRecord ==
    ASSUME TypeInv, RequestInv, RecordInv, SaveStatus
    PROVE  RecordInv'
<1> DEFINE d == thread.job
<1>1. /\ UNCHANGED <<queue, twice, lost>> /\ thread'.at = "done"
      /\ thread.at = "save" /\ d \in Jobs
  BY DEF TypeInv, Hands, AnyHands, SaveStatus
<1>2. \/ thread.rcode = "OK" /\ known' = {k \in known : k[1] # d[1]} \cup {d}
      \/ thread.rcode # "OK" /\ known' = {k \in known : k[1] # d[1]}
      \/ thread.rcode # "OK" /\ known' = known /\ sentList' = sentList
  BY DEF SaveStatus, KnownOfOthers
<1>3. RecordsAreListed'
  <2>1. \A e \in ToSet(sentList) : e[1] # d[1] => e \in ToSet(sentList')
    BY SavedList
  <2>2. thread.rcode = "OK" => d \in ToSet(sentList')
    BY SavedList
  <2> HIDE DEF d
  <2> QED BY <1>1, <1>2, <2>1, <2>2 DEF RecordInv, RecordsAreListed
<1>4. ASSUME NEW i \in 1 .. Len(queue')
      PROVE  ~ Repeats(queue[i].retry, queue[i].job)'
  <2>1. queue'[i] = queue[i] /\ i \in 1 .. Len(queue)
    BY <1>1
  <2>2. queue[i].job # d
    BY <1>1, <2>1 DEF RequestInv, WorkIsListed, Works
  <2>3. queue[i].job \in known' => queue[i].job \in known
    BY <1>2, <2>2
  <2> QED BY <1>1, <2>1, <2>3 DEF RecordInv, RepeatedAreAnswered, Repeats
<1> QED BY <1>1, <1>3, <1>4 DEF RecordInv, RepeatedAreAnswered, NotDeliveredTwice

\* A crash loses the records that the file does not hold.
LEMMA CrashRecord == ASSUME TypeInv, RecordInv, Crash PROVE RecordInv'
<1>1. /\ sentList' = sentFile /\ lost' = lost \cup (known \ ToSet(sentFile))
      /\ queue' = <<>> /\ thread'.at = "idle" /\ UNCHANGED <<known, twice>>
  BY DEF Crash, Recovered, Idle
<1>2. RecordsAreListed' /\ NotDeliveredTwice'
  BY <1>1 DEF RecordInv, RecordsAreListed, NotDeliveredTwice
<1>3. RepeatedAreAnswered'
  BY <1>1 DEF RepeatedAreAnswered
<1> QED BY <1>2, <1>3 DEF RecordInv

LEMMA RecordStep == TypeInv /\ RequestInv /\ RecordInv /\ [Next]_vars => RecordInv'
<1> SUFFICES ASSUME TypeInv, RequestInv, RecordInv, [Next]_vars PROVE RecordInv'
  OBVIOUS
<1>1. CASE \/ \E u \in Users : UserRestart(u) \/ Resend(u)
           \/ \E j \in Jobs : StopSendFile(j)
           \/ \E n \in Stops : StopDone(n) \/ StopTimeout(n)
           \/ \E u \in Users : \E session \in 0 .. MaxRestarts : StopTasks(u, session)
  <2>1. thread' = thread /\ UNCHANGED <<queue, sentList, known, twice, lost>>
    BY <1>1 DEF StopSendFile, StopDone, StopTimeout, StopTasks, UserRestart, Resend,
                serverVars, historyVars
  <2> QED BY <2>1, RecordsKept
<1>2. CASE NotDelivered \/ SendFileDone \/ SendFileReply
  <2>1. UNCHANGED <<queue, sentList, known, twice, lost>>
    BY <1>2 DEF NotDelivered, SendFileDone, SendFileReply, historyVars
  <2>2. thread'.at # "send"
    <3>1. thread \in Hands
      BY DEF TypeInv
    <3>2. \/ thread' = Idle
          \/ thread' = [thread EXCEPT !.at = "answer"]
          \/ thread' = [thread EXCEPT !.at = "save", !.rcode = "failed"]
      BY <1>2 DEF NotDelivered, SendFileDone, SendFileReply
    <3>3. CASE thread' = Idle
      BY <3>3 DEF Idle
    <3>4. CASE thread' = [thread EXCEPT !.at = "answer"]
      BY <3>1, <3>4 DEF Hands, AnyHands
    <3>5. CASE thread' = [thread EXCEPT !.at = "save", !.rcode = "failed"]
      BY <3>1, <3>5 DEF Hands, AnyHands
    <3> QED BY <3>2, <3>3, <3>4, <3>5
  <2> QED BY <2>1, <2>2, RecordsKept
<1>3. CASE UNCHANGED vars
  BY <1>3, RecordsKept DEF vars, serverVars, historyVars
<1> QED BY <1>1, <1>2, <1>3, SendFileRecord, TakeRecord, DeliverRecord, SaveStatusRecord, CrashRecord
    DEF Next, Thread

LEMMA RecordInit == Init => RecordInv
BY DEF Init, RecordInv, RecordsAreListed, RepeatedAreAnswered, NotDeliveredTwice, Idle

\* A file on record is not delivered again when its user asks for it after a restart,
\* unless a crash has lost the record; however often its task was stopped.
THEOREM NoSecondDelivery == Spec => []NotDeliveredTwice
<1>1. RecordInv => NotDeliveredTwice
  BY DEF RecordInv
<1> QED BY <1>1, TypeInit, SemaphoreInit, TypeStep, RequestInit, RequestStep, RecordInit, RecordStep,
        PTL DEF Spec

\* What is on record is in the list as long as CDH does not crash: the list is lost by
\* crashes only.
THEOREM RecordsStayUntilCrash == MaxCrashes = 0 => (Spec => []SentIsRemembered)
<1> SUFFICES ASSUME MaxCrashes = 0 PROVE Spec => []SentIsRemembered
  OBVIOUS
<1> DEFINE NothingLost == lost = {}
<1>1. Init => NothingLost
  BY DEF Init
<1>2. TypeInv /\ NothingLost /\ [Next]_vars => NothingLost'
  <2> SUFFICES ASSUME TypeInv, NothingLost, [Next]_vars PROVE NothingLost'
    OBVIOUS
  <2>1. ~ Crash
    BY DEF TypeInv, Crash
  <2>2. lost' = lost
    BY <2>1 DEF Next, Thread, Take, Deliver, NotDelivered, SaveStatus, SendFileDone,
                SendFileReply, SendFile, StopSendFile, StopDone, StopTimeout, StopTasks,
                UserRestart, Resend, vars, serverVars, historyVars
  <2> QED BY <2>2
<1>3. NothingLost /\ RecordInv => SentIsRemembered
  BY DEF RecordInv, RecordsAreListed, SentIsRemembered
<1> QED BY <1>1, <1>2, <1>3, TypeInit, SemaphoreInit, TypeStep, RequestInit, RequestStep, RecordInit,
        RecordStep, PTL DEF Spec

=============================================================================
