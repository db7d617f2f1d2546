------------------------------ MODULE CdhServR ------------------------------
(***************************************************************************)
(* The file tasks of the CDH server (class ServR): the list of tasks, the  *)
(* queue and the thread of one destination set, stop commands, and the     *)
(* list of the files that have been sent, which a status file carries over *)
(* a restart so that a user that asks again is not served twice.           *)
(*                                                                         *)
(* A user is a transfer queue of AFP (userUnique): it sends one file after *)
(* the other and waits for the answer.  What the thread does with a        *)
(* destination is CdhDestSet; here a file is delivered or not.  taskMX_    *)
(* and taskSentFileStatus_MX_ make each step below atomic.                 *)
(*                                                                         *)
(* A job is a user and a file: the names by which a task is found.  Nobody *)
(* checks whether a task that is to be stopped has been stopped already,   *)
(* and the second stop answers the request once more.  Such users are      *)
(* restopped; what is promised to the others is not promised to them.      *)
(***************************************************************************)
EXTENDS Naturals, Sequences, SequencesExt

CONSTANTS
  Users, NoUser,
  MaxFile,      \* files 1..MaxFile of each user
  MaxRestarts,  \* restarts of users, all together
  MaxCrashes,   \* crashes of CDH
  MaxStops,     \* stop commands, all together
  MaxEvents     \* restarts, crashes and stop commands, all together

ASSUME NoUserAssumption == NoUser \notin Users
ASSUME BoundsAssumption ==
  MaxFile \in Nat \ {0} /\ MaxRestarts \in Nat /\ MaxCrashes \in Nat /\ MaxStops \in Nat
  /\ MaxEvents \in Nat

VARIABLES
  tasks,        \* sendFileTaskList_, by job
  queue,        \* the message queue of the destination set's thread
  thread,       \* where that thread stands, and the job it works on
  sentList,     \* statusList_: jobs in the order of the list
  sentFile,     \* the lines of the status file
  stopper,      \* the stop commands that have not returned yet, by number
  user,         \* each user: its file, and what it waits for
  restarts, crashes, stops,
  delivered,    \* history: files a destination has taken
  known,        \* history: deliveries CDH has put on record, last one of each user
  answers,      \* history: answers to each user's present request
  restopped,    \* history: users a task of which was stopped when it was stopped already
  twice,        \* history: files delivered again although on record
  lost          \* history: records that a crash has lost

serverVars == <<tasks, queue, thread, sentList, sentFile, stopper>>
historyVars == <<delivered, known, answers, restopped, twice, lost>>
vars == <<serverVars, user, restarts, crashes, stops, historyVars>>

EventsLeft == restarts + crashes + stops < MaxEvents

Jobs  == Users \X (1..MaxFile)
Stops == 1..MaxStops
NoSem == 0      \* otherwise the number of the stop command whose semaphore it is

NoJob  == <<NoUser, 0>>
NoTask == [listed |-> FALSE, stop |-> FALSE, sem |-> NoSem, session |-> 0]
NoStop == [at |-> "none", job |-> NoJob, session |-> 0]
Idle   == [at |-> "idle", job |-> NoJob, session |-> 0, retry |-> FALSE, rcode |-> "none"]

TypeOK ==
  /\ tasks \in [Jobs -> [listed : BOOLEAN, stop : BOOLEAN, sem : Stops \cup {NoSem},
                         session : 0..MaxRestarts]]
  /\ queue \in Seq([job : Jobs, session : 0..MaxRestarts, retry : BOOLEAN])
  /\ thread \in [at : {"idle", "send", "save", "done", "answer"},
                 job : Jobs \cup {NoJob}, session : 0..MaxRestarts, retry : BOOLEAN,
                 rcode : {"none", "OK", "failed"}]
  /\ sentList \in Seq(Jobs) /\ sentFile \in Seq(Jobs)
  /\ stopper \in [Stops -> [at : {"none", "waits", "signalled"}, job : Jobs \cup {NoJob},
                            session : 0..MaxRestarts]]
  /\ user \in [Users -> [file : 1..MaxFile, retry : BOOLEAN, session : 0..MaxRestarts,
                         at : {"ready", "waits", "failed", "done"}]]
  /\ restarts \in 0..MaxRestarts /\ crashes \in 0..MaxCrashes /\ stops \in 0..MaxStops
  /\ delivered \cup known \cup twice \cup lost \subseteq Jobs
  /\ answers \in [Users -> Nat] /\ restopped \subseteq Users

Init ==
  /\ tasks = [j \in Jobs |-> NoTask]
  /\ queue = <<>>
  /\ thread = Idle
  /\ sentList = <<>> /\ sentFile = <<>>
  /\ stopper = [n \in Stops |-> NoStop]
  /\ user = [u \in Users |-> [file |-> 1, retry |-> FALSE, session |-> 0, at |-> "ready"]]
  /\ restarts = 0 /\ crashes = 0 /\ stops = 0
  /\ delivered = {} /\ known = {} /\ twice = {} /\ lost = {} /\ restopped = {}
  /\ answers = [u \in Users |-> 0]

-----------------------------------------------------------------------------
(* The users (external): what they do with an answer.                      *)

Job(u) == <<u, user[u].file>>
Exists(u) == tasks[Job(u)].listed

(* After an answer the user goes on to its next file, or holds the file    *)
(* back as failed until someone asks for it again.                         *)
Served(r) == IF r.file < MaxFile
             THEN [r EXCEPT !.file = @ + 1, !.at = "ready", !.retry = FALSE]
             ELSE [r EXCEPT !.at = "done"]
Refused(r) == [r EXCEPT !.at = "failed"]

(* An answer is taken for that to the present request; nobody who does not *)
(* wait takes one.                                                         *)
Answered(r, rcode) == IF r.at # "waits" THEN r ELSE IF rcode = "OK" THEN Served(r) ELSE Refused(r)

(* sendFileReply: an answer reaches the user only over the connection the  *)
(* request came in by (validCmdHandler).                                   *)
Answer(u, session, rcode) ==
  IF user[u].session # session
  THEN UNCHANGED <<user, answers>>
  ELSE /\ answers' = [answers EXCEPT ![u] = @ + 1]
       /\ user' = [user EXCEPT ![u] = Answered(@, rcode)]

-----------------------------------------------------------------------------
(* CmdHandler threads.                                                     *)

OnRecordAny(u, f) == \E i \in DOMAIN sentList : sentList[i][1] = u   \* mutant
OnRecord(u, f) == \E i \in DOMAIN sentList : sentList[i] = <<u, f>>

(* sendFile: refused if the task exists, answered at once if the user      *)
(* repeats, after a restart of its own, a file that CDH has on record, put *)
(* into the task list and the queue of the destination set otherwise.      *)
AlreadySent(u) == user[u].retry /\ OnRecord(u, user[u].file)

SendFile(u) ==
  /\ user[u].at = "ready"
  /\ IF Exists(u) \/ AlreadySent(u)
     THEN /\ user' = [user EXCEPT ![u] = IF Exists(u) THEN Refused(@) ELSE Served(@)]
          /\ answers' = [answers EXCEPT ![u] = 1]
          /\ UNCHANGED <<tasks, queue>>
     ELSE /\ tasks' = [tasks EXCEPT ![Job(u)] =
                         [NoTask EXCEPT !.listed = TRUE, !.session = user[u].session]]
          /\ queue' = Append(queue, [job |-> Job(u), session |-> user[u].session,
                                     retry |-> user[u].retry])
          /\ user' = [user EXCEPT ![u].at = "waits"]
          /\ answers' = [answers EXCEPT ![u] = 0]
  /\ UNCHANGED <<thread, sentList, sentFile, stopper, restarts, crashes, stops,
                 delivered, known, restopped, twice, lost>>

(* Users of these tasks whose task has been stopped before. *)
StoppedAgain(marked) == {j[1] : j \in {k \in marked : tasks[k].stop}}

(* stopSendFile marks the task, puts its semaphore in the place of that of *)
(* an earlier stop command, and waits for the thread.                      *)
StopSendFile(j) ==
  /\ stops < MaxStops /\ EventsLeft
  /\ tasks[j].listed
  /\ stops' = stops + 1
  /\ tasks' = [tasks EXCEPT ![j].stop = TRUE, ![j].sem = stops + 1]
  /\ stopper' = [stopper EXCEPT ![stops + 1] =
                   [at |-> "waits", job |-> j, session |-> tasks[j].session]]
  /\ restopped' = restopped \cup StoppedAgain({j})
  /\ UNCHANGED <<queue, thread, sentList, sentFile, user, restarts, crashes,
                 delivered, known, answers, twice, lost>>

(* The thread has released the semaphore. *)
StopDone(n) ==
  /\ stopper[n].at = "signalled"
  /\ stopper' = [stopper EXCEPT ![n] = NoStop]
  /\ Answer(stopper[n].job[1], stopper[n].session, "failed")
  /\ UNCHANGED <<tasks, queue, thread, sentList, sentFile, restarts, crashes, stops,
                 delivered, known, restopped, twice, lost>>

(* It has not released it within 30 seconds, or too late.  The task of     *)
(* that name, which may be another one by now, loses its semaphore, which  *)
(* may be that of another stop command; it stays marked.                   *)
SemKept(task) == task   \* mutant
SemCleared(task) == [task EXCEPT !.sem = NoSem]

StopTimeout(n) ==
  /\ stopper[n].at # "none"
  /\ tasks' = [tasks EXCEPT ![stopper[n].job] = SemCleared(@)]
  /\ stopper' = [stopper EXCEPT ![n] = NoStop]
  /\ Answer(stopper[n].job[1], stopper[n].session, "failed")
  /\ UNCHANGED <<queue, thread, sentList, sentFile, restarts, crashes, stops,
                 delivered, known, restopped, twice, lost>>

(* stopTasks marks the tasks of one connection of a user and answers each  *)
(* without waiting.                                                        *)
TasksOf(u, session) ==
  {j \in Jobs : j[1] = u /\ tasks[j].listed /\ tasks[j].session = session}

StopTasks(u, session) ==
  LET marked == TasksOf(u, session)
  IN  /\ stops < MaxStops /\ EventsLeft
      /\ marked # {}
      /\ stops' = stops + 1
      /\ tasks' = [j \in Jobs |-> IF j \in marked THEN [tasks[j] EXCEPT !.stop = TRUE] ELSE tasks[j]]
      /\ restopped' = restopped \cup StoppedAgain(marked)
      /\ IF user[u].session # session
         THEN UNCHANGED <<user, answers>>
         ELSE /\ answers' = [answers EXCEPT ![u] = @ + Cardinality(marked)]
              /\ user' = [user EXCEPT ![u] = Answered(@, "failed")]
      /\ UNCHANGED <<queue, thread, sentList, sentFile, stopper, restarts, crashes,
                     delivered, known, twice, lost>>

-----------------------------------------------------------------------------
(* The thread of the destination set.                                      *)

Stopped(j) == tasks[j].listed /\ tasks[j].stop

(* The queue may hold tasks that have been stopped: checkStopFlag. *)
Take ==
  /\ thread.at = "idle" /\ queue # <<>>
  /\ LET m == Head(queue)
     IN  thread' = [at |-> IF Stopped(m.job) THEN "save" ELSE "send",
                    job |-> m.job, session |-> m.session, retry |-> m.retry,
                    rcode |-> IF Stopped(m.job) THEN "failed" ELSE "none"]
  /\ queue' = Tail(queue)
  /\ UNCHANGED <<tasks, sentList, sentFile, stopper, user, restarts, crashes, stops, historyVars>>

(* A destination takes the file. *)
Deliver ==
  /\ thread.at = "send"
  /\ thread' = [thread EXCEPT !.at = "save", !.rcode = "OK"]
  /\ delivered' = delivered \cup {thread.job}
  /\ twice' = twice \cup (IF thread.retry /\ thread.job \in known THEN {thread.job} ELSE {})
  /\ UNCHANGED <<tasks, queue, sentList, sentFile, stopper, user, restarts, crashes, stops,
                 known, answers, restopped, lost>>

(* No destination takes it, or the stop interrupts it. *)
NotDelivered ==
  /\ thread.at = "send"
  /\ thread' = [thread EXCEPT !.at = "save", !.rcode = "failed"]
  /\ UNCHANGED <<tasks, queue, sentList, sentFile, stopper, user, restarts, crashes, stops,
                 historyVars>>

(* The first entry of the user is erased. *)
Without(u) == RemoveFirstMatch(sentList, LAMBDA e : e[1] = u)

(* The list is written entry by entry, and each write truncates the file:  *)
(* the last entry is what stays.  An empty list is not written at all.     *)
Written(list) == IF list = <<>> THEN sentFile ELSE <<Last(list)>>

KnownOfOthers(u) == {k \in known : k[1] # u}

(* sendFileDone, first part: fileSentStatusSave or fileSentStatusRemove. *)
SaveStatus ==
  /\ thread.at = "save"
  /\ thread' = [thread EXCEPT !.at = "done"]
  /\ LET u == thread.job[1]
     IN  IF thread.rcode = "OK"
         THEN /\ sentList' = Append(Without(u), thread.job)
              /\ sentFile' = Written(Append(Without(u), thread.job))
              /\ known' = KnownOfOthers(u) \cup {thread.job}
         ELSE IF \E i \in DOMAIN sentList : sentList[i][1] = u
         THEN /\ sentList' = Without(u)
              /\ sentFile' = Written(Without(u))
              /\ known' = KnownOfOthers(u)
         ELSE UNCHANGED <<sentList, sentFile, known>>
  /\ UNCHANGED <<tasks, queue, stopper, user, restarts, crashes, stops,
                 delivered, answers, restopped, twice, lost>>

(* sendFileDone, second part: the task leaves the list.  The stop command  *)
(* whose semaphore it holds is released, and the stopped task gets no      *)
(* other answer.                                                           *)
AnswerAlways(task) == "answer"                                     \* mutant
AnswerTheStopped(task) == IF task.stop THEN "answer" ELSE "idle"  \* mutant
AfterStop(task) == IF task.stop THEN "idle" ELSE "answer"

SendFileDone ==
  /\ thread.at = "done"
  /\ LET task == tasks[thread.job]
     IN  /\ tasks' = [tasks EXCEPT ![thread.job] = NoTask]
         /\ stopper' = IF task.stop /\ task.sem # NoSem
                       THEN [stopper EXCEPT ![task.sem].at = "signalled"] ELSE stopper
         /\ thread' = IF AfterStop(task) = "idle" THEN Idle ELSE [thread EXCEPT !.at = "answer"]
  /\ UNCHANGED <<queue, sentList, sentFile, user, restarts, crashes, stops, historyVars>>

SendFileReply ==
  /\ thread.at = "answer"
  /\ thread' = Idle
  /\ Answer(thread.job[1], thread.session, thread.rcode)
  /\ UNCHANGED <<tasks, queue, sentList, sentFile, stopper, restarts, crashes, stops,
                 delivered, known, restopped, twice, lost>>

-----------------------------------------------------------------------------
(* Restarts.                                                               *)

(* A user restarts (external): it asks again for the file it has no answer *)
(* for, over a new connection and with the mark of a restart.              *)
UserRestart(u) ==
  /\ restarts < MaxRestarts /\ EventsLeft
  /\ user[u].at \in {"ready", "waits"}
  /\ restarts' = restarts + 1
  /\ user' = [user EXCEPT ![u] = [user[u] EXCEPT !.session = @ + 1, !.retry = TRUE,
                                                 !.at = "ready"]]
  /\ UNCHANGED <<serverVars, crashes, stops, historyVars>>

(* A file held back as failed is asked for again (external). *)
Resend(u) ==
  /\ user[u].at = "failed"
  /\ user' = [user EXCEPT ![u].at = "ready", ![u].retry = FALSE]
  /\ UNCHANGED <<serverVars, restarts, crashes, stops, historyVars>>

(* fileSentStatusRecover *)
RecoveredNothing == <<>>   \* mutant
Recovered == sentFile

(* CDH crashes and starts again.  The users lose their connections and     *)
(* hold the files they were waiting for back as failed.                    *)
Crash ==
  /\ crashes < MaxCrashes /\ EventsLeft
  /\ crashes' = crashes + 1
  /\ tasks' = [j \in Jobs |-> NoTask]
  /\ queue' = <<>>
  /\ thread' = Idle
  /\ sentList' = Recovered
  /\ stopper' = [n \in Stops |-> NoStop]
  /\ user' = [u \in Users |-> Answered(user[u], "failed")]
  /\ lost' = lost \cup (known \ ToSet(sentFile))
  /\ UNCHANGED <<sentFile, restarts, stops, delivered, known, answers, restopped, twice>>

-----------------------------------------------------------------------------
Thread == \/ Take \/ Deliver \/ NotDelivered \/ SaveStatus \/ SendFileDone \/ SendFileReply

Next ==
  \/ Thread \/ Crash
  \/ \E u \in Users : SendFile(u) \/ UserRestart(u) \/ Resend(u)
  \/ \E u \in Users : \E session \in 0..MaxRestarts : StopTasks(u, session)
  \/ \E j \in Jobs : StopSendFile(j)
  \/ \E n \in Stops : StopDone(n) \/ StopTimeout(n)

Spec == Init /\ [][Next]_vars

(* The thread goes on, a send to a destination ends, a stop that waits is  *)
(* answered at the latest when its time is over.                           *)
FairSpec ==
  /\ Spec
  /\ WF_vars(Thread)
  /\ \A n \in Stops : WF_vars(StopDone(n) \/ StopTimeout(n))

-----------------------------------------------------------------------------
(* A request is answered at most once: by the thread, by the stop command  *)
(* that waited for it or gave up waiting, or by stopTasks; unless a task   *)
(* of the user was stopped when it was stopped already.  The code promises *)
(* no more: each further stop of a stopped task answers again              *)
(* (servr.cpp:1631-1640, 1654-1664, 1760-1774).                            *)
OneAnswer == \A u \in Users \ restopped : answers[u] <= 1

(* A user that goes on to its next file was told the truth: every file     *)
(* before the present one was delivered, whether the answer came from the  *)
(* thread or from the list of the files already sent.  A user that got two *)
(* answers to one request may have taken the second for its next file.     *)
ServedWereDelivered ==
  \A u \in Users \ restopped : \A f \in 1..MaxFile :
     f < user[u].file \/ user[u].at = "done" => <<u, f>> \in delivered

(* A file that is on record is not delivered again when its user asks for  *)
(* it after a restart, unless CDH has lost the record in a crash.          *)
NotDeliveredTwice == twice \subseteq lost

(* The semaphore a task points to is on the stack of a stop command that   *)
(* is still waiting, for that task: the thread never releases one that is  *)
(* gone, whichever stop command put its own in the place of another's and  *)
(* whichever gave up first.                                                *)
SemaphoreLives ==
  \A j \in Jobs : tasks[j].sem # NoSem =>
     stopper[tasks[j].sem].at = "waits" /\ stopper[tasks[j].sem].job = j

(* What CDH has put on record it still knows, over its own restarts: a user *)
(* that repeats a request after a restart is not served twice.             *)
SentIsRemembered == known \subseteq ToSet(sentList)

(* A user that waits gets an answer, or loses its connection. *)
EveryRequestIsAnswered == \A u \in Users : user[u].at = "waits" ~> user[u].at # "waits"

=============================================================================
