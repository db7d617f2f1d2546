------------------------------ MODULE AfpQueue ------------------------------
(***************************************************************************)
(* One automatic transfer queue of AFP: the files reported to it           *)
(* (aes_afp_transferqueue), the thread that has them sent by CDH           *)
(* (aes_afp_cdhtask) and the call-backs of the CDH interface               *)
(* (aes_afp_destination).  One file is with CDH at a time; the answer to   *)
(* one file sends the next, oldest first, and nothing else does: a file    *)
(* that is passed over waits until AFP restarts.                           *)
(*                                                                         *)
(* synchOnFileMap makes every operation of the queue atomic.  The thread,  *)
(* the call-backs, the operator's commands and the deletion of old files   *)
(* interleave; AFP and CDH may crash.  Of CDH there is what AFP sees of    *)
(* it: the tasks of the destination set, done in order, and the record of  *)
(* what was sent last for this queue, of which a crash leaves a part.      *)
(***************************************************************************)
EXTENDS Naturals, Sequences, SequencesExt

CONSTANTS
  MaxFile,       \* files 1..MaxFile are reported, in this order
  SendRetries,   \* SENDRETRIES
  MaxEvents      \* bound: operator's commands, crashes of CDH and of AFP, and
                 \* files reported with a clock that has been set back

ASSUME BoundsAssumption == {MaxFile, SendRetries, MaxEvents} \subseteq Nat

VARIABLES
  tq,          \* the transfer queue, its message queue to the thread included
  task,        \* the CDH task: the thread and what the call-backs share with it
  manageQ,     \* manageQueue_
  cdh,         \* CDH: the session, requests, tasks, and its record of what was sent
  callback,    \* "finish": a call-back has yet to send its CDHFINISHED
  reported, events,
  delivered,   \* history: how often each file has been delivered
  unsure,      \* history: files a crash of CDH took along, or the record of
               \* which it took along, or sent on command
  outOfTurn    \* history: a command or a reconnection has broken the rotation

counters == <<reported, events>>
history == <<delivered, unsure, outOfTurn>>
vars == <<tq, task, manageQ, cdh, callback, counters, history>>

None == 0          \* fileMap_.end(), or an empty file name
Files == 1..MaxFile
States == {"none", "READY", "SEND", "DELETE", "FAILED"}
Item == [f : Files \cup {None}, again : BOOLEAN]
NoItem == [f |-> None, again |-> FALSE]
Messages == {"FINISHED", "RETRY", "REOPEN", "REATTACH", "RESEND", "STOPALL", "STOPFILE"}

(* older: the pairs of files in order of their creation dates              *)
(* (timeSortedMap_); status "none": not in the queue.                      *)
Queues ==
  [older : SUBSET (Files \X Files), status : [Files -> States],
   transferFile : Files \cup {None}, last : Files \cup {None}, next : Files \cup {None},
   toSend : Seq(Item)]
Tasks == [inTransfer : BOOLEAN, resend : BOOLEAN, stopSet : BOOLEAN,
          marking : BOOLEAN, current : Item, retries : 0..SendRetries]
Requests == [f : Files, kind : {"task", "exists", "sent"}]
(* tasks: sendFileTaskList_; sent: the queue's entry in statusList_;       *)
(* written: its entry, if that is the one, in the file of that list.       *)
CdhStates == [up : BOOLEAN, session : {"open", "broken", "closed"},
              requests : SUBSET Requests, tasks : Seq(Files),
              sent : Files \cup {None}, written : Files \cup {None}]

TypeOK ==
  /\ tq \in Queues
  /\ task \in Tasks
  /\ manageQ \in Seq(Messages)
  /\ cdh \in CdhStates
  /\ callback \in {"none", "finish"}
  /\ reported \in 0..MaxFile /\ events \in 0..MaxEvents
  /\ delivered \in [Files -> Nat] /\ unsure \subseteq Files /\ outOfTurn \in BOOLEAN

IdleTask == [inTransfer |-> FALSE, resend |-> FALSE, stopSet |-> FALSE,
             marking |-> FALSE, current |-> NoItem, retries |-> 0]

Init ==
  /\ tq = [older |-> {}, status |-> [f \in Files |-> "none"], transferFile |-> None,
           last |-> None, next |-> None, toSend |-> <<>>]
  /\ task = IdleTask
  /\ manageQ = <<>>
  /\ cdh = [up |-> TRUE, session |-> "open", requests |-> {}, tasks |-> <<>>,
            sent |-> None, written |-> None]
  /\ callback = "none"
  /\ reported = 0 /\ events = 0
  /\ delivered = [f \in Files |-> 0] /\ unsure = {} /\ outOfTurn = FALSE

-----------------------------------------------------------------------------
(* aes_afp_transferqueue: operations on the queue, q being its state.      *)

With(q, state) == {f \in Files : q.status[f] = state}
Present(q, f) == f \in Files /\ q.status[f] # "none"
Older(q, f, g) == <<f, g>> \in q.older
(* The first and the last of a non-empty set in the order of creation. *)
Oldest(q, S) == CHOOSE f \in S : \A g \in S \ {f} : Older(q, f, g)
Newest(q, S) == CHOOSE f \in S : \A g \in S \ {f} : Older(q, g, f)

(* sendToCdh, with afpRestarted_. *)
SendToCdh(q, f, again) ==
  [q EXCEPT !.transferFile = f, !.last = f, !.next = IF @ = f THEN None ELSE @,
            !.status[f] = "SEND", !.toSend = Append(@, [f |-> f, again |-> again])]

SendOldest(q) ==
  IF With(q, "READY") = {} THEN q ELSE SendToCdh(q, Oldest(q, With(q, "READY")), FALSE)

(* Is the file sent last still under way?  With last at end() the code     *)
(* reads past the map: either answer.                                      *)
LastUnderWay(q) ==
  IF q.last = None THEN BOOLEAN ELSE {q.status[q.last] \in {"READY", "SEND"}}

(* The scan of changeFileStatus: the next READY file in order of creation. *)
Scan(q, f) ==
  LET later == {g \in With(q, "READY") : Older(q, f, g)}
  IN  IF later # {} /\ q.transferFile \in {f, None}
      THEN SendToCdh(q, Oldest(q, later), FALSE)
      ELSE [q EXCEPT !.transferFile = None]

NextIgnored(q) == FALSE                                       \* mutant
NextWaits(q) == q.next # None /\ q.status[q.next] = "READY"

(* changeFileStatus to DELETE or FAILED: the next file is sent.  A file    *)
(* older than the one sent last (the clock was set back) goes first.       *)
Finished(q, f, state) ==
  LET changed == [q EXCEPT !.status[f] = state]
  IN  IF ~Present(q, f) THEN {SendOldest(q)}
      ELSE {IF NextWaits(changed) /\ ~busy THEN SendToCdh(changed, changed.next, FALSE)
                                          ELSE Scan(changed, f) :
            busy \in IF NextWaits(changed) THEN LastUnderWay(changed) ELSE {TRUE}}

(* insertFile and sendFile: a file is put in its place by its creation     *)
(* date, after the files of "before", and sent if none is under way.       *)
ComesFirst(q, f) == q.last # None /\ Older(q, f, q.last)
                    /\ (q.next = None \/ Older(q, f, q.next))

Inserted(q, f, before) ==
  LET after == {g \in Files : Present(q, g)} \ before
      put == [q EXCEPT !.older = @ \cup (before \X {f}) \cup ({f} \X after),
                       !.status[f] = "READY"]
      queued == [put EXCEPT !.next = IF ComesFirst(put, f) THEN f ELSE @]
  IN  IF q.last # None /\ q.status[q.last] \in {"READY", "SEND"}
      THEN queued ELSE SendToCdh(queued, f, FALSE)

(* transferFailed: every FAILED file is READY again, and the oldest of     *)
(* them is sent, or is the next one.                                       *)
FailedAgain(q) ==
  LET first == Oldest(q, With(q, "FAILED"))
      ready == [q EXCEPT !.status[first] = "READY"]
      begun == IF q.last # None /\ ready.status[q.last] = "SEND"
               THEN [ready EXCEPT !.next = first] ELSE SendToCdh(ready, first, FALSE)
  IN  [begun EXCEPT !.status =
         [f \in Files |-> IF @[f] = "FAILED" THEN "READY" ELSE @[f]]]

Erased(q, S) ==
  [q EXCEPT !.older = {pair \in @ : pair[1] \notin S /\ pair[2] \notin S},
            !.status = [f \in Files |-> IF f \in S THEN "none" ELSE @[f]],
            !.last = IF @ \in S THEN None ELSE @,
            !.next = IF @ \in S THEN None ELSE @]

(* changeFileStatus to READY, as resendFiles calls it: the file is sent if *)
(* the one before it is not READY, itself not the first, and nothing is in *)
(* transfer.  Then for the files of S, oldest first.                       *)
ReadyAgain(q, f) ==
  LET earlier == {g \in Files : Older(q, g, f)}
      previous == Newest(q, earlier)
      ready == [q EXCEPT !.status[f] = "READY"]
  IN  IF \E g \in earlier : /\ g # previous /\ q.status[previous] # "READY"
                            /\ q.transferFile \in {previous, None}
      THEN SendToCdh(ready, f, FALSE) ELSE ready

AllReadyAgain(q, S) ==
  LET readied[T \in SUBSET S] ==
        IF T = {} THEN q
        ELSE LET f == Newest(q, T) IN ReadyAgain(readied[T \ {f}], f)
  IN  readied[S]

(* readTransferQueueFromDisc and resendFiles: the files are what the disc  *)
(* holds; the oldest one in SEND is sent again, with the mark that AFP has *)
(* restarted, the others become READY; if there is none, the oldest READY. *)
Unmarked(f) == [f |-> f, again |-> FALSE]     \* mutant
Marked(f) == [f |-> f, again |-> TRUE]

Restarted(q) ==
  LET read == [q EXCEPT !.transferFile = None, !.last = None, !.next = None, !.toSend = <<>>]
      sent == With(read, "SEND")
      readied == AllReadyAgain(read, sent \ {Oldest(read, sent)})
  IN  IF sent = {} THEN SendOldest(read)
      ELSE LET item == Marked(Oldest(read, sent)) IN SendToCdh(readied, item.f, item.again)

-----------------------------------------------------------------------------
(* aes_afp_destination.                                                    *)

Connected == cdh.up /\ cdh.session = "open"

(* The files CDH works on, and those of them it will not answer for. *)
AtCdh == ToSet(cdh.tasks)
Orphans == AtCdh \ {r.f : r \in {q \in cdh.requests : q.kind = "task"}}

(* What CDH makes of a request (ServR::sendFile): the list of what was     *)
(* sent has one entry for each of its users.                               *)
Kind(item) == IF item.f \in AtCdh THEN "exists"
              ELSE IF item.again /\ cdh.sent = item.f THEN "sent" ELSE "task"

(* CDH is done with its first task (ServR::sendFileDone): the entry of the *)
(* queue is replaced, or removed; its last line in the file may stay.      *)
Done(c, ok) ==
  LET f == Head(c.tasks)
  IN  [c EXCEPT !.tasks = Tail(@), !.sent = IF ok THEN f ELSE None,
                !.written = IF ok THEN f ELSE @]

(* sendFileToCdh for the current item, the queue being q by now: CDH takes *)
(* the request or the file has failed.                                     *)
SendFileToCdh(q, item) ==
  IF Connected
  THEN /\ cdh' = [cdh EXCEPT !.requests = @ \cup {[f |-> item.f, kind |-> Kind(item)]},
                             !.tasks = IF Kind(item) = "task" THEN Append(@, item.f) ELSE @]
       /\ tq' = q
       /\ UNCHANGED manageQ
  ELSE /\ tq' \in Finished(q, item.f, "FAILED")
       /\ manageQ' = Append(manageQ, "FINISHED")
       /\ UNCHANGED cdh

(* stopFileTransfer: whatever CDH says, the transfer counts as finished.   *)
(* CDH may answer the request all the same; its task ends in its turn.     *)
StopFileTransfer ==
  /\ manageQ' = Append(Tail(manageQ), "FINISHED")
  /\ \/ UNCHANGED cdh
     \/ /\ Connected
        /\ cdh' = [cdh EXCEPT !.requests = {r \in @ : r.f # task.current.f}]

(* CDH is done with a request, and with its task if it has one: the tasks  *)
(* of a destination set are done in order.                                 *)
Answers(r, ok) ==
  LET answered == [cdh EXCEPT !.requests = @ \ {r}]
  IN  /\ callback = "none" /\ r \in cdh.requests
      /\ IF r.kind = "task"
         THEN cdh.tasks # <<>> /\ Head(cdh.tasks) = r.f /\ cdh' = Done(answered, ok)
         ELSE cdh' = answered

(* eventSendFile: the answer to a request changes the status of the        *)
(* current file, whichever that is by now; the message to the thread       *)
(* follows (FinishEvent).                                                  *)
Answered(state) ==
  /\ tq' \in Finished(tq, task.current.f, state)
  /\ callback' = "finish"
  /\ UNCHANGED <<task, manageQ, counters, unsure, outOfTurn>>

(* OK, or FILEALREADYSENT. *)
EventOk(r) ==
  /\ r.kind # "exists" /\ Answers(r, TRUE)
  /\ Answered("DELETE")
  /\ delivered' = [delivered EXCEPT ![r.f] = IF r.kind = "task" THEN @ + 1 ELSE @]

(* An error that is not retried, TASKEXISTS, or no retries left. *)
ErrorStateSent(kind) == IF kind = "exists" THEN "DELETE" ELSE "FAILED"     \* mutant
ErrorState(kind) == "FAILED"

EventFailed(r) ==
  /\ r.kind # "sent" /\ Answers(r, FALSE)
  /\ Answered(ErrorState(r.kind))
  /\ UNCHANGED delivered

EventRetry(r) ==
  /\ r.kind = "task" /\ Answers(r, FALSE)
  /\ task.retries < SendRetries
  /\ task' = [task EXCEPT !.retries = @ + 1]
  /\ manageQ' = Append(manageQ, "RETRY")
  /\ UNCHANGED <<tq, callback, counters, history>>

FinishEvent ==
  /\ callback = "finish"
  /\ callback' = "none"
  /\ task' = [task EXCEPT !.retries = 0]
  /\ manageQ' = Append(manageQ, "FINISHED")
  /\ UNCHANGED <<tq, cdh, counters, history>>

(* eventDestinationSet: the session is lost. *)
EventNoServer ==
  /\ callback = "none" /\ cdh.session = "broken"
  /\ cdh' = [cdh EXCEPT !.session = "closed"]
  /\ task' = [task EXCEPT !.retries = 0]
  /\ manageQ' = manageQ \o <<"FINISHED", "REOPEN">>
  /\ UNCHANGED <<tq, callback, counters, history>>

-----------------------------------------------------------------------------
(* aes_afp_cdhtask: the thread takes a message of the manage queue, or,    *)
(* with no file in transfer, one of its own queue.                         *)

(* handle_fileQueue.  The file becomes SEND before it is sent; with names  *)
(* in stopFileSet_ after that (Mark).                                      *)
TakeFile ==
  /\ ~task.inTransfer /\ ~task.resend /\ ~task.marking
  /\ tq.toSend # <<>>
  /\ LET item == Head(tq.toSend)
         taken == [tq EXCEPT !.toSend = Tail(@),
                     !.status = IF Present(tq, item.f) /\ ~task.stopSet
                                THEN [@ EXCEPT ![item.f] = "SEND"] ELSE @]
     IN  /\ SendFileToCdh(taken, item)
         /\ task' = [task EXCEPT !.current = item, !.inTransfer = ~task.stopSet,
                                 !.marking = task.stopSet,
                                 !.retries = IF Connected THEN @ ELSE 0]
  /\ UNCHANGED <<callback, counters, history>>

Mark ==
  /\ task.marking
  /\ tq' = IF Present(tq, task.current.f)
           THEN [tq EXCEPT !.status[task.current.f] = "SEND"] ELSE tq
  /\ task' = [task EXCEPT !.marking = FALSE, !.inTransfer = TRUE]
  /\ UNCHANGED <<manageQ, cdh, callback, counters, history>>

(* The delay between retries is over. *)
RetryNow ==
  /\ task.inTransfer /\ task.resend /\ ~task.marking /\ manageQ = <<>>
  /\ SendFileToCdh(tq, task.current)
  /\ task' = [task EXCEPT !.resend = FALSE, !.retries = IF Connected THEN @ ELSE 0]
  /\ UNCHANGED <<callback, counters, history>>

Takes(message) == ~task.marking /\ manageQ # <<>> /\ Head(manageQ) = message

(* The message does not say which file is finished: a second one for the   *)
(* same file, left over from a lost session, ends the next transfer.       *)
CurrentIsSent == Present(tq, task.current.f) /\ tq.status[task.current.f] = "SEND"
CurrentAtCdh == Connected /\ (CurrentIsSent \/ \E r \in cdh.requests : r.f = task.current.f)

HandleFinished ==
  /\ Takes("FINISHED")
  /\ task' = [task EXCEPT !.inTransfer = FALSE, !.resend = FALSE]
  /\ manageQ' = Tail(manageQ)
  /\ outOfTurn' = (outOfTurn \/ CurrentAtCdh)
  /\ UNCHANGED <<tq, cdh, callback, counters, delivered, unsure>>

HandleRetry ==
  /\ Takes("RETRY")
  /\ task' = [task EXCEPT !.resend = TRUE]
  /\ manageQ' = Tail(manageQ)
  /\ UNCHANGED <<tq, cdh, callback, counters, history>>

(* close and open: the message comes back until CDH answers. *)
NextTryOnce == "REATTACH"                                     \* mutant
NextTry == IF cdh.up THEN "REATTACH" ELSE "REOPEN"

HandleReopen ==
  /\ Takes("REOPEN")
  /\ manageQ' = Append(Tail(manageQ), NextTry)
  /\ cdh' = [cdh EXCEPT !.session = IF cdh.up THEN "open" ELSE "closed"]
  /\ UNCHANGED <<tq, task, callback, counters, history>>

HandleReattach ==
  /\ Takes("REATTACH")
  /\ manageQ' = Append(Tail(manageQ), IF Connected THEN "RESEND" ELSE "REATTACH")
  /\ UNCHANGED <<tq, task, cdh, callback, counters, history>>

(* The file that was in transfer goes first again if it is in SEND.        *)
(* Nothing tells whether a file sent since then is the one in transfer.    *)
ResentNever == FALSE                                              \* mutant
ResentFirst == CurrentIsSent

HandleResend ==
  /\ Takes("RESEND")
  /\ manageQ' = Tail(manageQ)
  /\ tq' = IF ResentFirst THEN [tq EXCEPT !.toSend = <<task.current>> \o @] ELSE tq
  /\ outOfTurn' = (outOfTurn \/ task.inTransfer
                   \/ \E i \in DOMAIN tq.toSend : tq.toSend[i].f = task.current.f)
  /\ UNCHANGED <<task, cdh, callback, counters, delivered, unsure>>

(* CDHSTOPSENDALL: the queued files are dropped, in state SEND. *)
HandleStopAll ==
  /\ Takes("STOPALL")
  /\ IF task.inTransfer
     THEN StopFileTransfer /\ task' = [task EXCEPT !.retries = 0]
     ELSE manageQ' = Tail(manageQ) /\ UNCHANGED <<cdh, task>>
  /\ tq' = [tq EXCEPT !.toSend = <<>>]
  /\ UNCHANGED <<callback, counters, history>>

(* CDHSTOPSENDFILE: the path named is that of the status file, which no    *)
(* file in transfer has.                                                   *)
HandleStopFile ==
  /\ Takes("STOPFILE")
  /\ task' = [task EXCEPT !.stopSet = TRUE]
  /\ manageQ' = Tail(manageQ)
  /\ UNCHANGED <<tq, cdh, callback, counters, history>>

-----------------------------------------------------------------------------
(* Files reported, the operator, and the deletion of files.                *)

Event == events < MaxEvents /\ events' = events + 1

(* A file older than others (the clock was set back) may be older than the *)
(* next one without becoming it.                                           *)
Report(before) ==
  /\ reported < MaxFile
  /\ \A g \in before : Present(tq, g) /\ (\A h \in Files : Older(tq, h, g) => h \in before)
  /\ reported' = reported + 1
  /\ IF \A g \in Files : Present(tq, g) => g \in before THEN UNCHANGED events ELSE Event
  /\ tq' = Inserted(tq, reported', before)
  /\ outOfTurn' = (outOfTurn \/ (tq'.next # reported' /\ Older(tq', reported', tq'.next)))
  /\ UNCHANGED <<task, manageQ, cdh, callback, delivered, unsure>>

(* transferFailed.  It knows one next file only, and takes it to be the    *)
(* oldest.                                                                 *)
TransferFailed ==
  /\ Event
  /\ With(tq, "FAILED") # {}
  /\ tq' = FailedAgain(tq)
  /\ unsure' = unsure \cup With(tq, "FAILED")
  /\ outOfTurn' = (outOfTurn \/ tq.next # None
                   \/ \E g \in With(tq, "READY") : Older(tq, g, Oldest(tq, With(tq, "FAILED"))))
  /\ UNCHANGED <<task, manageQ, cdh, callback, reported, delivered>>

(* transferFailedFile sends its file at once. *)
TransferFailedFile(f) ==
  /\ Event
  /\ f \in With(tq, "FAILED")
  /\ tq' = SendToCdh(tq, f, FALSE)
  /\ unsure' = unsure \cup {f}
  /\ outOfTurn' = (outOfTurn \/ With(tq, "SEND") # {})
  /\ UNCHANGED <<task, manageQ, cdh, callback, reported, delivered>>

(* removeFile: of a file in SEND the thread is told to stop it. *)
RemoveFile(f) ==
  /\ Event
  /\ Present(tq, f)
  /\ tq' = Erased(tq, {f})
  /\ manageQ' = IF tq.status[f] = "SEND" THEN <<"STOPFILE">> \o manageQ ELSE manageQ
  /\ outOfTurn' = (outOfTurn \/ tq.status[f] = "SEND" \/ f = tq.next)
  /\ UNCHANGED <<task, cdh, callback, reported, delivered, unsure>>

StopSendAll ==
  /\ Event
  /\ manageQ' = <<"STOPALL">> \o manageQ
  /\ outOfTurn' = TRUE
  /\ UNCHANGED <<tq, task, cdh, callback, reported,
                 delivered, unsure>>

(* deleteFiles: of the files in DELETE those whose delay is over. *)
DeleteFiles(S) ==
  /\ S # {} /\ S \subseteq With(tq, "DELETE")
  /\ tq' = Erased(tq, S)
  /\ UNCHANGED <<task, manageQ, cdh, callback, counters, history>>

-----------------------------------------------------------------------------
(* Crashes.  CDH takes its tasks along, some of them fulfilled, and its    *)
(* list of what was sent: the file of that list is emptied and written     *)
(* again for each entry, so that its last line is read back at best, and   *)
(* that may be of another user.  Of an AFP that has crashed CDH goes on    *)
(* with the tasks, and the answers are lost.                               *)

Delivered(S) == delivered' = [f \in Files |-> delivered[f] + IF f \in S THEN 1 ELSE 0]

CdhCrash(S, line) ==
  /\ cdh.up /\ Event
  /\ S \subseteq AtCdh /\ line \in {None, cdh.written} \cup S
  /\ cdh' = [up |-> FALSE, session |-> IF cdh.session = "open" THEN "broken" ELSE cdh.session,
             requests |-> {}, tasks |-> <<>>, sent |-> line, written |-> line]
  /\ Delivered(S)
  /\ unsure' = unsure \cup AtCdh \cup ({cdh.sent} \ {line, None})
  /\ UNCHANGED <<tq, task, manageQ, callback, reported, outOfTurn>>

CdhRestart ==
  /\ ~cdh.up
  /\ cdh' = [cdh EXCEPT !.up = TRUE]
  /\ UNCHANGED <<tq, task, manageQ, callback, counters, history>>

OrphanDone(ok) ==
  /\ cdh.tasks # <<>> /\ Head(cdh.tasks) \in Orphans
  /\ cdh' = Done(cdh, ok)
  /\ Delivered(IF ok THEN {Head(cdh.tasks)} ELSE {})
  /\ UNCHANGED <<tq, task, manageQ, callback, counters, unsure, outOfTurn>>

Crash ==
  /\ Event
  /\ tq' = Restarted(tq)
  /\ task' = IdleTask
  /\ manageQ' = IF cdh.up THEN <<>> ELSE <<"REOPEN">>
  /\ callback' = "none"
  /\ cdh' = [cdh EXCEPT !.session = IF cdh.up THEN "open" ELSE "closed",
                        !.requests = {}]
  /\ outOfTurn' = (outOfTurn \/ tq.next # None)
  /\ UNCHANGED <<reported, delivered, unsure>>

-----------------------------------------------------------------------------
ThreadStep == \/ TakeFile \/ Mark \/ RetryNow
              \/ HandleFinished \/ HandleRetry \/ HandleReopen \/ HandleReattach
              \/ HandleResend \/ HandleStopAll \/ HandleStopFile

CdhStep == \/ \E r \in cdh.requests : EventOk(r) \/ EventFailed(r) \/ EventRetry(r)
           \/ \E ok \in BOOLEAN : OrphanDone(ok)
           \/ FinishEvent \/ EventNoServer

Next ==
  \/ ThreadStep
  \/ CdhStep
  \/ \E before \in SUBSET {f \in Files : Present(tq, f)} : Report(before)
  \/ TransferFailed \/ StopSendAll
  \/ \E f \in Files : TransferFailedFile(f) \/ RemoveFile(f)
  \/ \E S \in SUBSET With(tq, "DELETE") : DeleteFiles(S)
  \/ \E S \in SUBSET AtCdh : \E line \in {None, cdh.written} \cup S : CdhCrash(S, line)
  \/ CdhRestart
  \/ Crash

Spec == Init /\ [][Next]_vars

(* The thread runs, CDH answers every request and is started again.        *)
FairSpec == Spec /\ WF_vars(ThreadStep) /\ WF_vars(CdhStep) /\ WF_vars(CdhRestart)

-----------------------------------------------------------------------------
(* A file is marked for deletion only after a destination has taken it:    *)
(* eventSendFile does not look which file CDH answers.                     *)
DeletedWereDelivered ==
  ~outOfTurn => \A f \in With(tq, "DELETE") : delivered[f] > 0

(* A file waits in READY only while another one is under way, whose answer *)
(* will send it.                                                           *)
ReadyWaitsForSend ==
  ~outOfTurn /\ With(tq, "READY") # {} => With(tq, "SEND") # {}

(* A file in SEND is under way: queued, with CDH, to be retried, or in the *)
(* hands of a reconnection.                                                *)
UnderWay(f) ==
  \/ \E i \in DOMAIN tq.toSend : tq.toSend[i].f = f
  \/ /\ task.current.f = f
     /\ \/ \E r \in cdh.requests : r.f = f
        \/ task.resend
        \/ "RETRY" \in ToSet(manageQ)
        \/ cdh.session = "broken"
        \/ {"REOPEN", "REATTACH", "RESEND"} \cap ToSet(manageQ) # {}

SendIsUnderWay == ~outOfTurn => \A f \in With(tq, "SEND") : UnderWay(f)

(* A file is delivered a second time only if CDH crashed with it or lost   *)
(* its record of it in a crash, or the operator asked for it: a restart of *)
(* AFP sends it with the mark that makes CDH look for it, and CDH knows    *)
(* the one it has sent last.                                               *)
DeliveredTwiceIfUnsure ==
  ~outOfTurn => \A f \in Files : delivered[f] > 1 => f \in unsure

(* One file at a time, the oldest first: a file that becomes SEND was the  *)
(* oldest of those READY.                                                  *)
OldestFirst ==
  [][ \A f \in Files :
        /\ ~outOfTurn'
        /\ tq.status[f] = "READY" /\ tq'.status[f] = "SEND"
        => \A g \in With(tq, "READY") : ~Older(tq, g, f) ]_vars

(* Every file that is READY leaves that state.                             *)
ReadyIsServed ==
  \A f \in Files : tq.status[f] = "READY" ~> (tq.status[f] # "READY" \/ outOfTurn)
=============================================================================
