------------------------------- MODULE DdtSink -------------------------------
(***************************************************************************)
(* The data sink of the Direct Data Transfer daemon                        *)
(* (src/ddt_cnz/ddtadm_caa/src/engine): one file assembler per producer    *)
(* pushes files to the active peer; a peer that fails is put under the     *)
(* surveillance of the peer monitor and another one becomes active; the    *)
(* assemblers that find no valid peer wait until the monitor notifies      *)
(* them.  Threads: the task that sets the sink up, the assemblers, the     *)
(* monitor, the reactor with the monitor's timer, the CP connection that   *)
(* brings a new producer, the operator who switches peers, and the one     *)
(* who stops the sink.                                                     *)
(*                                                                         *)
(* m_serialStreamMutex is held for a whole transfer: it is "serial" where  *)
(* a section has several steps, and a section of one step is an action.    *)
(***************************************************************************)
EXTENDS Naturals, Sequences

CONSTANTS
    Peers, Producers,
    NoPeer, NoProducer,
    \* bounds of the search
    MaxDowns,      \* peers that stop answering
    MaxImmFaults,  \* failed writes of a peer's status
    MaxSwitches    \* peers switched by the operator

ASSUME SinkAssumption ==
    /\ NoPeer \notin Peers /\ NoProducer \notin Producers
    /\ MaxDowns \in Nat /\ MaxImmFaults \in Nat /\ MaxSwitches \in Nat

VARIABLES
    up,        \* peers that answer
    valid,     \* m_validPeers: the other peers are in m_faultyPeers
    status,    \* status of each peer, in IMM and in m_status
    active,    \* m_activePeer
    serial,    \* assembler holding m_serialStreamMutex, or NoProducer
    \* the sink: its task, its flags, the assemblers it knows
    svc,       \* next step of DataSink::svc
    toStart,   \* its list of producers
    running,   \* m_running
    pushers,   \* m_pushers
    \* the store, as the sink uses it
    produced,  \* producers of the data source
    observer,  \* the sink is subscribed
    notifying, \* producer the store is telling the sink of, holding its mutex
    \* the peer monitor
    timerId,   \* m_timerId is valid
    armed,     \* the reactor has the timer
    queue,     \* messages to the monitor
    mon,       \* next step of PeerMonitor::svc
    todo,      \* faulty peers it has still to verify
    shutDown,  \* m_shutDown
    \* the assemblers
    at,        \* next step of each
    job,       \* the step of the transfer under way: open or push
    event,     \* m_validPeerEvent is set
    stopReq,   \* m_stopRequested
    \* the stop
    stop,      \* next step of DataSink::stop
    ndown, nimm, nswitch

peerVars == <<valid, status, active, nimm>>
sinkVars == <<svc, toStart, running, pushers>>
prodVars == <<produced, observer, notifying>>
monVars  == <<mon, todo>>
timeVars == <<timerId, armed, queue>>
asmVars  == <<at, job, event, stopReq>>
extVars  == <<up, ndown, nswitch>>
vars == <<extVars, peerVars, serial, sinkVars, prodVars, timeVars, monVars,
          shutDown, asmVars, stop>>

Faulty     == Peers \ valid
StoreIsFree  == notifying = NoProducer   \* the mutex of the StoringManager
SerialIsFree == serial = NoProducer

\* Peer::setStatus keeps the status it could not write.
SetStatus(new) ==
    \/ status' = new /\ nimm' = nimm
    \/ /\ nimm < MaxImmFaults /\ nimm' = nimm + 1
       /\ \E p \in Peers : /\ new[p] # status[p]
                           /\ status' = [new EXCEPT ![p] = status[p]]

Init ==
    /\ up \in SUBSET Peers /\ valid = Peers
    /\ status \in [Peers -> {"ACTIVE", "PASSIVE", "FAULTY"}]
    /\ \A p, q \in Peers : status[p] = "ACTIVE" /\ status[q] = "ACTIVE" => p = q
    /\ active = NoPeer /\ serial = NoProducer
    /\ svc = "begin" /\ toStart = {} /\ running = FALSE /\ pushers = {}
    /\ produced \in SUBSET Producers /\ observer = FALSE /\ notifying = NoProducer
    /\ timerId = FALSE /\ armed = FALSE /\ queue = << >>
    /\ mon = "off" /\ todo = {} /\ shutDown = FALSE
    /\ at = [a \in Producers |-> "off"] /\ job = [a \in Producers |-> "open"]
    /\ event = [a \in Producers |-> FALSE] /\ stopReq = [a \in Producers |-> FALSE]
    /\ stop = "off" /\ ndown = 0 /\ nimm = 0 /\ nswitch = 0

-----------------------------------------------------------------------------
(* The peers.                                                              *)

PeerDown(p) ==
    /\ p \in up /\ ndown < MaxDowns
    /\ up' = up \ {p} /\ ndown' = ndown + 1
    /\ UNCHANGED <<nswitch, peerVars, serial, sinkVars, prodVars, timeVars, monVars,
                   shutDown, asmVars, stop>>

PeerUp(p) ==
    /\ p \notin up /\ up' = up \cup {p}
    /\ UNCHANGED <<ndown, nswitch, peerVars, serial, sinkVars, prodVars, timeVars,
                   monVars, shutDown, asmVars, stop>>

\* PeerMonitor::scheduleTimer, under m_timerMutex: one timer at a time.
ScheduleTimer == timerId' = TRUE /\ armed' = (armed \/ ~timerId)

-----------------------------------------------------------------------------
(* DataSink::svc sets the sink up.                                         *)

SinkBegin ==
    /\ svc = "begin" /\ svc' = "peers" /\ running' = TRUE
    /\ UNCHANGED <<extVars, peerVars, serial, toStart, pushers, prodVars, timeVars,
                   monVars, shutDown, asmVars, stop>>

\* setActivePeer: the peer that was active, if it answers, or else a passive
\* one; those that do not answer on the way, and those that were faulty, go
\* under surveillance.
SetActivePeer ==
    /\ svc = "peers" /\ SerialIsFree /\ svc' = "producers"
    /\ LET was  == {p \in Peers : status[p] = "ACTIVE"}
           bad  == {p \in Peers : status[p] = "FAULTY"} \cup (was \ up)
           next == Peers \ bad
       IN  \/ \E p \in was \cap up : /\ active' = p /\ valid' = Peers \ bad
                                     /\ SetStatus([q \in Peers |->
                                          IF q \in bad THEN "FAULTY" ELSE status[q]])
           \/ /\ was \cap up = {}
              /\ \E p \in next \cap up, tried \in SUBSET (next \ up) :
                    /\ active' = p /\ valid' = next \ tried
                    /\ SetStatus([q \in Peers |-> CASE q = p -> "ACTIVE"
                                                    [] q \in bad \cup tried -> "FAULTY"
                                                    [] OTHER -> status[q]])
           \/ /\ next \cap up = {} /\ active' = NoPeer /\ valid' = {}
              /\ SetStatus([q \in Peers |-> "FAULTY"])
    /\ IF valid' # Peers THEN ScheduleTimer ELSE UNCHANGED <<timerId, armed>>
    /\ UNCHANGED <<extVars, serial, toStart, running, pushers, prodVars, queue,
                   monVars, shutDown, asmVars, stop>>

GetProducers ==
    /\ svc = "producers" /\ StoreIsFree
    /\ svc' = "assemblers" /\ toStart' = produced
    /\ UNCHANGED <<extVars, peerVars, serial, running, pushers, prodVars, timeVars,
                   monVars, shutDown, asmVars, stop>>

\* DataAssembler::start
Started(a) == at' = [at EXCEPT ![a] = "new"]

StartAssembler(a) ==
    /\ svc = "assemblers" /\ a \in toStart /\ Started(a)
    /\ toStart' = toStart \ {a} /\ pushers' = pushers \cup {a}
    /\ UNCHANGED <<extVars, peerVars, serial, svc, running, prodVars, timeVars, monVars,
                   shutDown, job, event, stopReq, stop>>

Subscribe ==
    /\ svc = "assemblers" /\ toStart = {} /\ StoreIsFree
    /\ svc' = "monitor" /\ observer' = TRUE
    /\ UNCHANGED <<extVars, peerVars, serial, toStart, running, pushers, produced,
                   notifying, timeVars, monVars, shutDown, asmVars, stop>>

StartMonitor ==
    /\ svc = "monitor" /\ svc' = "end"
    /\ mon' = (IF shutDown THEN "end" ELSE "getq")
    /\ UNCHANGED <<extVars, peerVars, serial, toStart, running, pushers, prodVars,
                   timeVars, todo, shutDown, asmVars, stop>>

\* The store creates the writer of a new producer and tells its observer:
\* DataSink::update starts an assembler ...
NewProducer(a) ==
    /\ a \notin produced /\ StoreIsFree /\ produced' = produced \cup {a}
    /\ IF observer /\ a \notin pushers
       THEN notifying' = a /\ Started(a) ELSE UNCHANGED <<notifying, at>>
    /\ UNCHANGED <<extVars, peerVars, serial, sinkVars, observer, timeVars, monVars,
                   shutDown, job, event, stopReq, stop>>

\* ... and then keeps it among the pushers.
KeepPusher ==
    /\ ~StoreIsFree
    /\ pushers' = pushers \cup {notifying} /\ notifying' = NoProducer
    /\ UNCHANGED <<extVars, peerVars, serial, svc, toStart, running, produced, observer,
                   timeVars, monVars, shutDown, asmVars, stop>>

-----------------------------------------------------------------------------
(* FileAssembler: open the remote file, push the file, wait for a peer.    *)

Goto(a, step) == at' = [at EXCEPT ![a] = step]

stopEvent == stop # "off"

\* The thread gets its reader from the store, under the mutex of the store.
GetReaderAtOnce(a) ==
    /\ at[a] = "new" /\ Goto(a, "top")
    /\ UNCHANGED <<extVars, peerVars, serial, sinkVars, prodVars, timeVars, monVars,
                   shutDown, job, event, stopReq, stop>>

GetReader(a) ==
    /\ at[a] = "new" /\ StoreIsFree /\ Goto(a, "top")
    /\ UNCHANGED <<extVars, peerVars, serial, sinkVars, prodVars, timeVars, monVars,
                   shutDown, job, event, stopReq, stop>>

\* The top of the loop: shutdown, or a file to send.
Top(a) ==
    /\ at[a] = "top"
    /\ IF stopEvent THEN Goto(a, "end") /\ job' = job
       ELSE Goto(a, "open") /\ job' = [job EXCEPT ![a] = "open"]
    /\ UNCHANGED <<extVars, peerVars, serial, sinkVars, prodVars, timeVars, monVars,
                   shutDown, event, stopReq, stop>>

\* openRemoteFile and pushData: the outcome is that of the last attempt.
NoActivePeer(a) ==
    /\ at[a] \in {"open", "push"} /\ SerialIsFree /\ active = NoPeer
    /\ Goto(a, "wait") /\ job' = [job EXCEPT ![a] = at[a]]
    /\ UNCHANGED <<extVars, peerVars, serial, sinkVars, prodVars, timeVars, monVars,
                   shutDown, event, stopReq, stop>>

Succeed(a) ==
    /\ at[a] \in {"open", "push"} /\ SerialIsFree /\ active \in up
    /\ Goto(a, IF at[a] = "open" THEN "push" ELSE "top")
    /\ UNCHANGED <<extVars, peerVars, serial, sinkVars, prodVars, timeVars, monVars,
                   shutDown, job, event, stopReq, stop>>

\* switchActivePeerOnError, in the steps the monitor can come between.
FailWhileRunning(a) ==
    /\ at[a] \in {"open", "push"} /\ SerialIsFree /\ active \in Peers \ up /\ running
    /\ serial' = a /\ job' = [job EXCEPT ![a] = at[a]] /\ Goto(a, "mark")
    /\ UNCHANGED <<extVars, peerVars, sinkVars, prodVars, timeVars, monVars, shutDown,
                   event, stopReq, stop>>

FailDuringStop(a) ==
    /\ at[a] \in {"open", "push"} /\ SerialIsFree /\ active \in Peers \ up /\ ~running
    /\ active' = NoPeer /\ job' = [job EXCEPT ![a] = at[a]] /\ Goto(a, "wait")
    /\ UNCHANGED <<extVars, valid, status, nimm, serial, sinkVars, prodVars, timeVars,
                   monVars, shutDown, event, stopReq, stop>>

\* startSurveillance: Context::markFaulty ...
Mark(a) ==
    /\ at[a] = "mark" /\ Goto(a, "schedule")
    /\ valid' = valid \ {active}
    /\ IF active \in valid THEN SetStatus([status EXCEPT ![active] = "FAULTY"])
       ELSE UNCHANGED <<status, nimm>>
    /\ UNCHANGED <<extVars, active, serial, sinkVars, prodVars, timeVars, monVars,
                   shutDown, job, event, stopReq, stop>>

\* ... and then the timer ...
Schedule(a) ==
    /\ at[a] = "schedule" /\ Goto(a, "switch") /\ ScheduleTimer
    /\ UNCHANGED <<extVars, peerVars, serial, sinkVars, prodVars, queue, monVars,
                   shutDown, job, event, stopReq, stop>>

\* ... and the next valid peer.
Switch(a) ==
    /\ at[a] = "switch" /\ serial' = NoProducer
    /\ \/ \E p \in valid : /\ active' = p /\ SetStatus([status EXCEPT ![p] = "ACTIVE"])
                           /\ Goto(a, IF job[a] = "open" THEN "open" ELSE "top")
       \/ /\ valid = {} /\ active' = NoPeer /\ UNCHANGED <<status, nimm>>
          /\ Goto(a, "wait")
    /\ UNCHANGED <<extVars, valid, sinkVars, prodVars, timeVars, monVars, shutDown, job,
                   event, stopReq, stop>>

\* waitValidPeerAvailable: the event, which the wait consumes, ...
Awake(a) ==
    /\ at[a] = "wait" /\ event[a] /\ ~stopEvent
    /\ event' = [event EXCEPT ![a] = FALSE]
    /\ Goto(a, IF job[a] = "open" THEN "open" ELSE "top")
    /\ UNCHANGED <<extVars, peerVars, serial, sinkVars, prodVars, timeVars, monVars,
                   shutDown, job, stopReq, stop>>

\* ... or the stop.  The opening of a file is tried until the stop of this
\* assembler is requested.
RetryForever(a) ==
    /\ at[a] = "wait" /\ stopEvent
    /\ Goto(a, IF job[a] = "open" THEN "open" ELSE "end")
    /\ UNCHANGED <<extVars, peerVars, serial, sinkVars, prodVars, timeVars, monVars,
                   shutDown, job, event, stopReq, stop>>

StopWaiting(a) ==
    /\ at[a] = "wait" /\ stopEvent
    /\ Goto(a, IF job[a] = "open" /\ ~stopReq[a] THEN "open" ELSE "end")
    /\ UNCHANGED <<extVars, peerVars, serial, sinkVars, prodVars, timeVars, monVars,
                   shutDown, job, event, stopReq, stop>>

-----------------------------------------------------------------------------
(* PeerMonitor.                                                            *)

\* handle_timeout, in the reactor.
Timeout ==
    /\ armed /\ armed' = FALSE /\ queue' = Append(queue, "START")
    /\ UNCHANGED <<extVars, peerVars, serial, sinkVars, prodVars, timerId, monVars,
                   shutDown, asmVars, stop>>

\* svc leaves its loop when it has handled a message.
NextMessage == mon' = (IF shutDown THEN "end" ELSE "getq")

GetMessage ==
    /\ mon = "getq" /\ queue # << >> /\ queue' = Tail(queue)
    /\ IF Head(queue) = "START"
       THEN mon' = "verify" /\ todo' = Faulty /\ UNCHANGED <<timerId, armed>>
       ELSE NextMessage /\ todo' = todo /\ timerId' = FALSE /\ armed' = (armed /\ ~timerId)
    /\ UNCHANGED <<extVars, peerVars, serial, sinkVars, prodVars, shutDown, asmVars, stop>>

\* verifyFaultyPeers: a peer that answers is valid again.
Verify(p) ==
    /\ mon = "verify" /\ ~shutDown /\ p \in todo /\ todo' = todo \ {p}
    /\ IF p \in up
       THEN /\ mon' = "notify" /\ valid' = valid \cup {p}
            /\ IF p \in valid THEN UNCHANGED <<status, nimm>>
               ELSE SetStatus([status EXCEPT ![p] = "PASSIVE"])
       ELSE UNCHANGED <<mon, valid, status, nimm>>
    /\ UNCHANGED <<extVars, active, serial, sinkVars, prodVars, timeVars, shutDown,
                   asmVars, stop>>

\* The events of all assemblers, whether they wait already or not.
EventsSet == [a \in Producers |-> event[a] \/ a \in pushers]

\* DataSink::notifyValidPeer
NotifyValidPeer ==
    /\ mon = "notify" /\ SerialIsFree /\ mon' = "verify"
    /\ IF active = NoPeer /\ valid # {}
       THEN /\ \E p \in valid : active' = p /\ SetStatus([status EXCEPT ![p] = "ACTIVE"])
            /\ event' = EventsSet
       ELSE UNCHANGED <<active, status, nimm, event>>
    /\ UNCHANGED <<extVars, valid, serial, sinkVars, prodVars, timeVars, todo, shutDown,
                   at, job, stopReq, stop>>

\* The end of runSurveillance, under m_timerMutex: the faulty peers are
\* counted again, and the timer scheduled again if there are any.
RescheduleOnly ==
    /\ mon = "verify" /\ (shutDown \/ todo = {}) /\ NextMessage /\ todo' = {}
    /\ armed' = (armed \/ (Faulty # {} /\ ~shutDown))
    /\ UNCHANGED <<extVars, peerVars, serial, sinkVars, prodVars, timerId, queue,
                   shutDown, asmVars, stop>>

Reschedule ==
    /\ mon = "verify" /\ (shutDown \/ todo = {}) /\ NextMessage /\ todo' = {}
    /\ LET again == Faulty # {} /\ ~shutDown
       IN  timerId' = again /\ armed' = (armed \/ again)
    /\ UNCHANGED <<extVars, peerVars, serial, sinkVars, prodVars, queue, shutDown,
                   asmVars, stop>>

-----------------------------------------------------------------------------
(* The operator and the stop.                                              *)

\* switchActivePeerAction: to a valid peer that is passive.
SwitchActivePeerAction(p) ==
    /\ SerialIsFree /\ active # NoPeer /\ svc \notin {"begin", "peers"}
    /\ p \in valid /\ status[p] = "PASSIVE" /\ nswitch < MaxSwitches
    /\ SetStatus([status EXCEPT ![active] = "PASSIVE", ![p] = "ACTIVE"]) /\ active' = p
    /\ nswitch' = nswitch + 1
    /\ UNCHANGED <<up, ndown, valid, serial, sinkVars, prodVars, timeVars, monVars,
                   shutDown, asmVars, stop>>

\* DataSink::stop: the event and m_running; ...
StopBegin ==
    /\ stop = "off" /\ stop' = "surveillance" /\ running' = FALSE
    /\ UNCHANGED <<extVars, peerVars, serial, svc, toStart, pushers, prodVars, timeVars,
                   monVars, shutDown, asmVars>>

\* ... stopAllSurveillance, and the message that wakes the monitor; ...
StopAllSurveillance ==
    /\ stop = "surveillance" /\ stop' = "monitor" /\ shutDown' = TRUE
    /\ timerId' = FALSE /\ armed' = (armed /\ ~timerId)
    /\ queue' = Append(queue, "HANGUP")
    /\ UNCHANGED <<extVars, peerVars, serial, sinkVars, prodVars, monVars, asmVars>>

\* ... when the monitor has ended, unsubscribe; ...
Unsubscribe ==
    /\ stop = "monitor" /\ mon \in {"off", "end"} /\ StoreIsFree
    /\ stop' = "pushers" /\ observer' = FALSE
    /\ UNCHANGED <<extVars, peerVars, serial, sinkVars, produced, notifying, timeVars,
                   monVars, shutDown, asmVars>>

\* ... then stop the assemblers one by one, ...
PushersStopped == \A a \in pushers : stopReq[a] => at[a] = "end"
StopPusher(a) ==
    /\ stop = "pushers" /\ PushersStopped /\ a \in pushers /\ ~stopReq[a]
    /\ stopReq' = [stopReq EXCEPT ![a] = TRUE]
    /\ UNCHANGED <<extVars, peerVars, serial, sinkVars, prodVars, timeVars, monVars,
                   shutDown, at, job, event, stop>>

\* ... and wait for the task of the sink.
StopPushersEnd ==
    /\ stop = "pushers" /\ PushersStopped /\ (\A a \in pushers : stopReq[a])
    /\ stop' = "task"
    /\ UNCHANGED <<extVars, peerVars, serial, sinkVars, prodVars, timeVars, monVars,
                   shutDown, asmVars>>

StopEnd ==
    /\ stop = "task" /\ svc = "end" /\ stop' = "stopped" /\ pushers' = {}
    /\ UNCHANGED <<extVars, peerVars, serial, svc, toStart, running, prodVars, timeVars,
                   monVars, shutDown, asmVars>>

-----------------------------------------------------------------------------
Task == \/ SinkBegin \/ SetActivePeer \/ GetProducers \/ Subscribe \/ StartMonitor
        \/ \E a \in Producers : StartAssembler(a)
Transfer(a)  == NoActivePeer(a) \/ Succeed(a) \/ FailWhileRunning(a) \/ FailDuringStop(a)
Assembler(a) == \/ GetReader(a) \/ Top(a) \/ Transfer(a) \/ Mark(a) \/ Schedule(a)
                \/ Switch(a) \/ Awake(a) \/ StopWaiting(a)
Monitor == \/ Timeout \/ GetMessage \/ NotifyValidPeer \/ Reschedule
           \/ \E p \in Peers : Verify(p)
Stopping == \/ StopAllSurveillance \/ Unsubscribe \/ StopPushersEnd \/ StopEnd
            \/ \E a \in Producers : StopPusher(a)

Next ==
    \/ Task \/ KeepPusher \/ Monitor \/ Stopping \/ StopBegin
    \/ \E a \in Producers : NewProducer(a) \/ Assembler(a)
    \/ \E p \in Peers : PeerDown(p) \/ PeerUp(p) \/ SwitchActivePeerAction(p)

Spec == Init /\ [][Next]_vars

\* The threads run, and a mutex that is free again and again is obtained.
Fairness ==
    /\ WF_vars(Task) /\ WF_vars(KeepPusher) /\ WF_vars(Stopping) /\ WF_vars(Monitor)
    /\ SF_vars(NotifyValidPeer)
    /\ \A a \in Producers : WF_vars(Assembler(a)) /\ SF_vars(Transfer(a))
FairSpec == Spec /\ Fairness

-----------------------------------------------------------------------------
TypeOK ==
    /\ up \subseteq Peers /\ valid \subseteq Peers /\ active \in Peers \cup {NoPeer}
    /\ status \in [Peers -> {"ACTIVE", "PASSIVE", "FAULTY"}]
    /\ serial \in Producers \cup {NoProducer}
    /\ svc \in {"begin", "peers", "producers", "assemblers", "monitor", "end"}
    /\ toStart \subseteq Producers /\ pushers \subseteq Producers
    /\ produced \subseteq Producers /\ notifying \in Producers \cup {NoProducer}
    /\ {running, observer, timerId, armed, shutDown} \subseteq BOOLEAN
    /\ queue \in Seq({"START", "HANGUP"}) /\ todo \subseteq Peers
    /\ mon \in {"off", "getq", "verify", "notify", "end"}
    /\ at \in [Producers -> {"off", "new", "top", "open", "push", "mark", "schedule",
                             "switch", "wait", "end"}]
    /\ job \in [Producers -> {"open", "push"}]
    /\ event \in [Producers -> BOOLEAN] /\ stopReq \in [Producers -> BOOLEAN]
    /\ stop \in {"off", "surveillance", "monitor", "pushers", "task", "stopped"}
    /\ ndown \in 0 .. MaxDowns /\ nimm \in 0 .. MaxImmFaults /\ nswitch \in 0 .. MaxSwitches

\* A peer that is out of use is never forgotten: the timer of the monitor is
\* armed, or its message waits, or the monitor has still to count the faulty
\* peers, or a thread is about to schedule the timer (PeerMonitor).
FaultyIsSupervised ==
    Faulty # {} =>
        \/ armed \/ shutDown \/ mon \in {"verify", "notify"}
        \/ \E i \in DOMAIN queue : queue[i] = "START"
        \/ \E a \in Producers : at[a] = "schedule"

\* An assembler waits only for a notification that can still come: there is no
\* active peer, or its event is set (DataSink::notifyValidPeer).
WaitersAreNotified ==
    \A a \in Producers :
        at[a] = "wait" /\ mon # "end" => active = NoPeer \/ event[a] \/ stopEvent

\* Outside a switch, files go to a peer that is valid, and the status that the
\* operator sees is that of the peers: one ACTIVE, the peer in use, and FAULTY
\* those under surveillance (Context, DataSink).
StatusTellsPeers ==
    SerialIsFree /\ svc \notin {"begin", "peers"} /\ running =>
        /\ active # NoPeer => active \in valid
        /\ nimm = 0 => /\ {p \in Peers : status[p] = "ACTIVE"} = {active} \ {NoPeer}
                       /\ {p \in Peers : status[p] = "FAULTY"} = Faulty

\* When a peer answers for good, an assembler that waits goes on to push a file
\* unless the sink is stopped (PeerMonitor, DataSink::notifyValidPeer).
WaitersGoOn ==
    <>[](up # {}) =>
        \A a \in Producers : at[a] = "wait" ~> (at[a] = "push" \/ stopEvent)

\* A stop that has begun ends, whatever the peers do (DataSink::stop).
StopEnds == stop = "surveillance" ~> stop = "stopped"

\* There is an assembler for each producer of the data source (comments of
\* DataSink::svc and of Observer).  It does not hold: README, section 7.
EveryProducerIsServed ==
    svc = "end" /\ StoreIsFree /\ ~stopEvent => produced \subseteq pushers

\* No surveillance is left when the sink is stopped (comment of
\* PeerMonitor::stopAllSurveillance).  It does not hold: README, section 7.
StopLeavesNoSurveillance == stop = "stopped" => ~armed
=============================================================================
