---------------------------- MODULE DdtSink_proofs ----------------------------
(***************************************************************************)
(* What holds of the data sink for any set of peers and of producers, any  *)
(* number of failed peers, of failed writes of a status and of switches.   *)
(*                                                                         *)
(* Three facts of DdtSink: FaultyIsSupervised, WaitersAreNotified and      *)
(* StatusTellsPeers.  Each needs facts of the order in which the threads   *)
(* start (OrderInv) and of its own:                                        *)
(*   SupervisedInv  the flag m_timerId is never left set without a timer,  *)
(*   WaitInv        the mutex of the transfers is held with an active peer,*)
(*   StatusInv      the status in the middle of a switch.                  *)
(***************************************************************************)
EXTENDS DdtSink, SequenceTheorems, TLAPS

Statuses == {"ACTIVE", "PASSIVE", "FAULTY"}
Messages == {"START", "HANGUP"}

\* A status that cannot be written is the old one: whatever is written, the
\* table of statuses keeps its type, and without a fault it is the new one.
LEMMA SetStatusWrites ==
    ASSUME TypeOK, NEW new \in [Peers -> Statuses], SetStatus(new)
    PROVE  /\ status' \in [Peers -> Statuses] /\ nimm' \in 0 .. MaxImmFaults
           /\ nimm' = 0 => nimm = 0 /\ status' = new
<1>1. CASE status' = new /\ nimm' = nimm
  BY <1>1 DEF TypeOK
<1>2. CASE /\ nimm < MaxImmFaults /\ nimm' = nimm + 1
           /\ \E p \in Peers : /\ new[p] # status[p]
                               /\ status' = [new EXCEPT ![p] = status[p]]
  BY <1>2, SinkAssumption DEF TypeOK, Statuses
<1>3. QED
  BY <1>1, <1>2 DEF SetStatus

\* The timer's flag is set, and the timer armed unless the flag was set.
LEMMA ScheduleTimerType ==
    ASSUME TypeOK, ScheduleTimer
    PROVE  timerId' = TRUE /\ armed' \in BOOLEAN
  BY DEF TypeOK, ScheduleTimer

-----------------------------------------------------------------------------
(* Type correctness.                                                       *)

\* Every variable of the sink keeps its type.
LEMMA TypeStep == ASSUME TypeOK, [Next]_vars PROVE TypeOK'
<1> USE SinkAssumption
<1>1. CASE SinkBegin
  BY <1>1 DEF TypeOK, SinkBegin, extVars, peerVars, prodVars, timeVars, monVars, asmVars
<1>2. CASE SetActivePeer
  <2> DEFINE was  == {p \in Peers : status[p] = "ACTIVE"}
             bad  == {p \in Peers : status[p] = "FAULTY"} \cup (was \ up)
             next == Peers \ bad
  <2>1. /\ active' \in Peers \cup {NoPeer} /\ valid' \subseteq Peers
        /\ \E new \in [Peers -> Statuses] : SetStatus(new)
    <3>1. CASE \E p \in was \cap up :
                 /\ active' = p /\ valid' = Peers \ bad
                 /\ SetStatus([q \in Peers |-> IF q \in bad THEN "FAULTY" ELSE status[q]])
      <4>1. [q \in Peers |-> IF q \in bad THEN "FAULTY" ELSE status[q]]
              \in [Peers -> Statuses]
        BY DEF TypeOK, Statuses
      <4>2. QED BY <3>1, <4>1
    <3>2. CASE \E p \in next \cap up, tried \in SUBSET (next \ up) :
                 /\ active' = p /\ valid' = next \ tried
                 /\ SetStatus([q \in Peers |-> CASE q = p -> "ACTIVE"
                                                 [] q \in bad \cup tried -> "FAULTY"
                                                 [] OTHER -> status[q]])
      <4>1. PICK p \in next \cap up, tried \in SUBSET (next \ up) :
                 /\ active' = p /\ valid' = next \ tried
                 /\ SetStatus([q \in Peers |-> CASE q = p -> "ACTIVE"
                                                 [] q \in bad \cup tried -> "FAULTY"
                                                 [] OTHER -> status[q]])
        BY <3>2
      <4>2. [q \in Peers |-> CASE q = p -> "ACTIVE" [] q \in bad \cup tried -> "FAULTY"
                               [] OTHER -> status[q]] \in [Peers -> Statuses]
        BY DEF TypeOK, Statuses
      <4>3. QED BY <4>1, <4>2
    <3>3. CASE /\ active' = NoPeer /\ valid' = {}
               /\ SetStatus([q \in Peers |-> "FAULTY"])
      <4>1. [q \in Peers |-> "FAULTY"] \in [Peers -> Statuses]
        BY DEF Statuses
      <4>2. QED BY <3>3, <4>1
    <3>4. QED BY <1>2, <3>1, <3>2, <3>3 DEF SetActivePeer
  <2>2. status' \in [Peers -> Statuses] /\ nimm' \in 0 .. MaxImmFaults
    BY <2>1, SetStatusWrites
  <2>3. {timerId', armed'} \subseteq BOOLEAN
    BY <1>2, ScheduleTimerType DEF SetActivePeer, TypeOK
  <2>4. svc' = "producers"
    BY <1>2 DEF SetActivePeer
  <2>5. UNCHANGED <<extVars, serial, toStart, running, pushers, prodVars, queue,
                    monVars, shutDown, asmVars, stop>>
    BY <1>2 DEF SetActivePeer
  <2>6. QED
    BY <2>1, <2>2, <2>3, <2>4, <2>5
    DEF TypeOK, Statuses, extVars, prodVars, monVars, asmVars
<1>3. CASE GetProducers
  BY <1>3 DEF TypeOK, GetProducers, extVars, peerVars, prodVars, timeVars, monVars, asmVars
<1>4. CASE Subscribe
  BY <1>4 DEF TypeOK, Subscribe, extVars, peerVars, timeVars, monVars, asmVars
<1>5. CASE StartMonitor
  BY <1>5 DEF TypeOK, StartMonitor, extVars, peerVars, prodVars, timeVars, asmVars
<1>6. ASSUME NEW a \in Producers, StartAssembler(a) PROVE TypeOK'
  BY <1>6 DEF TypeOK, StartAssembler, Started, extVars, peerVars, prodVars, timeVars,
              monVars
<1>7. CASE KeepPusher
  BY <1>7 DEF TypeOK, KeepPusher, StoreIsFree, extVars, peerVars, timeVars, monVars, asmVars
<1>8. CASE Timeout
  <2>1. queue' \in Seq(Messages) /\ armed' = FALSE
    BY <1>8 DEF TypeOK, Timeout, Messages
  <2>2. QED
    BY <1>8, <2>1, ZenonT(60) DEF TypeOK, Timeout, Messages, extVars, peerVars, sinkVars,
                                prodVars, monVars, asmVars
<1>9. CASE GetMessage
  <2>1. queue' \in Seq(Messages)
    BY <1>9 DEF TypeOK, GetMessage, Messages
  <2>2. mon' \in {"off", "getq", "verify", "notify", "end"} /\ todo' \subseteq Peers
    BY <1>9 DEF TypeOK, GetMessage, NextMessage, Faulty
  <2>3. {timerId', armed'} \subseteq BOOLEAN
    BY <1>9 DEF TypeOK, GetMessage
  <2>4. UNCHANGED <<extVars, peerVars, serial, sinkVars, prodVars, shutDown, asmVars, stop>>
    BY <1>9 DEF GetMessage
  <2>5. QED
    BY <2>1, <2>2, <2>3, <2>4
    DEF TypeOK, Messages, extVars, peerVars, sinkVars, prodVars, asmVars
<1>10. CASE NotifyValidPeer
  <2>1. /\ active' \in Peers \cup {NoPeer} /\ status' \in [Peers -> Statuses]
        /\ nimm' \in 0 .. MaxImmFaults /\ event' \in [Producers -> BOOLEAN]
    <3>1. CASE active = NoPeer /\ valid # {}
      <4>1. PICK p \in valid : active' = p /\ SetStatus([status EXCEPT ![p] = "ACTIVE"])
        BY <1>10, <3>1 DEF NotifyValidPeer
      <4>2. [status EXCEPT ![p] = "ACTIVE"] \in [Peers -> Statuses]
        BY DEF TypeOK, Statuses
      <4>3. event' = EventsSet
        BY <1>10, <3>1 DEF NotifyValidPeer
      <4>4. QED
        BY <4>1, <4>2, <4>3, SetStatusWrites DEF TypeOK, EventsSet
    <3>2. CASE ~(active = NoPeer /\ valid # {})
      BY <1>10, <3>2 DEF NotifyValidPeer, TypeOK, Statuses
    <3>3. QED BY <3>1, <3>2
  <2>2. mon' = "verify" /\ UNCHANGED <<extVars, valid, serial, sinkVars, prodVars, timeVars,
                                       todo, shutDown, at, job, stopReq, stop>>
    BY <1>10 DEF NotifyValidPeer
  <2>3. QED
    BY <2>1, <2>2 DEF TypeOK, Statuses, extVars, sinkVars, prodVars, timeVars
<1>11. CASE Reschedule
  BY <1>11 DEF TypeOK, Reschedule, NextMessage, Faulty, extVars, peerVars, sinkVars,
               prodVars, asmVars
<1>12. ASSUME NEW p \in Peers, Verify(p) PROVE TypeOK'
  <2>1. /\ valid' \subseteq Peers /\ status' \in [Peers -> Statuses]
        /\ nimm' \in 0 .. MaxImmFaults
    <3>1. [status EXCEPT ![p] = "PASSIVE"] \in [Peers -> Statuses]
      BY DEF TypeOK, Statuses
    <3>2. CASE SetStatus([status EXCEPT ![p] = "PASSIVE"])
      BY <1>12, <3>1, <3>2, SetStatusWrites DEF Verify, TypeOK
    <3>3. CASE UNCHANGED <<status, nimm>>
      BY <1>12, <3>3 DEF Verify, TypeOK, Statuses
    <3>4. QED
      BY <1>12, <3>2, <3>3 DEF Verify
  <2>2. mon' \in {"verify", "notify"} /\ todo' \subseteq Peers
    BY <1>12 DEF Verify, TypeOK
  <2>3. UNCHANGED <<extVars, active, serial, sinkVars, prodVars, timeVars, shutDown,
                    asmVars, stop>>
    BY <1>12 DEF Verify
  <2>4. QED
    BY <2>1, <2>2, <2>3 DEF TypeOK, Statuses, extVars, sinkVars, prodVars, timeVars, asmVars
<1>13. CASE StopAllSurveillance
  <2>1. queue' \in Seq(Messages)
    <3>1. queue \in Seq(Messages) /\ "HANGUP" \in Messages
      BY DEF TypeOK, Messages
    <3>2. QED BY <1>13, <3>1, AppendProperties DEF StopAllSurveillance
  <2>2. {timerId', armed', shutDown'} \subseteq BOOLEAN
    BY <1>13 DEF StopAllSurveillance
  <2>3. stop' = "monitor" /\ UNCHANGED <<extVars, peerVars, serial, sinkVars, prodVars,
                                         monVars, asmVars>>
    BY <1>13 DEF StopAllSurveillance
  <2>4. QED
    BY <2>1, <2>2, <2>3
    DEF TypeOK, Messages, extVars, peerVars, sinkVars, prodVars, monVars, asmVars
<1>14. CASE Unsubscribe
  BY <1>14 DEF TypeOK, Unsubscribe, extVars, peerVars, sinkVars, timeVars, monVars, asmVars
<1>15. CASE StopPushersEnd
  BY <1>15 DEF TypeOK, StopPushersEnd, extVars, peerVars, sinkVars, prodVars, timeVars,
               monVars, asmVars
<1>16. CASE StopEnd
  BY <1>16 DEF TypeOK, StopEnd, extVars, peerVars, prodVars, timeVars, monVars, asmVars
<1>17. ASSUME NEW a \in Producers, StopPusher(a) PROVE TypeOK'
  BY <1>17 DEF TypeOK, StopPusher, extVars, peerVars, sinkVars, prodVars, timeVars, monVars
<1>18. CASE StopBegin
  BY <1>18 DEF TypeOK, StopBegin, extVars, peerVars, prodVars, timeVars, monVars, asmVars
<1>19. ASSUME NEW a \in Producers, NewProducer(a) PROVE TypeOK'
  BY <1>19 DEF TypeOK, NewProducer, Started, extVars, peerVars, sinkVars, timeVars, monVars
<1>20. ASSUME NEW a \in Producers, GetReader(a) \/ Top(a) PROVE TypeOK'
  BY <1>20 DEF TypeOK, GetReader, Top, Goto, extVars, peerVars, sinkVars, prodVars,
               timeVars, monVars
<1>21. ASSUME NEW a \in Producers, NoActivePeer(a) \/ Succeed(a) PROVE TypeOK'
  BY <1>21 DEF TypeOK, NoActivePeer, Succeed, Goto, extVars, peerVars, sinkVars, prodVars,
               timeVars, monVars
<1>22. ASSUME NEW a \in Producers, FailWhileRunning(a) \/ FailDuringStop(a) PROVE TypeOK'
  BY <1>22 DEF TypeOK, FailWhileRunning, FailDuringStop, Goto, extVars, peerVars, sinkVars,
               prodVars, timeVars, monVars
<1>23. ASSUME NEW a \in Producers, Mark(a) PROVE TypeOK'
  <2>1. status' \in [Peers -> Statuses] /\ nimm' \in 0 .. MaxImmFaults
    <3>1. [status EXCEPT ![active] = "FAULTY"] \in [Peers -> Statuses]
      BY DEF TypeOK, Statuses
    <3>2. QED BY <1>23, <3>1, SetStatusWrites DEF Mark, TypeOK, Statuses
  <2>2. /\ valid' = valid \ {active} /\ Goto(a, "schedule")
        /\ UNCHANGED <<extVars, active, serial, sinkVars, prodVars, timeVars, monVars,
                       shutDown, job, event, stopReq, stop>>
    BY <1>23 DEF Mark
  <2>3. QED
    BY <2>1, <2>2 DEF TypeOK, Statuses, Goto, extVars, sinkVars, prodVars, timeVars, monVars
<1>24. ASSUME NEW a \in Producers, Schedule(a) PROVE TypeOK'
  BY <1>24 DEF TypeOK, Schedule, ScheduleTimer, Goto, extVars, peerVars, sinkVars, prodVars,
               monVars
<1>25. ASSUME NEW a \in Producers, Switch(a) PROVE TypeOK'
  <2>1. /\ status' \in [Peers -> Statuses] /\ nimm' \in 0 .. MaxImmFaults
        /\ active' \in Peers \cup {NoPeer}
        /\ \E step \in {"open", "top", "wait"} : Goto(a, step)
    <3>1. ASSUME NEW p \in valid, active' = p, SetStatus([status EXCEPT ![p] = "ACTIVE"]),
                 Goto(a, IF job[a] = "open" THEN "open" ELSE "top")
          PROVE  /\ status' \in [Peers -> Statuses] /\ nimm' \in 0 .. MaxImmFaults
                 /\ active' \in Peers \cup {NoPeer}
                 /\ \E step \in {"open", "top", "wait"} : Goto(a, step)
      <4>1. [status EXCEPT ![p] = "ACTIVE"] \in [Peers -> Statuses] /\ p \in Peers
        BY DEF TypeOK, Statuses
      <4>2. QED BY <3>1, <4>1, SetStatusWrites
    <3>2. CASE /\ valid = {} /\ active' = NoPeer /\ UNCHANGED <<status, nimm>>
               /\ Goto(a, "wait")
      BY <3>2 DEF TypeOK, Statuses
    <3>3. QED BY <1>25, <3>1, <3>2 DEF Switch
  <2>2. /\ serial' = NoProducer
        /\ UNCHANGED <<extVars, valid, sinkVars, prodVars, timeVars, monVars, shutDown, job,
                       event, stopReq, stop>>
    BY <1>25 DEF Switch
  <2>3. QED
    BY <2>1, <2>2 DEF TypeOK, Statuses, Goto, extVars, sinkVars, prodVars, timeVars, monVars
<1>26. ASSUME NEW a \in Producers, Awake(a) \/ StopWaiting(a) PROVE TypeOK'
  <2>1. \E step \in {"open", "top", "end"} : Goto(a, step)
    BY <1>26 DEF Awake, StopWaiting
  <2>2. /\ event' = event \/ event' = [event EXCEPT ![a] = FALSE]
        /\ UNCHANGED <<extVars, peerVars, serial, sinkVars, prodVars, timeVars, monVars,
                       shutDown, job, stopReq, stop>>
    BY <1>26 DEF Awake, StopWaiting
  <2>3. at' \in [Producers -> {"off", "new", "top", "open", "push", "mark", "schedule",
                               "switch", "wait", "end"}]
    BY <2>1 DEF TypeOK, Goto
  <2>4. event' \in [Producers -> BOOLEAN]
    BY <2>2 DEF TypeOK
  <2>5. QED
    BY <2>2, <2>3, <2>4 DEF TypeOK, extVars, peerVars, sinkVars, prodVars, timeVars, monVars
<1>27. ASSUME NEW p \in Peers, PeerDown(p) \/ PeerUp(p) PROVE TypeOK'
  BY <1>27 DEF TypeOK, PeerDown, PeerUp, extVars, peerVars, sinkVars, prodVars, timeVars,
               monVars, asmVars
<1>28. ASSUME NEW p \in Peers, SwitchActivePeerAction(p) PROVE TypeOK'
  <2>1. [status EXCEPT ![active] = "PASSIVE", ![p] = "ACTIVE"] \in [Peers -> Statuses]
    BY <1>28 DEF TypeOK, Statuses
  <2>2. status' \in [Peers -> Statuses] /\ nimm' \in 0 .. MaxImmFaults
    BY <1>28, <2>1, SetStatusWrites DEF SwitchActivePeerAction
  <2>3. nswitch' \in 0 .. MaxSwitches
    BY <1>28 DEF SwitchActivePeerAction, TypeOK
  <2>4. active' \in Peers /\ UNCHANGED <<up, ndown, valid, serial, sinkVars, prodVars,
                                         timeVars, monVars, shutDown, asmVars, stop>>
    BY <1>28 DEF SwitchActivePeerAction
  <2>5. QED
    BY <2>2, <2>3, <2>4 DEF TypeOK, Statuses, sinkVars, prodVars, timeVars, monVars, asmVars
<1>29. CASE UNCHANGED vars
  BY <1>29 DEF TypeOK, vars, extVars, peerVars, sinkVars, prodVars, timeVars, monVars, asmVars
<1>30. QED
  BY <1>1, <1>2, <1>3, <1>4, <1>5, <1>6, <1>7, <1>8, <1>9, <1>10, <1>11, <1>12, <1>13, <1>14,
     <1>15, <1>16, <1>17, <1>18, <1>19, <1>20, <1>21, <1>22, <1>23, <1>24, <1>25, <1>26,
     <1>27, <1>28, <1>29
  DEF Next, Task, Monitor, Stopping, Assembler, Transfer

LEMMA InitTypes == Init => TypeOK
<1>1. ASSUME Init PROVE queue \in Seq(Messages)
  BY <1>1 DEF Init
<1>2. ASSUME Init
      PROVE  /\ up \subseteq Peers /\ valid \subseteq Peers /\ active \in Peers \cup {NoPeer}
             /\ status \in [Peers -> Statuses] /\ ndown = 0 /\ nimm = 0 /\ nswitch = 0
  BY <1>2 DEF Init, Statuses
<1>3. ASSUME Init
      PROVE  /\ serial = NoProducer /\ notifying = NoProducer /\ svc = "begin"
             /\ produced \subseteq Producers /\ mon = "off" /\ stop = "off"
             /\ toStart = {} /\ pushers = {} /\ todo = {}
             /\ {running, observer, timerId, armed, shutDown} \subseteq BOOLEAN
  BY <1>3 DEF Init
<1>4. ASSUME Init
      PROVE  /\ at \in [Producers -> {"off"}] /\ job \in [Producers -> {"open"}]
             /\ event \in [Producers -> BOOLEAN] /\ stopReq \in [Producers -> BOOLEAN]
  BY <1>4 DEF Init
<1>5. QED
  BY <1>1, <1>2, <1>3, <1>4, SinkAssumption DEF TypeOK, Messages, Statuses

\* The types of the sink hold in every state, whatever fails.
THEOREM TypeCorrect == Spec => []TypeOK
<1>1. Init => TypeOK
  BY InitTypes
<1>2. TypeOK /\ [Next]_vars => TypeOK'
  BY TypeStep
<1>3. QED
  BY <1>1, <1>2, PTL DEF Spec

-----------------------------------------------------------------------------
(* The order in which the threads of the sink start and end.               *)

\* The monitor is the last thread that the task of the sink starts; the
\* monitor ends when it is told to, and that is part of the stop.
MonitorIsStartedLast == svc # "end" => mon = "off"
StopShutsDown == (shutDown => stopEvent) /\ (mon = "end" => shutDown)

\* No assembler runs, and the store tells the sink of none, before the sink
\* has its active peer.
ObserverIsLast == observer => svc \in {"monitor", "end"}
AssemblersAfterPeers ==
    svc \in {"begin", "peers", "producers"} => \A a \in Producers : at[a] = "off"

\* An assembler that runs is a pusher, until the stop ends; one that has just
\* been started may be on its way to be one.
AssemblersAreKnown ==
    \A a \in Producers :
        /\ at[a] = "new" => a \in pushers \/ notifying = a \/ stop = "stopped"
        /\ at[a] \notin {"off", "new"} => a \in pushers \/ stop = "stopped"

\* Only an assembler that does not run is started: not twice for a producer.
NotStartedTwice ==
    \A a \in Producers : /\ a \in toStart => at[a] = "off" /\ a \in produced
                         /\ at[a] # "off" => a \in produced

OrderInv == /\ MonitorIsStartedLast /\ StopShutsDown /\ ObserverIsLast
            /\ AssemblersAfterPeers /\ AssemblersAreKnown /\ NotStartedTwice

LEMMA InitOrder == Init => OrderInv
  BY DEF Init, OrderInv, MonitorIsStartedLast, StopShutsDown, stopEvent, ObserverIsLast,
         AssemblersAfterPeers, AssemblersAreKnown, NotStartedTwice

LEMMA OrderStep == ASSUME TypeOK, OrderInv, [Next]_vars PROVE OrderInv'
<1> USE SinkAssumption
    DEF TypeOK, OrderInv, MonitorIsStartedLast, StopShutsDown, ObserverIsLast,
        AssemblersAfterPeers, AssemblersAreKnown, NotStartedTwice, stopEvent
<1>1. CASE Task
  <2>1. CASE SinkBegin \/ SetActivePeer \/ GetProducers
    BY <1>1, <2>1 DEF SinkBegin, SetActivePeer, GetProducers, extVars, peerVars, prodVars, timeVars,
                monVars, asmVars
  <2>2. CASE Subscribe
    BY <2>2 DEF Subscribe, extVars, peerVars, timeVars, monVars, asmVars
  <2>3. CASE StartMonitor
    BY <2>3 DEF StartMonitor, extVars, peerVars, prodVars, timeVars, asmVars
  <2>4. ASSUME NEW a \in Producers, StartAssembler(a) PROVE OrderInv'
    BY <2>4 DEF StartAssembler, Started, extVars, peerVars, prodVars, timeVars, monVars
  <2>5. QED BY <1>1, <2>1, <2>2, <2>3, <2>4 DEF Task
<1>2. CASE KeepPusher
  BY <1>2 DEF KeepPusher, StoreIsFree, extVars, peerVars, timeVars, monVars, asmVars
<1>3. CASE Timeout \/ GetMessage \/ NotifyValidPeer \/ Reschedule
  <2>1. CASE Timeout \/ Reschedule
    BY <2>1 DEF Timeout, Reschedule, NextMessage, sinkVars, prodVars, monVars, asmVars
  <2>2. CASE GetMessage
    BY <2>2 DEF GetMessage, NextMessage, sinkVars, prodVars, asmVars
  <2>3. CASE NotifyValidPeer
    BY <2>3 DEF NotifyValidPeer, sinkVars, prodVars
  <2>4. QED BY <1>3, <2>1, <2>2, <2>3
<1>4. ASSUME NEW p \in Peers, Verify(p) PROVE OrderInv'
  BY <1>4 DEF Verify, extVars, sinkVars, prodVars, asmVars
<1>5. CASE StopBegin \/ StopAllSurveillance \/ Unsubscribe \/ StopPushersEnd
  BY <1>5 DEF StopBegin, StopAllSurveillance, Unsubscribe, StopPushersEnd, extVars, sinkVars,
              prodVars, monVars, asmVars
<1>6. CASE StopEnd
  BY <1>6 DEF StopEnd, prodVars, monVars, asmVars
<1>7. ASSUME NEW a \in Producers, StopPusher(a) PROVE OrderInv'
  BY <1>7 DEF StopPusher, sinkVars, prodVars, monVars
<1>8. ASSUME NEW a \in Producers, NewProducer(a) PROVE OrderInv'
  BY <1>8 DEF NewProducer, Started, StoreIsFree, sinkVars, monVars
<1>9. ASSUME NEW a \in Producers, Assembler(a) PROVE OrderInv'
  <2>1. CASE GetReader(a)
    BY <2>1 DEF GetReader, StoreIsFree, Goto, sinkVars, prodVars, monVars
  <2>2. CASE at[a] \notin {"off", "new"} /\ (\E step : step \notin {"off", "new"} /\ Goto(a, step))
             /\ UNCHANGED <<sinkVars, prodVars, monVars, shutDown, stop>>
    BY <2>2 DEF Goto, sinkVars, prodVars, monVars
  <2>3. CASE Top(a) \/ Awake(a) \/ StopWaiting(a)
    BY <2>2, <2>3 DEF Top, Awake, StopWaiting
  <2>4. CASE Transfer(a)
    BY <2>2, <2>4 DEF Transfer, NoActivePeer, Succeed, FailWhileRunning, FailDuringStop
  <2>5. CASE Mark(a) \/ Schedule(a) \/ Switch(a)
    BY <2>2, <2>5 DEF Mark, Schedule, Switch
  <2>6. QED BY <1>9, <2>1, <2>3, <2>4, <2>5 DEF Assembler
<1>10. ASSUME NEW p \in Peers, PeerDown(p) \/ PeerUp(p) \/ SwitchActivePeerAction(p)
       PROVE OrderInv'
  BY <1>10 DEF PeerDown, PeerUp, SwitchActivePeerAction, sinkVars, prodVars, monVars, asmVars
<1>11. CASE UNCHANGED vars
  BY <1>11 DEF vars, sinkVars, prodVars, monVars, asmVars
<1>12. QED
  BY <1>1, <1>2, <1>3, <1>4, <1>5, <1>6, <1>7, <1>8, <1>9, <1>10, <1>11
  DEF Next, Monitor, Stopping

-----------------------------------------------------------------------------
(* The surveillance.                                                       *)

\* What will make the monitor count the faulty peers: its timer, its message,
\* or the monitor itself that has begun to.
Supervision == \/ armed \/ shutDown \/ mon \in {"verify", "notify"}
               \/ \E i \in DOMAIN queue : queue[i] = "START"

\* m_timerId tells that a timer is scheduled: as long as it is set, nobody
\* schedules another one, and a flag left behind would end the surveillance.
TimerIsCounted == timerId => Supervision

\* The message that ends the monitor comes from stopAllSurveillance only.
HangupIsShutDown == (\E i \in DOMAIN queue : queue[i] = "HANGUP") => shutDown

SupervisedInv == TimerIsCounted /\ HangupIsShutDown /\ FaultyIsSupervised

\* A thread that has scheduled the timer has left the peers supervised.
LEMMA ScheduleSupervises ==
    ASSUME TypeOK, TimerIsCounted, ScheduleTimer, UNCHANGED <<queue, monVars, shutDown>>
    PROVE  Supervision'
  BY DEF TypeOK, TimerIsCounted, Supervision, ScheduleTimer, monVars

LEMMA SupervisedStep ==
    ASSUME TypeOK, OrderInv, SupervisedInv, [Next]_vars PROVE SupervisedInv'
<1> USE DEF SupervisedInv
<1>0. FaultyIsSupervised <=>
        (Faulty # {} => Supervision \/ \E a \in Producers : at[a] = "schedule")
  BY DEF FaultyIsSupervised, Supervision
<1>1. (Faulty # {} => Supervision \/ \E a \in Producers : at[a] = "schedule")'
        => FaultyIsSupervised'
  BY DEF FaultyIsSupervised, Supervision
<1>2. CASE UNCHANGED <<valid, timeVars, mon, shutDown>>
             /\ \A a \in Producers : at[a] = "schedule" => at'[a] = "schedule"
  BY <1>0, <1>1, <1>2
  DEF TimerIsCounted, HangupIsShutDown, Supervision, Faulty, timeVars
<1>3. CASE Task
  <2>1. CASE SetActivePeer
    <3>1. IF valid' # Peers THEN ScheduleTimer ELSE UNCHANGED <<timerId, armed>>
      BY <2>1 DEF SetActivePeer
    <3>2. UNCHANGED <<queue, monVars, shutDown>>
      BY <2>1 DEF SetActivePeer
    <3>3. CASE valid' # Peers
      BY <3>1, <3>2, <3>3, <1>1, ScheduleSupervises
      DEF TimerIsCounted, HangupIsShutDown, monVars
    <3>4. CASE valid' = Peers
      BY <3>1, <3>2, <3>4, <1>1
      DEF TimerIsCounted, HangupIsShutDown, Supervision, Faulty, monVars
    <3>5. QED BY <3>3, <3>4
  <2>2. CASE SinkBegin \/ GetProducers \/ Subscribe
    BY <1>2, <2>2 DEF SinkBegin, GetProducers, Subscribe, peerVars, monVars, asmVars
  <2>3. CASE StartMonitor
    <3>1. mon = "off" /\ UNCHANGED <<valid, timeVars, shutDown, at>>
      BY <2>3 DEF StartMonitor, OrderInv, MonitorIsStartedLast, peerVars, asmVars
    <3>2. Supervision => Supervision'
      BY <3>1 DEF Supervision, timeVars
    <3>3. QED
      BY <1>0, <1>1, <3>1, <3>2 DEF TimerIsCounted, HangupIsShutDown, Faulty, timeVars
  <2>4. ASSUME NEW a \in Producers, StartAssembler(a) PROVE SupervisedInv'
    BY <1>2, <2>4
    DEF StartAssembler, Started, OrderInv, NotStartedTwice, TypeOK, peerVars, monVars
  <2>5. QED BY <1>3, <2>1, <2>2, <2>3, <2>4 DEF Task
<1>4. CASE Timeout
  <2>1. queue' = Append(queue, "START") /\ queue \in Seq(Messages)
    BY <1>4 DEF Timeout, TypeOK, Messages
  <2>2. Len(queue') \in DOMAIN queue' /\ queue'[Len(queue')] = "START"
    BY <2>1, AppendProperties
  <2>3. Supervision'
    BY <2>2 DEF Supervision
  <2>4. \A i \in DOMAIN queue' : queue'[i] = "HANGUP" => \E j \in DOMAIN queue : queue[j] = "HANGUP"
    BY <2>1, AppendProperties
  <2>5. QED
    BY <1>1, <1>4, <2>3, <2>4 DEF TimerIsCounted, HangupIsShutDown, Timeout
<1>5. CASE GetMessage
  <2>1. queue \in Seq(Messages) /\ queue # << >> /\ queue' = Tail(queue)
    BY <1>5 DEF GetMessage, TypeOK, Messages
  <2>2. \A i \in DOMAIN queue' : i + 1 \in DOMAIN queue /\ queue'[i] = queue[i + 1]
    BY <2>1, HeadTailProperties
  <2>3. HangupIsShutDown'
    <3>1. \A i \in DOMAIN queue' : queue'[i] = "HANGUP" => \E j \in DOMAIN queue : queue[j] = "HANGUP"
      BY <2>2
    <3>2. QED BY <1>5, <3>1 DEF GetMessage, HangupIsShutDown
  <2>4. Supervision'
    <3>1. CASE Head(queue) = "START"
      BY <1>5, <3>1 DEF GetMessage, Supervision
    <3>2. CASE Head(queue) # "START"
      <4>1. 1 \in DOMAIN queue /\ Head(queue) = queue[1] /\ Head(queue) \in Messages
        BY <2>1, HeadTailProperties
      <4>2. shutDown
        BY <3>2, <4>1 DEF Messages, HangupIsShutDown
      <4>3. QED BY <1>5, <4>2 DEF GetMessage, Supervision
    <3>3. QED BY <3>1, <3>2
  <2>5. QED
    BY <1>1, <2>3, <2>4 DEF TimerIsCounted
<1>6. CASE NotifyValidPeer
  <2>1. Supervision' /\ UNCHANGED <<queue, shutDown>>
    BY <1>6 DEF NotifyValidPeer, Supervision, timeVars
  <2>2. QED
    BY <1>1, <2>1 DEF TimerIsCounted, HangupIsShutDown
<1>7. CASE Reschedule
  <2>1. UNCHANGED <<valid, queue, shutDown>>
    BY <1>7 DEF Reschedule, peerVars
  <2>2. timerId' => armed'
    BY <1>7 DEF Reschedule
  <2>3. Faulty' # {} => armed' \/ shutDown'
    <3>1. Faulty' = Faulty
      BY <2>1 DEF Faulty
    <3>2. Faulty # {} /\ ~shutDown => armed'
      BY <1>7 DEF Reschedule
    <3>3. QED BY <2>1, <3>1, <3>2
  <2>4. QED
    BY <1>1, <2>1, <2>2, <2>3 DEF TimerIsCounted, HangupIsShutDown, Supervision
<1>8. ASSUME NEW p \in Peers, Verify(p) PROVE SupervisedInv'
  <2>1. Supervision' /\ UNCHANGED <<queue, shutDown>>
    BY <1>8 DEF Verify, Supervision, timeVars
  <2>2. QED
    BY <1>1, <2>1 DEF TimerIsCounted, HangupIsShutDown
<1>9. CASE StopAllSurveillance
  BY <1>1, <1>9 DEF StopAllSurveillance, TimerIsCounted, HangupIsShutDown, Supervision
<1>10. CASE StopBegin \/ Unsubscribe \/ StopPushersEnd \/ StopEnd
  BY <1>2, <1>10 DEF StopBegin, Unsubscribe, StopPushersEnd, StopEnd, peerVars, monVars, asmVars
<1>11. ASSUME NEW a \in Producers, StopPusher(a) PROVE SupervisedInv'
  BY <1>2, <1>11 DEF StopPusher, peerVars, monVars
<1>12. CASE KeepPusher
  BY <1>2, <1>12 DEF KeepPusher, peerVars, monVars, asmVars
<1>13. ASSUME NEW a \in Producers, NewProducer(a) PROVE SupervisedInv'
  BY <1>2, <1>13
  DEF NewProducer, Started, OrderInv, NotStartedTwice, TypeOK, peerVars, monVars
<1>14. ASSUME NEW a \in Producers, Assembler(a) PROVE SupervisedInv'
  <2>1. CASE Mark(a)
    <3>1. at'[a] = "schedule" /\ UNCHANGED <<timeVars, mon, shutDown>>
      BY <2>1 DEF Mark, Goto, TypeOK, monVars
    <3>2. QED
      BY <1>1, <3>1 DEF TimerIsCounted, HangupIsShutDown, Supervision, timeVars
  <2>2. CASE Schedule(a)
    <3>1. ScheduleTimer /\ UNCHANGED <<queue, monVars, shutDown>>
      BY <2>2 DEF Schedule
    <3>2. Supervision'
      BY <3>1, ScheduleSupervises
    <3>3. QED
      BY <1>1, <3>1, <3>2 DEF TimerIsCounted, HangupIsShutDown
  <2>3. CASE /\ at[a] # "schedule" /\ \E step : Goto(a, step)
             /\ UNCHANGED <<valid, timeVars, monVars, shutDown>>
    BY <1>2, <2>3 DEF Goto, TypeOK, monVars
  <2>4. CASE GetReader(a) \/ Top(a) \/ Awake(a) \/ StopWaiting(a)
    BY <2>3, <2>4 DEF GetReader, Top, Awake, StopWaiting, peerVars
  <2>5. CASE Transfer(a)
    BY <2>3, <2>5
    DEF Transfer, NoActivePeer, Succeed, FailWhileRunning, FailDuringStop, peerVars
  <2>6. CASE Switch(a)
    BY <2>3, <2>6 DEF Switch
  <2>7. QED BY <1>14, <2>1, <2>2, <2>4, <2>5, <2>6 DEF Assembler
<1>15. ASSUME NEW p \in Peers, PeerDown(p) \/ PeerUp(p) \/ SwitchActivePeerAction(p)
       PROVE SupervisedInv'
  BY <1>2, <1>15 DEF PeerDown, PeerUp, SwitchActivePeerAction, peerVars, monVars, asmVars
<1>16. CASE UNCHANGED vars
  BY <1>2, <1>16 DEF vars, peerVars, monVars, asmVars
<1>17. QED
  BY <1>3, <1>4, <1>5, <1>6, <1>7, <1>8, <1>9, <1>10, <1>11, <1>12, <1>13, <1>14, <1>15, <1>16
  DEF Next, Monitor, Stopping

\* A peer that is out of use is never forgotten, for any number of peers and
\* assemblers: the timer that a thread believes scheduled is (PeerMonitor).
THEOREM FaultyAreSupervised == Spec => []FaultyIsSupervised
<1>1. Init => TypeOK /\ OrderInv /\ SupervisedInv
  <2>1. ASSUME Init PROVE SupervisedInv
    BY <2>1 DEF Init, SupervisedInv, TimerIsCounted, HangupIsShutDown, FaultyIsSupervised,
                Faulty
  <2>2. QED BY <2>1, InitTypes, InitOrder
<1>2. TypeOK /\ OrderInv /\ SupervisedInv /\ [Next]_vars
        => (TypeOK /\ OrderInv /\ SupervisedInv)'
  BY TypeStep, OrderStep, SupervisedStep
<1>3. QED
  BY <1>1, <1>2, PTL DEF Spec, SupervisedInv

-----------------------------------------------------------------------------
(* The assemblers that wait.                                               *)

\* The steps of a switch of the active peer are taken with the mutex of the
\* transfers held.
InSwitch == {"mark", "schedule", "switch"}
SwitchesAreSerial == \A a \in Producers : at[a] \in InSwitch => serial = a

\* While the mutex is held over several steps there is an active peer, so that
\* nobody has begun to wait for want of one.
SwitchHasPeer == serial # NoProducer => active # NoPeer

\* WaitersAreNotified, without its condition: the monitor ends in a stop only.
Notified == \A a \in Producers :
                at[a] = "wait" => active = NoPeer \/ event[a] \/ stopEvent

WaitInv == SwitchesAreSerial /\ SwitchHasPeer /\ Notified

LEMMA InitWait == Init => WaitInv
  BY DEF Init, WaitInv, SwitchesAreSerial, SwitchHasPeer, Notified, InSwitch

LEMMA WaitStep == ASSUME TypeOK, OrderInv, WaitInv, [Next]_vars PROVE WaitInv'
<1> USE SinkAssumption DEF WaitInv, SwitchesAreSerial, SwitchHasPeer, Notified, InSwitch
<1>1. CASE /\ UNCHANGED <<active, serial, event>> /\ (stopEvent => stopEvent')
           /\ \A a \in Producers : at'[a] \in InSwitch \cup {"wait"} => at'[a] = at[a]
  BY <1>1
<1>2. CASE Task
  <2>1. CASE SetActivePeer
    <3>1. /\ \A a \in Producers : at[a] = "off"
          /\ serial = NoProducer /\ UNCHANGED <<at, serial>>
      BY <2>1 DEF SetActivePeer, SerialIsFree, OrderInv, AssemblersAfterPeers, asmVars
    <3>2. QED BY <3>1
  <2>2. CASE SinkBegin \/ GetProducers \/ Subscribe \/ StartMonitor
    BY <1>1, <2>2
    DEF SinkBegin, GetProducers, Subscribe, StartMonitor, stopEvent, peerVars, asmVars
  <2>3. ASSUME NEW a \in Producers, StartAssembler(a) PROVE WaitInv'
    BY <1>1, <2>3 DEF StartAssembler, Started, TypeOK, stopEvent, peerVars
  <2>4. QED BY <1>2, <2>1, <2>2, <2>3 DEF Task
<1>3. CASE KeepPusher \/ Timeout \/ GetMessage \/ Reschedule
  BY <1>1, <1>3
  DEF KeepPusher, Timeout, GetMessage, Reschedule, stopEvent, peerVars, asmVars
<1>4. CASE NotifyValidPeer
  <2>1. serial = NoProducer /\ UNCHANGED <<serial, at, stop>>
    BY <1>4 DEF NotifyValidPeer, SerialIsFree
  <2>2. CASE active = NoPeer /\ valid # {}
    <3>1. \A a \in pushers : event'[a]
      BY <1>4, <2>2 DEF NotifyValidPeer, EventsSet, TypeOK
    <3>2. \A a \in Producers : at[a] = "wait" => a \in pushers \/ stopEvent
      BY DEF OrderInv, AssemblersAreKnown, stopEvent
    <3>3. QED BY <2>1, <3>1, <3>2 DEF stopEvent
  <2>3. CASE ~(active = NoPeer /\ valid # {})
    BY <1>1, <1>4, <2>1, <2>3 DEF NotifyValidPeer, stopEvent
  <2>4. QED BY <2>2, <2>3
<1>5. ASSUME NEW p \in Peers, Verify(p) PROVE WaitInv'
  BY <1>1, <1>5 DEF Verify, stopEvent, asmVars
<1>6. CASE StopBegin \/ StopAllSurveillance \/ Unsubscribe \/ StopPushersEnd \/ StopEnd
  BY <1>1, <1>6 DEF StopBegin, StopAllSurveillance, Unsubscribe, StopPushersEnd, StopEnd,
                    stopEvent, peerVars, asmVars
<1>7. ASSUME NEW a \in Producers, StopPusher(a) \/ NewProducer(a) PROVE WaitInv'
  BY <1>1, <1>7 DEF StopPusher, NewProducer, Started, TypeOK, stopEvent, peerVars
<1>8. ASSUME NEW a \in Producers, Assembler(a) PROVE WaitInv'
  <2>1. CASE GetReader(a) \/ Top(a) \/ Succeed(a)
    BY <1>1, <2>1 DEF GetReader, Top, Succeed, Goto, TypeOK, stopEvent, peerVars
  <2>2. CASE NoActivePeer(a)
    BY <2>2 DEF NoActivePeer, Goto, TypeOK, stopEvent, peerVars
  <2>3. CASE FailWhileRunning(a)
    BY <2>3 DEF FailWhileRunning, SerialIsFree, Goto, TypeOK, stopEvent, peerVars
  <2>4. CASE FailDuringStop(a)
    BY <2>4 DEF FailDuringStop, SerialIsFree, Goto, TypeOK, stopEvent
  <2>5. CASE Mark(a) \/ Schedule(a)
    BY <2>5 DEF Mark, Schedule, Goto, TypeOK, stopEvent, peerVars
  <2>6. CASE Switch(a)
    <3>1. \A b \in Producers : at[b] \in InSwitch => b = a
      BY <2>6 DEF Switch
    <3>2. active # NoPeer /\ serial' = NoProducer /\ UNCHANGED <<event, stop>>
      BY <2>6 DEF Switch
    <3>3. CASE active' = NoPeer
      BY <2>6, <3>1, <3>2, <3>3 DEF Switch, Goto, TypeOK
    <3>4. CASE active' # NoPeer
      <4>1. \E step \in {"open", "top"} : Goto(a, step)
        BY <2>6, <3>4 DEF Switch
      <4>2. QED BY <3>1, <3>2, <4>1 DEF Goto, TypeOK, stopEvent
    <3>5. QED BY <3>3, <3>4
  <2>7. CASE Awake(a)
    BY <2>7 DEF Awake, Goto, TypeOK, stopEvent, peerVars
  <2>8. CASE StopWaiting(a)
    BY <1>1, <2>8 DEF StopWaiting, Goto, TypeOK, stopEvent, peerVars
  <2>9. QED
    BY <1>8, <2>1, <2>2, <2>3, <2>4, <2>5, <2>6, <2>7, <2>8 DEF Assembler, Transfer
<1>9. ASSUME NEW p \in Peers, PeerDown(p) \/ PeerUp(p) PROVE WaitInv'
  BY <1>1, <1>9 DEF PeerDown, PeerUp, stopEvent, peerVars, asmVars
<1>10. ASSUME NEW p \in Peers, SwitchActivePeerAction(p) PROVE WaitInv'
  BY <1>10 DEF SwitchActivePeerAction, SerialIsFree, stopEvent, asmVars
<1>11. CASE UNCHANGED vars
  BY <1>1, <1>11 DEF vars, stopEvent, peerVars, asmVars
<1>12. QED
  BY <1>2, <1>3, <1>4, <1>5, <1>6, <1>7, <1>8, <1>9, <1>10, <1>11 DEF Next, Monitor, Stopping

\* No assembler waits for a notification that nobody will give, for any number
\* of assemblers and peers (DataSink::notifyValidPeer).
THEOREM WaitersWillBeNotified == Spec => []WaitersAreNotified
<1>1. Init => TypeOK /\ OrderInv /\ WaitInv
  BY InitTypes, InitOrder, InitWait
<1>2. TypeOK /\ OrderInv /\ WaitInv /\ [Next]_vars => (TypeOK /\ OrderInv /\ WaitInv)'
  BY TypeStep, OrderStep, WaitStep
<1>3. WaitInv => WaitersAreNotified
  BY DEF WaitInv, Notified, WaitersAreNotified
<1>4. QED
  BY <1>1, <1>2, <1>3, PTL DEF Spec

-----------------------------------------------------------------------------
(* The status of the peers.                                                *)

\* The sink has its peers and has not been told to stop.
Works == svc \notin {"begin", "peers"} /\ running

\* In a switch, once the peer in use is marked and until there is another one,
\* no peer is ACTIVE; the monitor may even find the marked one valid again.
BetweenSwitches == \A a \in Producers : at[a] \notin {"schedule", "switch"}

ActiveIsValid == Works /\ BetweenSwitches => active \in valid \cup {NoPeer}
StatusIsRight ==
    Works /\ nimm = 0 =>
        \A p \in Peers : /\ status[p] = "FAULTY" <=> p \notin valid
                         /\ status[p] = "ACTIVE" <=> BetweenSwitches /\ p = active
OneActiveAtFirst ==
    svc \in {"begin", "peers"} =>
        \A p, q \in Peers : status[p] = "ACTIVE" /\ status[q] = "ACTIVE" => p = q

StatusInv == ActiveIsValid /\ StatusIsRight /\ OneActiveAtFirst

\* The peers that the sink begins with.
LEMMA SetActivePeerStatus ==
    ASSUME TypeOK, OrderInv, StatusInv, SetActivePeer PROVE StatusInv'
<1> DEFINE was  == {p \in Peers : status[p] = "ACTIVE"}
           bad  == {p \in Peers : status[p] = "FAULTY"} \cup (was \ up)
           next == Peers \ bad
<1>1. /\ svc = "peers" /\ svc' = "producers"
      /\ BetweenSwitches' /\ \A p, q \in was : p = q
  BY DEF SetActivePeer, OrderInv, AssemblersAfterPeers, BetweenSwitches, asmVars, StatusInv,
         OneActiveAtFirst
<1> DEFINE Fits == /\ active' \in valid' \cup {NoPeer}
                   /\ nimm' = 0 =>
                        \A p \in Peers : /\ status'[p] = "FAULTY" <=> p \notin valid'
                                         /\ status'[p] = "ACTIVE" <=> p = active'
<1>2. SUFFICES Fits
  BY <1>1 DEF StatusInv, ActiveIsValid, StatusIsRight, OneActiveAtFirst
<1>3. ASSUME NEW p \in was \cap up, active' = p, valid' = Peers \ bad,
             SetStatus([q \in Peers |-> IF q \in bad THEN "FAULTY" ELSE status[q]])
      PROVE  Fits
  <2>1. nimm' = 0 => status' = [q \in Peers |-> IF q \in bad THEN "FAULTY" ELSE status[q]]
    <3>1. [q \in Peers |-> IF q \in bad THEN "FAULTY" ELSE status[q]] \in [Peers -> Statuses]
      BY DEF TypeOK, Statuses
    <3>2. QED BY <1>3, <3>1, SetStatusWrites
  <2>2. QED BY <1>1, <1>3, <2>1
<1>4. ASSUME NEW p \in next \cap up, NEW tried \in SUBSET (next \ up), was \cap up = {},
             active' = p, valid' = next \ tried,
             SetStatus([q \in Peers |-> CASE q = p -> "ACTIVE"
                                          [] q \in bad \cup tried -> "FAULTY"
                                          [] OTHER -> status[q]])
      PROVE  Fits
  <2>1. nimm' = 0 => status' = [q \in Peers |-> CASE q = p -> "ACTIVE"
                                                  [] q \in bad \cup tried -> "FAULTY"
                                                  [] OTHER -> status[q]]
    <3>1. [q \in Peers |-> CASE q = p -> "ACTIVE" [] q \in bad \cup tried -> "FAULTY"
                             [] OTHER -> status[q]] \in [Peers -> Statuses]
      BY DEF TypeOK, Statuses
    <3>2. QED BY <1>4, <3>1, SetStatusWrites
  <2>2. p \notin bad \cup tried /\ p \in Peers
    BY <1>4
  <2>3. QED BY <1>4, <2>1, <2>2
<1>5. ASSUME active' = NoPeer, valid' = {}, SetStatus([q \in Peers |-> "FAULTY"])
      PROVE  Fits
  <2>1. nimm' = 0 => status' = [q \in Peers |-> "FAULTY"]
    <3>1. [q \in Peers |-> "FAULTY"] \in [Peers -> Statuses]
      BY DEF Statuses
    <3>2. QED BY <1>5, <3>1, SetStatusWrites
  <2>2. QED BY <1>5, <2>1, SinkAssumption
<1>6. QED
  BY <1>3, <1>4, <1>5 DEF SetActivePeer

LEMMA StatusStep ==
    ASSUME TypeOK, OrderInv, WaitInv, StatusInv, [Next]_vars PROVE StatusInv'
<1> USE SinkAssumption DEF StatusInv, ActiveIsValid, StatusIsRight, OneActiveAtFirst, Works
<1>1. CASE /\ UNCHANGED <<valid, active, status, nimm>> /\ (Works' => Works)
           /\ (svc' \in {"begin", "peers"} => svc \in {"begin", "peers"})
           /\ BetweenSwitches' <=> BetweenSwitches
  BY <1>1
<1>2. CASE Task
  <2>1. CASE SetActivePeer
    BY <2>1, SetActivePeerStatus
  <2>2. CASE SinkBegin \/ GetProducers \/ Subscribe \/ StartMonitor
    BY <1>1, <2>2
    DEF SinkBegin, GetProducers, Subscribe, StartMonitor, BetweenSwitches, peerVars, asmVars
  <2>3. ASSUME NEW a \in Producers, StartAssembler(a) PROVE StatusInv'
    BY <1>1, <2>3 DEF StartAssembler, Started, TypeOK, OrderInv, NotStartedTwice,
                      BetweenSwitches, peerVars
  <2>4. QED BY <1>2, <2>1, <2>2, <2>3 DEF Task
<1>3. CASE KeepPusher \/ Timeout \/ GetMessage \/ Reschedule
  BY <1>1, <1>3
  DEF KeepPusher, Timeout, GetMessage, Reschedule, BetweenSwitches, peerVars, sinkVars, asmVars
<1>4. SerialIsFree => BetweenSwitches
  BY DEF SerialIsFree, BetweenSwitches, WaitInv, SwitchesAreSerial, InSwitch
<1>5. svc \in {"begin", "peers"} =>
        mon = "off" /\ \A a \in Producers : at[a] = "off"
  BY DEF OrderInv, MonitorIsStartedLast, AssemblersAfterPeers
<1>6. CASE NotifyValidPeer
  <2>1. /\ svc \notin {"begin", "peers"} /\ BetweenSwitches /\ BetweenSwitches'
        /\ UNCHANGED <<valid, svc, running>>
    BY <1>4, <1>5, <1>6 DEF NotifyValidPeer, BetweenSwitches, sinkVars
  <2>2. ASSUME NEW p \in valid, active' = p, active = NoPeer,
               SetStatus([status EXCEPT ![p] = "ACTIVE"])
        PROVE  StatusInv'
    <3>1. nimm' = 0 => nimm = 0 /\ status' = [status EXCEPT ![p] = "ACTIVE"]
      <4>1. [status EXCEPT ![p] = "ACTIVE"] \in [Peers -> Statuses]
        BY DEF TypeOK, Statuses
      <4>2. QED BY <2>2, <4>1, SetStatusWrites
    <3>2. QED BY <2>1, <2>2, <3>1 DEF TypeOK
  <2>3. CASE UNCHANGED <<active, status, nimm>>
    BY <1>1, <2>1, <2>3
  <2>4. QED BY <1>6, <2>2, <2>3 DEF NotifyValidPeer
<1>7. ASSUME NEW p \in Peers, Verify(p) PROVE StatusInv'
  <2>1. /\ svc \notin {"begin", "peers"} /\ BetweenSwitches' = BetweenSwitches
        /\ UNCHANGED <<active, svc, running>>
    BY <1>5, <1>7 DEF Verify, BetweenSwitches, sinkVars, asmVars
  <2>2. CASE p \in up /\ p \notin valid
    <3>1. valid' = valid \cup {p} /\ SetStatus([status EXCEPT ![p] = "PASSIVE"])
      BY <1>7, <2>2 DEF Verify
    <3>2. nimm' = 0 => nimm = 0 /\ status' = [status EXCEPT ![p] = "PASSIVE"]
      <4>1. [status EXCEPT ![p] = "PASSIVE"] \in [Peers -> Statuses]
        BY DEF TypeOK, Statuses
      <4>2. QED BY <3>1, <4>1, SetStatusWrites
    <3>3. QED BY <2>1, <2>2, <3>1, <3>2 DEF TypeOK
  <2>3. CASE ~(p \in up /\ p \notin valid)
    <3>1. UNCHANGED <<valid, status, nimm>>
      <4>1. CASE p \notin up
        BY <1>7, <4>1 DEF Verify
      <4>2. CASE p \in up /\ p \in valid
        <5>1. valid' = valid \cup {p} /\ UNCHANGED <<status, nimm>>
          BY <1>7, <4>2 DEF Verify
        <5>2. valid \cup {p} = valid
          BY <4>2
        <5>3. QED BY <5>1, <5>2
      <4>3. QED BY <2>3, <4>1, <4>2
    <3>2. QED BY <1>1, <2>1, <3>1
  <2>4. QED BY <2>2, <2>3
<1>8. CASE StopBegin
  BY <1>8 DEF StopBegin, peerVars
<1>9. CASE StopAllSurveillance \/ Unsubscribe \/ StopPushersEnd \/ StopEnd
  BY <1>1, <1>9 DEF StopAllSurveillance, Unsubscribe, StopPushersEnd, StopEnd,
                    BetweenSwitches, peerVars, sinkVars, asmVars
<1>10. ASSUME NEW a \in Producers, StopPusher(a) PROVE StatusInv'
  BY <1>1, <1>10 DEF StopPusher, BetweenSwitches, peerVars, sinkVars
<1>11. ASSUME NEW a \in Producers, NewProducer(a) PROVE StatusInv'
  BY <1>1, <1>11 DEF NewProducer, Started, TypeOK, OrderInv, NotStartedTwice,
                     BetweenSwitches, peerVars, sinkVars
<1>12. ASSUME NEW a \in Producers, Assembler(a) PROVE StatusInv'
  <2>0. svc \notin {"begin", "peers"} /\ UNCHANGED sinkVars
    BY <1>5, <1>12 DEF Assembler, Transfer, GetReader, Top, NoActivePeer, Succeed,
                       FailWhileRunning, FailDuringStop, Mark, Schedule, Switch, Awake,
                       StopWaiting
  <2>1. CASE /\ \E step : step \notin {"schedule", "switch"} /\ Goto(a, step)
             /\ at[a] \notin {"schedule", "switch"} /\ UNCHANGED peerVars
    BY <1>1, <2>0, <2>1 DEF Goto, TypeOK, BetweenSwitches, peerVars, sinkVars
  <2>2. CASE GetReader(a) \/ Top(a) \/ Awake(a) \/ StopWaiting(a)
    BY <2>1, <2>2 DEF GetReader, Top, Awake, StopWaiting
  <2>3. CASE NoActivePeer(a) \/ Succeed(a) \/ FailWhileRunning(a)
    BY <2>1, <2>3 DEF NoActivePeer, Succeed, FailWhileRunning
  <2>4. CASE FailDuringStop(a)
    BY <2>0, <2>4 DEF FailDuringStop, sinkVars
  <2>5. CASE Mark(a)
    <3>1. active \in Peers /\ BetweenSwitches /\ ~BetweenSwitches'
      BY <2>5 DEF Mark, Goto, TypeOK, WaitInv, SwitchesAreSerial, SwitchHasPeer, InSwitch,
                  BetweenSwitches
    <3>2. valid' = valid \ {active} /\ UNCHANGED <<active, svc, running>>
      BY <2>5 DEF Mark, sinkVars
    <3>3. CASE active \in valid
      <4>1. nimm' = 0 => nimm = 0 /\ status' = [status EXCEPT ![active] = "FAULTY"]
        <5>1. [status EXCEPT ![active] = "FAULTY"] \in [Peers -> Statuses]
          BY DEF TypeOK, Statuses
        <5>2. QED BY <2>5, <3>3, <5>1, SetStatusWrites DEF Mark
      <4>2. QED BY <2>0, <3>1, <3>2, <3>3, <4>1 DEF TypeOK
    <3>4. CASE active \notin valid
      BY <2>0, <3>1, <3>2, <3>4
    <3>5. QED BY <3>3, <3>4
  <2>6. CASE Schedule(a)
    <3>1. ~BetweenSwitches /\ ~BetweenSwitches' /\ UNCHANGED peerVars
      BY <2>6 DEF Schedule, Goto, TypeOK, BetweenSwitches
    <3>2. QED BY <1>1, <2>0, <3>1 DEF peerVars, sinkVars
  <2>7. CASE Switch(a)
    <3>1. ~BetweenSwitches /\ BetweenSwitches'
      <4>1. \A b \in Producers : b # a => at[b] \notin InSwitch
        BY <2>7 DEF Switch, WaitInv, SwitchesAreSerial, InSwitch
      <4>2. \E step \in {"open", "top", "wait"} : Goto(a, step)
        BY <2>7 DEF Switch
      <4>3. QED BY <2>7, <4>1, <4>2 DEF Switch, Goto, TypeOK, InSwitch, BetweenSwitches
    <3>2. valid' = valid
      BY <2>7 DEF Switch
    <3>3. ASSUME NEW p \in valid, active' = p, SetStatus([status EXCEPT ![p] = "ACTIVE"])
          PROVE  StatusInv'
      <4>1. nimm' = 0 => nimm = 0 /\ status' = [status EXCEPT ![p] = "ACTIVE"]
        <5>1. [status EXCEPT ![p] = "ACTIVE"] \in [Peers -> Statuses]
          BY DEF TypeOK, Statuses
        <5>2. QED BY <3>3, <5>1, SetStatusWrites
      <4>2. QED BY <2>0, <3>1, <3>2, <3>3, <4>1 DEF TypeOK, sinkVars
    <3>4. CASE active' = NoPeer /\ UNCHANGED <<status, nimm>>
      BY <2>0, <3>1, <3>2, <3>4 DEF sinkVars
    <3>5. QED BY <2>7, <3>3, <3>4 DEF Switch
  <2>8. QED
    BY <1>12, <2>2, <2>3, <2>4, <2>5, <2>6, <2>7 DEF Assembler, Transfer
<1>13. ASSUME NEW p \in Peers, PeerDown(p) \/ PeerUp(p) PROVE StatusInv'
  BY <1>1, <1>13 DEF PeerDown, PeerUp, BetweenSwitches, peerVars, sinkVars, asmVars
<1>14. ASSUME NEW p \in Peers, SwitchActivePeerAction(p) PROVE StatusInv'
  <2>1. /\ svc \notin {"begin", "peers"} /\ BetweenSwitches /\ BetweenSwitches'
        /\ active \in Peers /\ p \in valid /\ active' = p /\ UNCHANGED <<valid, sinkVars>>
    BY <1>4, <1>14 DEF SwitchActivePeerAction, BetweenSwitches, TypeOK, asmVars
  <2>2. nimm' = 0 =>
          nimm = 0 /\ status' = [status EXCEPT ![active] = "PASSIVE", ![p] = "ACTIVE"]
    <3>1. [status EXCEPT ![active] = "PASSIVE", ![p] = "ACTIVE"] \in [Peers -> Statuses]
      BY <2>1 DEF TypeOK, Statuses
    <3>2. QED BY <1>14, <3>1, SetStatusWrites DEF SwitchActivePeerAction
  <2>3. QED BY <2>1, <2>2 DEF TypeOK, sinkVars
<1>15. CASE UNCHANGED vars
  BY <1>1, <1>15 DEF vars, BetweenSwitches, peerVars, sinkVars, asmVars
<1>16. QED
  BY <1>2, <1>3, <1>6, <1>7, <1>8, <1>9, <1>10, <1>11, <1>12, <1>13, <1>14, <1>15
  DEF Next, Monitor, Stopping

\* The operator sees the truth: whenever no switch is under way in a sink that
\* works, files go to a valid peer, and unless a status could not be written it
\* is the ACTIVE one and the FAULTY ones are those under surveillance.
THEOREM StatusIsThatOfPeers == Spec => []StatusTellsPeers
<1>1. Init => TypeOK /\ OrderInv /\ WaitInv /\ StatusInv
  <2>1. ASSUME Init PROVE StatusInv
    BY <2>1 DEF Init, StatusInv, ActiveIsValid, StatusIsRight, OneActiveAtFirst, Works
  <2>2. QED BY <2>1, InitTypes, InitOrder, InitWait
<1>2. TypeOK /\ OrderInv /\ WaitInv /\ StatusInv /\ [Next]_vars
        => (TypeOK /\ OrderInv /\ WaitInv /\ StatusInv)'
  BY TypeStep, OrderStep, WaitStep, StatusStep
<1>3. TypeOK /\ WaitInv /\ StatusInv => StatusTellsPeers
  <2> SUFFICES ASSUME TypeOK, WaitInv, StatusInv, SerialIsFree,
                      svc \notin {"begin", "peers"}, running
               PROVE  /\ active # NoPeer => active \in valid
                      /\ nimm = 0 =>
                           /\ {p \in Peers : status[p] = "ACTIVE"} = {active} \ {NoPeer}
                           /\ {p \in Peers : status[p] = "FAULTY"} = Faulty
    BY DEF StatusTellsPeers
  <2>1. Works /\ BetweenSwitches
    BY SinkAssumption
    DEF Works, BetweenSwitches, SerialIsFree, WaitInv, SwitchesAreSerial, InSwitch
  <2>2. active \in valid \cup {NoPeer}
    BY <2>1 DEF StatusInv, ActiveIsValid
  <2>3. nimm = 0 => \A p \in Peers : /\ status[p] = "FAULTY" <=> p \notin valid
                                     /\ status[p] = "ACTIVE" <=> p = active
    BY <2>1 DEF StatusInv, StatusIsRight
  <2>4. QED BY <2>2, <2>3, SinkAssumption DEF Faulty, TypeOK
<1>4. QED
  BY <1>1, <1>2, <1>3, PTL DEF Spec

=============================================================================
