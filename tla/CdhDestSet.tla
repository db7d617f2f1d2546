----------------------------- MODULE CdhDestSet -----------------------------
(***************************************************************************)
(* One destination set of CDH (class TransDestSet): its primary, secondary *)
(* and backup destination, the one that is active, the thread that sends   *)
(* files to the active destination and fails over to the others, and the   *)
(* commands that change the set while a file is under way.                 *)
(*                                                                         *)
(* The thread starts a transfer and reads the active destination without   *)
(* transDestMutex.  A command that finds no transfer and then activates a  *)
(* destination is two actions, which a start can come between; the swap of *)
(* primary and secondary, which takes no mutex, is two as well.  Any other *)
(* command is one.  switchAgent and checkCon only reach the transfer       *)
(* agents and are left out.                                                *)
(***************************************************************************)
EXTENDS Naturals, FiniteSets

CONSTANTS
  Dests,        \* destinations that no other destination set uses
  NoDest,       \* a null pointer
  First,        \* the destinations the set is defined with, by slot
  MaxCommands,  \* bound on the operator's commands
  Impatient     \* whether commands may follow one that has not taken effect

Slots == {"prim", "sec", "back"}

ASSUME SetIsDefined ==
  /\ NoDest \notin Dests
  /\ First \in [Slots -> Dests \cup {NoDest}]
  /\ First["prim"] # NoDest
  /\ \A s, t \in Slots : First[s] = First[t] => s = t \/ First[s] = NoDest
  /\ MaxCommands \in Nat
  /\ Impatient \in BOOLEAN

VARIABLES
  slot,         \* primaryDest, secondaryDest, backupDest
  member,       \* the destinations whose destination set name is this one
  active,       \* activeDest
  activating,   \* what the command that holds the mutex makes active next, or NoDest
  newActive,    \* newActiveDest: the destination to activate after the transfer
  changeSlot,   \* changeDestPtr: the slot that newActive then goes to
  used,         \* usedDests: the slots tried and failed in this transfer
  inProgress,   \* transferInProgress
  phase,        \* where the transfer thread stands
  result,       \* rCode of the transfer
  swapping,     \* whether a swap of primary and secondary is half done
  commands,     \* number of commands so far
  tried,        \* history: destinations the file was sent to in this transfer
  retried,      \* history: whether one of them was tried a second time
  changed,      \* history: whether the set lost or got destinations meanwhile
  overtaken     \* history: whether a send was overtaken by a switch, or a fail-over by a swap

threadVars == <<phase, result, tried, retried>>
setVars    == <<slot, member, active, newActive, changeSlot>>
others     == <<used, inProgress, swapping, commands, changed, overtaken>>
vars       == <<setVars, activating, threadVars, others>>

InSet == {slot[s] : s \in Slots} \ {NoDest}

TypeOK ==
  /\ slot \in [Slots -> Dests \cup {NoDest}]
  /\ member \subseteq Dests
  /\ {active, activating, newActive} \cup tried \subseteq Dests \cup {NoDest}
  /\ changeSlot \in Slots \cup {"none"}
  /\ used \subseteq Slots
  /\ phase \in {"idle", "send", "sending", "failed", "end", "leave", "dead"}
  /\ result \in {"none", "OK", "error", "other", "stopped"}
  /\ {inProgress, swapping, retried, changed, overtaken} \subseteq BOOLEAN
  /\ commands \in 0..MaxCommands

(* TransDestSet::define *)
Init ==
  /\ slot = First
  /\ member = {First[s] : s \in Slots} \ {NoDest}
  /\ active = First["prim"] /\ activating = NoDest
  /\ newActive = NoDest
  /\ changeSlot = "none"
  /\ used = {}
  /\ inProgress = FALSE
  /\ phase = "idle" /\ result = "none"
  /\ swapping = FALSE
  /\ commands = 0
  /\ tried = {} /\ retried = FALSE
  /\ changed = FALSE /\ overtaken = FALSE

-----------------------------------------------------------------------------
(* The transfer thread: intSendFile.                                       *)

(* A file is taken from the queue of the thread. *)
Begin ==
  /\ phase = "idle"
  /\ phase' = "send"
  /\ used' = {}
  /\ inProgress' = TRUE
  /\ result' = "none"
  /\ tried' = {} /\ retried' = FALSE
  /\ changed' = FALSE
  /\ overtaken' = swapping
  /\ UNCHANGED <<setVars, activating, swapping, commands>>

(* The file goes to the destination that is active now. *)
Send ==
  /\ phase = "send"
  /\ phase' = "sending"
  /\ tried' = tried \cup {active}
  /\ retried' = (retried \/ active \in tried)
  /\ overtaken' = (overtaken \/ activating # NoDest)
  /\ UNCHANGED <<setVars, activating, result, used, inProgress, swapping, commands, changed>>

(* The destination took the file, refused it for a reason that another     *)
(* destination would share, or was interrupted by a stop; or it could not  *)
(* be reached, or the connection broke.                                    *)
Reply(to, rCode) ==
  /\ phase = "sending"
  /\ phase' = to
  /\ result' = rCode
  /\ UNCHANGED <<setVars, activating, tried, retried, others>>

Answered == \E rCode \in {"OK", "other", "stopped"} : Reply("end", rCode)
NotAnswered == Reply("failed", "error")

(* The user has stopped the transfer, before it began or during the        *)
(* attempt that has failed (checkStopFlag).                                *)
StopSeen ==
  /\ phase = "failed" \/ (phase = "send" /\ tried = {})
  /\ phase' = "end"
  /\ result' = "stopped"
  /\ UNCHANGED <<setVars, activating, tried, retried, others>>

(* The slots to try after each slot, in the order of switchDestAuto. *)
Others(s) == CASE s = "prim" -> <<"sec", "back">>
               [] s = "sec"  -> <<"back", "prim">>
               [] s = "back" -> <<"prim", "sec">>

Fresh(s) == slot[s] # NoDest /\ s \notin used

(* The slot of the active destination: whatever is neither primary nor     *)
(* secondary counts as backup.                                             *)
ActiveSlot == IF active = slot["prim"] THEN "prim"
              ELSE IF active = slot["sec"] THEN "sec" ELSE "back"

TriedNone(s) == used    \* mutant: a destination that failed is not marked
Tried(s) == used \cup {s}

(* switchDestAuto: on to a destination that has not been tried, if any. *)
SwitchDestAuto ==
  /\ phase = "failed" /\ activating = NoDest
  /\ LET next == Others(ActiveSlot)
     IN \/ \E i \in 1..2 :
             /\ Fresh(next[i])
             /\ i = 2 => ~Fresh(next[1])
             /\ active' = slot[next[i]]
             /\ used' = Tried(ActiveSlot)
             /\ phase' = "send"
        \/ /\ ~Fresh(next[1]) /\ ~Fresh(next[2])
           /\ used' = {}
           /\ phase' = "end"
           /\ UNCHANGED active
  /\ overtaken' = (overtaken \/ swapping)
  /\ UNCHANGED <<slot, member, newActive, changeSlot, activating, inProgress, result,
                 tried, retried, swapping, commands, changed>>

(* What a slot's new destination changes in the names of the destinations, *)
(* and what becomes of a deferred change once it is done.                  *)
Renamed(old, new) == (member \ {old}) \cup {new}
ChangeKept == changeSlot    \* mutant: the change is not cleared
ChangeDone == "none"

(* switchDestManual: the change of the active destination that waited for  *)
(* the transfer.  A slot that was emptied meanwhile is a null pointer.     *)
SwitchDestManual ==
  /\ phase = "end" /\ activating = NoDest
  /\ IF newActive # NoDest /\ changeSlot # "none" /\ slot[changeSlot] = NoDest
     THEN phase' = "dead" /\ UNCHANGED setVars
     ELSE /\ phase' = "leave"
          /\ IF newActive = NoDest
             THEN UNCHANGED <<slot, member, active>>
             ELSE /\ active' = newActive
                  /\ IF changeSlot = "none"
                     THEN UNCHANGED <<slot, member>>
                     ELSE /\ slot' = [slot EXCEPT ![changeSlot] = newActive]
                          /\ member' = Renamed(slot[changeSlot], newActive)
          /\ newActive' = NoDest
          /\ changeSlot' = ChangeDone
  /\ UNCHANGED <<activating, result, tried, retried, others>>

(* transferInProgress is cleared without the mutex, after the change. *)
Leave ==
  /\ phase = "leave"
  /\ phase' = "idle"
  /\ inProgress' = FALSE
  /\ UNCHANGED <<setVars, activating, result, tried, retried, used, swapping, commands,
                 changed, overtaken>>

-----------------------------------------------------------------------------
(* The operator's commands.  A patient operator changes nothing while a    *)
(* change waits for the end of a transfer, and while a switch waits gives  *)
(* only commands that do not replace a destination.                        *)
Command(replaces) ==
  /\ commands < MaxCommands
  /\ commands' = commands + 1
  /\ ~swapping /\ activating = NoDest
  /\ phase # "dead"
  /\ \/ Impatient
     \/ newActive = NoDest
     \/ changeSlot = "none" /\ ~replaces

(* switchDestination: after the transfer that is in progress, or at once.  *)
SwitchDestination(d) ==
  /\ Command(FALSE)
  /\ d \in member
  /\ IF d = active THEN UNCHANGED <<newActive, activating>>
     ELSE IF inProgress THEN newActive' = d /\ UNCHANGED activating
     ELSE activating' = d /\ UNCHANGED newActive
  /\ UNCHANGED <<slot, member, active, changeSlot, threadVars, used, inProgress,
                 swapping, changed, overtaken>>

(* At once is not at the same time: a transfer may have started since the  *)
(* command looked for one.                                                 *)
Activate ==
  /\ activating # NoDest
  /\ active' = activating
  /\ activating' = NoDest
  /\ UNCHANGED <<slot, member, newActive, changeSlot, threadVars, others>>

(* changeAttr with a slot that is empty. *)
AddDestination(s, d) ==
  /\ slot[s] = NoDest
  /\ Command(TRUE)
  /\ d \notin member
  /\ slot' = [slot EXCEPT ![s] = d]
  /\ member' = member \cup {d}
  /\ changed' = TRUE
  /\ UNCHANGED <<active, activating, newActive, changeSlot, threadVars, used, inProgress,
                 swapping, overtaken>>

(* changeAttr with a slot in use: the active destination of a transfer is  *)
(* replaced when the transfer is over, otherwise after its slot.           *)
Deferred(s) == inProgress /\ slot[s] = active

ChangeDestination(s, d) ==
  /\ slot[s] # NoDest
  /\ Command(TRUE)
  /\ d \notin member
  /\ IF Deferred(s)
     THEN /\ changeSlot' = s
          /\ newActive' = d
          /\ UNCHANGED <<slot, member, activating, changed>>
     ELSE /\ slot' = [slot EXCEPT ![s] = d]
          /\ member' = Renamed(slot[s], d)
          /\ activating' = IF active = slot[s] THEN d ELSE NoDest
          /\ changed' = TRUE
          /\ UNCHANGED <<newActive, changeSlot>>
  /\ UNCHANGED <<active, threadVars, used, inProgress, swapping, overtaken>>

(* changeAttr without names: primary and secondary change places. *)
SwapSlots ==
  /\ slot["sec"] # NoDest
  /\ Command(FALSE)
  /\ slot' = [slot EXCEPT !["prim"] = slot["sec"], !["sec"] = slot["prim"]]
  /\ swapping' = TRUE
  /\ UNCHANGED <<member, active, activating, newActive, changeSlot, threadVars, used,
                 inProgress, changed, overtaken>>

SwappedSlotsOnly(s) == s    \* mutant: the marks stay with the slots
Swapped(s) == CASE s = "prim" -> "sec" [] s = "sec" -> "prim" [] s = "back" -> "back"

(* Their marks change places only after the set has been saved. *)
SwapUsed ==
  /\ swapping
  /\ used' = {Swapped(s) : s \in used}
  /\ swapping' = FALSE
  /\ UNCHANGED <<setVars, activating, threadVars, inProgress, commands, changed, overtaken>>

ForgetNothing(d) == newActive    \* mutant: the switch to it stays pending
Forget(d) == IF newActive = d THEN NoDest ELSE newActive

(* removeDestination: neither the primary nor the active destination. *)
RemoveDestination(s) ==
  /\ s \in {"sec", "back"}
  /\ slot[s] \notin {NoDest, active, slot["prim"]}
  /\ Command(FALSE)
  /\ newActive' = Forget(slot[s])
  /\ slot' = [slot EXCEPT ![s] = NoDest]
  /\ member' = member \ {slot[s]}
  /\ changed' = TRUE
  /\ UNCHANGED <<active, activating, changeSlot, threadVars, used, inProgress, swapping, overtaken>>

-----------------------------------------------------------------------------
Thread == \/ Begin \/ Send \/ Answered \/ NotAnswered \/ StopSeen
          \/ SwitchDestAuto \/ SwitchDestManual \/ Leave

Operator ==
  \/ SwapSlots
  \/ \E d \in Dests : SwitchDestination(d)
  \/ \E s \in Slots : RemoveDestination(s)
  \/ \E s \in Slots, d \in Dests : AddDestination(s, d) \/ ChangeDestination(s, d)

Next == Thread \/ SwapUsed \/ Activate \/ Operator

Spec == Init /\ [][Next]_vars

(* A send to a destination ends, the thread goes on after every step, and  *)
(* so does the command that has begun to swap or to activate.              *)
FairSpec ==
  /\ Spec
  /\ WF_vars(Send) /\ WF_vars(Answered \/ NotAnswered)
  /\ WF_vars(StopSeen \/ SwitchDestAuto)
  /\ WF_vars(SwitchDestManual) /\ WF_vars(Leave)
  /\ WF_vars(SwapUsed) /\ WF_vars(Activate)

-----------------------------------------------------------------------------
(* Through fail-over, switches, deferred changes and removals the active   *)
(* destination stays one of the three, except while the command that       *)
(* changed its slot has yet to activate the new one.                       *)
ActiveBelongsToSet == activating = NoDest => active \in InSet

(* The name of the set is entered in exactly the destinations it uses: no  *)
(* destination of the set is free for another set or for deletion, and     *)
(* none that has left the set stays blocked.                               *)
MembersAreInSlots == member = InSet

(* No destination takes two places of the set. *)
NoDestinationTwice ==
  \A s, t \in Slots : slot[s] = slot[t] /\ slot[s] # NoDest => s = t

(* A file is given up only after every destination of the set has been     *)
(* tried, and none is tried twice, with deferred switches and swaps during *)
(* the transfer; unless the set lost or got destinations meanwhile, or the *)
(* thread and a command overtook each other: a swap under way at the start *)
(* or at a fail-over, or a switch or change that found no transfer and     *)
(* activates its destination after the thread has read the old one.        *)
AllTriedBeforeGivingUp ==
  ~changed /\ ~overtaken =>
    /\ phase = "end" /\ result = "error" => tried = InSet
    /\ ~retried

(* "All existing destinations in the destination set have been used once"  *)
(* (transdestset.cpp, switchDestAuto): false when they overtake each       *)
(* other, and in no run.                                                   *)
AllExistingUsed ==
  ~changed /\ phase = "end" /\ result = "error" => InSet \subseteq tried

(* Every transfer comes to an end, whichever destinations fail and         *)
(* whatever the operator changes.                                          *)
TransferEnds == phase = "send" ~> phase \in {"idle", "dead"}

=============================================================================
