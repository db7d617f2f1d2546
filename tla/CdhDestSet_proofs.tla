-------------------------- MODULE CdhDestSet_proofs --------------------------
(***************************************************************************)
(* Proofs about CdhDestSet: type correctness for any operator; and, for an *)
(* operator that lets a deferred change take effect before the next one,   *)
(* that the active destination stays in the set, that no destination takes *)
(* two places and that a transfer fails over to every destination once.    *)
(***************************************************************************)
EXTENDS CdhDestSet, TLAPS

TypeInv ==
  /\ slot \in [Slots -> Dests \cup {NoDest}]
  /\ member \subseteq Dests
  /\ active \in Dests \cup {NoDest} /\ newActive \in Dests \cup {NoDest}
  /\ activating \in Dests \cup {NoDest}
  /\ tried \subseteq Dests \cup {NoDest}
  /\ changeSlot \in Slots \cup {"none"}
  /\ used \subseteq Slots
  /\ phase \in {"idle", "send", "sending", "failed", "end", "leave", "dead"}
  /\ result \in {"none", "OK", "error", "other", "stopped"}
  /\ inProgress \in BOOLEAN /\ swapping \in BOOLEAN /\ retried \in BOOLEAN
  /\ changed \in BOOLEAN /\ overtaken \in BOOLEAN
  /\ commands \in 0..MaxCommands

-----------------------------------------------------------------------------
(* The set.  A switch that waits for the end of the transfer is to a       *)
(* destination of the set, and so is what a command is about to activate;  *)
(* a change that waits brings in one that is not yet of the set, in a slot *)
(* that is in use.                                                         *)
PendingSwitch == newActive # NoDest /\ changeSlot = "none"

PendingIsPossible ==
  /\ PendingSwitch => newActive \in InSet
  /\ activating # NoDest => activating \in InSet
  /\ changeSlot # "none" =>
       newActive # NoDest /\ newActive \notin member /\ slot[changeSlot] # NoDest

SetInv == /\ NoDestinationTwice /\ MembersAreInSlots /\ ActiveBelongsToSet
          /\ PendingIsPossible

-----------------------------------------------------------------------------
(* The transfer.                                                           *)

(* The slots whose destinations have been tried and have failed: while a   *)
(* swap is half done their marks still have the old places.                *)
Marked == IF swapping THEN {Swapped(s) : s \in used} ELSE used
Failed == {slot[s] : s \in Marked}

InTransfer == phase \in {"send", "sending", "failed", "end", "leave"}

Undisturbed == ~changed /\ ~overtaken

TransferInv ==
  /\ InTransfer => inProgress
  /\ phase = "send" /\ activating # NoDest => tried = {}
  /\ phase = "failed" => result = "error"
  /\ Undisturbed =>
       /\ ~retried
       /\ phase = "send" => tried = Failed /\ NoDest \notin tried
       /\ phase = "send" => active \notin tried
       /\ phase \in {"sending", "failed"} =>
            activating = NoDest /\ tried = Failed \cup {active} /\ NoDest \notin tried
       /\ phase = "end" /\ result = "error" => tried = InSet

-----------------------------------------------------------------------------
(* Slots.                                                                  *)

\* The slots to try after a slot are the two others.
LEMMA OthersAreOthers ==
    ASSUME NEW s \in Slots
    PROVE  /\ Others(s)[1] \in Slots /\ Others(s)[2] \in Slots
           /\ Others(s)[1] # s /\ Others(s)[2] # s
           /\ \A t \in Slots : t = s \/ t = Others(s)[1] \/ t = Others(s)[2]
<1>1. CASE s = "prim"
  BY <1>1 DEF Slots, Others
<1>2. CASE s = "sec"
  BY <1>2 DEF Slots, Others
<1>3. CASE s = "back"
  BY <1>3 DEF Slots, Others
<1> QED BY <1>1, <1>2, <1>3 DEF Slots

\* Swapping is its own inverse.
LEMMA SwappedTwice ==
    ASSUME NEW s \in Slots
    PROVE  Swapped(s) \in Slots /\ Swapped(Swapped(s)) = s
<1>1. CASE s = "prim"
  BY <1>1 DEF Slots, Swapped
<1>2. CASE s = "sec"
  BY <1>2 DEF Slots, Swapped
<1>3. CASE s = "back"
  BY <1>3 DEF Slots, Swapped
<1> QED BY <1>1, <1>2, <1>3 DEF Slots

\* The active destination is the one in its slot.
LEMMA ActiveInItsSlot ==
    ASSUME TypeInv
    PROVE  /\ ActiveSlot \in Slots
           /\ ActiveBelongsToSet /\ activating = NoDest =>
                slot[ActiveSlot] = active /\ active # NoDest
BY DEF TypeInv, ActiveSlot, Slots, ActiveBelongsToSet, InSet

-----------------------------------------------------------------------------
(* Types.                                                                  *)

LEMMA TypesHold == TypeInv => TypeOK
BY DEF TypeInv, TypeOK

LEMMA TypeInit == Init => TypeInv
<1> SUFFICES ASSUME Init PROVE TypeInv
  OBVIOUS
<1>1. "prim" \in Slots
  BY DEF Slots
<1>2. slot \in [Slots -> Dests \cup {NoDest}] /\ active \in Dests /\ activating = NoDest
  BY <1>1, SetIsDefined DEF Init
<1>3. member \subseteq Dests
  BY SetIsDefined DEF Init
<1>4. commands \in 0 .. MaxCommands
  BY SetIsDefined DEF Init
<1> QED BY <1>2, <1>3, <1>4 DEF Init, TypeInv

LEMMA CommandCounted ==
    ASSUME TypeInv, NEW replaces, Command(replaces)
    PROVE  commands' \in 0 .. MaxCommands
BY SetIsDefined DEF TypeInv, Command

\* The thread.
LEMMA ThreadType == ASSUME TypeInv, Thread PROVE TypeInv'
<1>1. CASE Begin
  BY <1>1 DEF TypeInv, Begin, setVars
<1>2. CASE Send
  BY <1>2 DEF TypeInv, Send, setVars
<1>3. CASE Answered \/ NotAnswered
  BY <1>3 DEF TypeInv, Answered, NotAnswered, Reply, setVars, others
<1>4. CASE StopSeen
  BY <1>4 DEF TypeInv, StopSeen, setVars, others
<1>5. CASE SwitchDestAuto
  <2>1. ActiveSlot \in Slots
    BY ActiveInItsSlot
  <2>2. used' \subseteq Slots /\ phase' \in {"send", "end"} /\ overtaken' \in BOOLEAN
    BY <1>5, <2>1 DEF SwitchDestAuto, Tried, TypeInv
  <2>3. active' \in Dests \cup {NoDest}
    <3>1. active' = active \/ \E s \in Slots : active' = slot[s]
      BY <1>5, <2>1, OthersAreOthers DEF SwitchDestAuto
    <3> QED BY <3>1 DEF TypeInv
  <2>4. UNCHANGED <<slot, member, newActive, changeSlot, activating, inProgress, result,
                    tried, retried, swapping, commands, changed>>
    BY <1>5 DEF SwitchDestAuto
  <2> QED BY <2>2, <2>3, <2>4 DEF TypeInv
<1>6. CASE SwitchDestManual
  <2>1. phase' \in {"dead", "leave"}
        /\ UNCHANGED <<activating, result, tried, retried, others>>
    BY <1>6 DEF SwitchDestManual
  <2>2. CASE UNCHANGED setVars
    BY <2>1, <2>2 DEF TypeInv, setVars, others
  <2>3. CASE ~ UNCHANGED setVars
    <3>1. /\ newActive' = NoDest /\ changeSlot' = "none"
          /\ active' \in {active, newActive}
          /\ \/ slot' = slot /\ member' = member
             \/ /\ newActive # NoDest /\ changeSlot # "none"
                /\ slot' = [slot EXCEPT ![changeSlot] = newActive]
                /\ member' = Renamed(slot[changeSlot], newActive)
      BY <1>6, <2>3 DEF SwitchDestManual, ChangeDone
    <3>2. slot' \in [Slots -> Dests \cup {NoDest}]
      BY <3>1 DEF TypeInv
    <3>3. member' \subseteq Dests
      BY <3>1 DEF TypeInv, Renamed
    <3> QED BY <2>1, <3>1, <3>2, <3>3 DEF TypeInv, others
  <2> QED BY <2>2, <2>3
<1>7. CASE Leave
  BY <1>7 DEF TypeInv, Leave, setVars
<1> QED BY <1>1, <1>2, <1>3, <1>4, <1>5, <1>6, <1>7 DEF Thread

LEMMA ActivateType == ASSUME TypeInv, Activate PROVE TypeInv'
BY DEF TypeInv, Activate, threadVars, others

LEMMA SwapUsedType == ASSUME TypeInv, SwapUsed PROVE TypeInv'
<1>1. used' \subseteq Slots
  BY SwappedTwice DEF TypeInv, SwapUsed
<1>2. /\ swapping' \in BOOLEAN
      /\ UNCHANGED <<slot, member, active, newActive, changeSlot, activating, phase, result,
                     tried, retried, inProgress, commands, changed, overtaken>>
  BY DEF SwapUsed, setVars, threadVars
<1> QED BY <1>1, <1>2 DEF TypeInv

\* The operator.
LEMMA OperatorType == ASSUME TypeInv, Operator PROVE TypeInv'
<1>1. commands' \in 0 .. MaxCommands
  BY CommandCounted
  DEF Operator, SwapSlots, SwitchDestination, RemoveDestination, AddDestination, ChangeDestination
<1>2. CASE SwapSlots
  <2>1. slot' \in [Slots -> Dests \cup {NoDest}]
    BY <1>2 DEF TypeInv, SwapSlots, Slots
  <2> QED BY <1>1, <1>2, <2>1 DEF TypeInv, SwapSlots, threadVars
<1>3. ASSUME NEW d \in Dests, SwitchDestination(d) PROVE TypeInv'
  BY <1>1, <1>3 DEF TypeInv, SwitchDestination, threadVars
<1>4. ASSUME NEW s \in Slots, RemoveDestination(s) PROVE TypeInv'
  <2>1. slot' \in [Slots -> Dests \cup {NoDest}] /\ newActive' \in Dests \cup {NoDest}
    BY <1>4 DEF TypeInv, RemoveDestination, Forget
  <2> QED BY <1>1, <1>4, <2>1 DEF TypeInv, RemoveDestination, threadVars
<1>5. ASSUME NEW s \in Slots, NEW d \in Dests, AddDestination(s, d) PROVE TypeInv'
  <2>1. slot' \in [Slots -> Dests \cup {NoDest}]
    BY <1>5 DEF TypeInv, AddDestination
  <2> QED BY <1>1, <1>5, <2>1 DEF TypeInv, AddDestination, threadVars
<1>6. ASSUME NEW s \in Slots, NEW d \in Dests, ChangeDestination(s, d) PROVE TypeInv'
  <2>1. slot' \in [Slots -> Dests \cup {NoDest}]
    BY <1>6 DEF TypeInv, ChangeDestination
  <2>2. member' \subseteq Dests
    BY <1>6 DEF TypeInv, ChangeDestination, Renamed
  <2>3. activating' \in Dests \cup {NoDest} /\ newActive' \in Dests \cup {NoDest}
        /\ changeSlot' \in Slots \cup {"none"} /\ changed' \in BOOLEAN
    BY <1>6 DEF TypeInv, ChangeDestination
  <2> QED BY <1>1, <1>6, <2>1, <2>2, <2>3 DEF TypeInv, ChangeDestination, threadVars
<1> QED BY <1>2, <1>3, <1>4, <1>5, <1>6 DEF Operator

LEMMA TypeStep == TypeInv /\ [Next]_vars => TypeInv'
<1> SUFFICES ASSUME TypeInv, [Next]_vars PROVE TypeInv'
  OBVIOUS
<1>1. CASE UNCHANGED vars
  BY <1>1 DEF vars, setVars, threadVars, others, TypeInv
<1> QED BY <1>1, ThreadType, SwapUsedType, ActivateType, OperatorType DEF Next

\* Every variable keeps its type, however impatient the operator is.
THEOREM TypeCorrect == Spec => []TypeOK
<1> QED BY TypeInit, TypeStep, TypesHold, PTL DEF Spec

-----------------------------------------------------------------------------
(* The set.                                                                *)

LEMMA SetKept == ASSUME SetInv, UNCHANGED <<setVars, activating>> PROVE SetInv'
BY DEF SetInv, NoDestinationTwice, MembersAreInSlots, ActiveBelongsToSet, PendingIsPossible,
       PendingSwitch, InSet, setVars

\* A patient operator gives no command while a change waits, and none that replaces a
\* destination while a switch waits.
LEMMA PatientCommand ==
    ASSUME ~Impatient, SetInv, NEW replaces \in BOOLEAN, Command(replaces)
    PROVE  changeSlot = "none" /\ activating = NoDest /\ (replaces => newActive = NoDest)
BY DEF SetInv, PendingIsPossible, Command

\* A destination that is new to the set takes the place of another, or a free slot.
LEMMA SlotReplaced ==
    ASSUME TypeInv, NoDestinationTwice, MembersAreInSlots,
           NEW s \in Slots, NEW d \in Dests, d \notin member,
           slot' = [slot EXCEPT ![s] = d], member' = Renamed(slot[s], d)
    PROVE  /\ NoDestinationTwice' /\ MembersAreInSlots' /\ d \in InSet'
           /\ \A t \in Slots : t # s /\ slot[t] # NoDest => slot[t] \in InSet'
<1>1. slot \in [Slots -> Dests \cup {NoDest}] /\ member = InSet /\ NoDest \notin Dests
  BY SetIsDefined DEF TypeInv, MembersAreInSlots
<1>2. slot'[s] = d /\ \A t \in Slots \ {s} : slot'[t] = slot[t] /\ slot[t] # d
  BY <1>1 DEF InSet
<1>3. NoDestinationTwice'
  BY <1>1, <1>2 DEF NoDestinationTwice
<1>4. d \in InSet' /\ \A t \in Slots : t # s /\ slot[t] # NoDest => slot[t] \in InSet'
  BY <1>1, <1>2 DEF InSet
<1>5. member' \subseteq InSet'
  BY <1>1, <1>4 DEF Renamed, InSet
<1>6. InSet' \subseteq member'
  <2> SUFFICES ASSUME NEW t \in Slots, slot'[t] # NoDest PROVE slot'[t] \in member'
    BY DEF InSet
  <2>1. CASE t = s
    BY <1>2, <2>1 DEF Renamed
  <2>2. CASE t # s
    <3>1. slot'[t] = slot[t] /\ slot[t] \in InSet
      BY <1>2, <2>2 DEF InSet
    <3>2. slot[t] # slot[s]
      BY <1>2, <2>2 DEF NoDestinationTwice
    <3> QED BY <1>1, <3>1, <3>2 DEF Renamed
  <2> QED BY <2>1, <2>2
<1> QED BY <1>3, <1>4, <1>5, <1>6 DEF MembersAreInSlots

\* Fail-over goes to a destination of the set.
LEMMA SwitchDestAutoSet == ASSUME TypeInv, SetInv, SwitchDestAuto PROVE SetInv'
<1>1. UNCHANGED <<slot, member, newActive, changeSlot, activating>> /\ activating = NoDest
  BY DEF SwitchDestAuto
<1>2. ActiveSlot \in Slots
  BY ActiveInItsSlot
<1>3. active' = active \/ \E s \in Slots : active' = slot[s] /\ slot[s] # NoDest
  BY <1>2, OthersAreOthers DEF SwitchDestAuto, Fresh
<1>4. ActiveBelongsToSet'
  BY <1>1, <1>3 DEF SetInv, ActiveBelongsToSet, InSet
<1> QED BY <1>1, <1>4
    DEF SetInv, NoDestinationTwice, MembersAreInSlots, PendingIsPossible, PendingSwitch, InSet

\* The change that waited takes effect; the thread does not fail on it.
LEMMA SwitchDestManualSet ==
    ASSUME TypeInv, SetInv, SwitchDestManual
    PROVE  SetInv' /\ phase' = "leave"
<1>1. ~ (newActive # NoDest /\ changeSlot # "none" /\ slot[changeSlot] = NoDest)
  BY DEF SetInv, PendingIsPossible
<1>2. phase' = "leave" /\ newActive' = NoDest /\ changeSlot' = "none"
      /\ activating = NoDest /\ activating' = NoDest
      /\ active' = IF newActive = NoDest THEN active ELSE newActive
  BY <1>1 DEF SwitchDestManual, ChangeDone
<1>3. PendingIsPossible'
  BY <1>2 DEF PendingIsPossible, PendingSwitch
<1>4. CASE newActive = NoDest \/ changeSlot = "none"
  <2>1. slot' = slot /\ member' = member
    BY <1>1, <1>4 DEF SwitchDestManual
  <2>2. active' \in InSet
    BY <1>2, <1>4 DEF SetInv, ActiveBelongsToSet, PendingIsPossible, PendingSwitch
  <2> QED BY <1>2, <1>3, <2>1, <2>2
      DEF SetInv, NoDestinationTwice, MembersAreInSlots, ActiveBelongsToSet, InSet
<1>5. CASE newActive # NoDest /\ changeSlot # "none"
  <2>1. /\ slot' = [slot EXCEPT ![changeSlot] = newActive]
        /\ member' = Renamed(slot[changeSlot], newActive)
        /\ active' = newActive
    BY <1>1, <1>5 DEF SwitchDestManual
  <2>2. newActive \in Dests /\ newActive \notin member /\ changeSlot \in Slots
    BY <1>5 DEF TypeInv, SetInv, PendingIsPossible
  <2>3. NoDestinationTwice' /\ MembersAreInSlots' /\ newActive \in InSet'
    BY <2>1, <2>2, SlotReplaced DEF SetInv
  <2> QED BY <1>2, <1>3, <2>1, <2>3 DEF SetInv, ActiveBelongsToSet
<1> QED BY <1>4, <1>5

LEMMA SwitchDestinationSet ==
    ASSUME TypeInv, SetInv, ~Impatient, NEW d \in Dests, SwitchDestination(d)
    PROVE  SetInv'
<1>1. changeSlot = "none" /\ d \in InSet
  BY PatientCommand DEF SwitchDestination, SetInv, MembersAreInSlots
<1>2. UNCHANGED <<slot, member, active, changeSlot>>
      /\ newActive' \in {newActive, d} /\ activating' \in {NoDest, d} /\ activating = NoDest
  BY DEF SwitchDestination, Command
<1>3. PendingIsPossible'
  BY <1>1, <1>2 DEF SetInv, PendingIsPossible, PendingSwitch, InSet
<1> QED BY <1>1, <1>2, <1>3
    DEF SetInv, NoDestinationTwice, MembersAreInSlots, ActiveBelongsToSet, InSet

\* What is activated is of the set.
LEMMA ActivateSet == ASSUME SetInv, Activate PROVE SetInv'
BY DEF SetInv, Activate, NoDestinationTwice, MembersAreInSlots, ActiveBelongsToSet, PendingIsPossible,
       PendingSwitch, InSet

\* Swapping two slots leaves the set as it is.
LEMMA SwapInSet ==
    ASSUME TypeInv, SwapSlots
    PROVE  InSet' = InSet /\ \A s \in Slots : slot'[s] = slot[Swapped(s)]
<1>1. \A s \in Slots : slot'[s] = slot[Swapped(s)]
  BY DEF TypeInv, SwapSlots, Slots, Swapped
<1>2. \A s \in Slots : slot[s] = slot'[Swapped(s)]
  BY <1>1, SwappedTwice
<1> QED BY <1>1, <1>2, SwappedTwice DEF InSet

LEMMA SwapSlotsSet == ASSUME TypeInv, SetInv, ~Impatient, SwapSlots PROVE SetInv'
<1>1. changeSlot = "none" /\ activating = NoDest
      /\ UNCHANGED <<member, active, activating, newActive, changeSlot>>
  BY PatientCommand DEF SwapSlots
<1>2. InSet' = InSet /\ \A s \in Slots : slot'[s] = slot[Swapped(s)]
  BY SwapInSet
<1>3. NoDestinationTwice'
  <2> SUFFICES ASSUME NEW s \in Slots, NEW t \in Slots, slot'[s] = slot'[t], slot'[s] # NoDest
               PROVE  s = t
    BY DEF NoDestinationTwice
  <2>1. Swapped(s) = Swapped(t)
    BY <1>2, SwappedTwice DEF SetInv, NoDestinationTwice
  <2> QED BY <2>1, SwappedTwice
<1> QED BY <1>1, <1>2, <1>3
    DEF SetInv, MembersAreInSlots, ActiveBelongsToSet, PendingIsPossible, PendingSwitch

\* What is removed is not the active destination, and no switch to it stays behind.
LEMMA RemoveDestinationSet ==
    ASSUME TypeInv, SetInv, ~Impatient, NEW s \in Slots, RemoveDestination(s)
    PROVE  SetInv'
<1>1. changeSlot = "none" /\ activating = NoDest /\ UNCHANGED <<active, activating, changeSlot>>
      /\ slot[s] \notin {NoDest, active}
      /\ slot' = [slot EXCEPT ![s] = NoDest] /\ member' = member \ {slot[s]}
      /\ newActive' = IF newActive = slot[s] THEN NoDest ELSE newActive
  BY PatientCommand DEF RemoveDestination, Forget
<1>2. slot'[s] = NoDest /\ \A t \in Slots \ {s} : slot'[t] = slot[t]
  BY <1>1 DEF TypeInv
<1>3. NoDestinationTwice'
  BY <1>2 DEF SetInv, NoDestinationTwice
<1>4. InSet' = InSet \ {slot[s]}
  <2>1. \A t \in Slots \ {s} : slot[t] = slot[s] => slot[t] = NoDest
    BY DEF SetInv, NoDestinationTwice
  <2>2. \A x : x \in InSet' <=> x \in InSet /\ x # slot[s]
    BY <1>1, <1>2, <2>1 DEF InSet
  <2> QED BY <2>2
<1> QED BY <1>1, <1>3, <1>4
    DEF SetInv, MembersAreInSlots, ActiveBelongsToSet, PendingIsPossible, PendingSwitch

LEMMA AddDestinationSet ==
    ASSUME TypeInv, SetInv, ~Impatient, NEW s \in Slots, NEW d \in Dests, AddDestination(s, d)
    PROVE  SetInv'
<1>1. /\ changeSlot = "none" /\ newActive = NoDest /\ activating = NoDest
      /\ UNCHANGED <<active, activating, newActive, changeSlot>>
      /\ slot[s] = NoDest /\ d \notin member
      /\ slot' = [slot EXCEPT ![s] = d] /\ member' = member \cup {d}
  BY PatientCommand DEF AddDestination
<1>2. member' = Renamed(slot[s], d)
  BY <1>1, SetIsDefined DEF Renamed, TypeInv
<1>3. /\ NoDestinationTwice' /\ MembersAreInSlots'
      /\ \A t \in Slots : t # s /\ slot[t] # NoDest => slot[t] \in InSet'
  BY <1>1, <1>2, SlotReplaced DEF SetInv
<1>4. ActiveBelongsToSet'
  BY <1>1, <1>3 DEF SetInv, ActiveBelongsToSet, InSet
<1> QED BY <1>1, <1>3, <1>4 DEF SetInv, PendingIsPossible, PendingSwitch

\* The active destination of a transfer is replaced later, any other at once.
LEMMA ChangeDestinationSet ==
    ASSUME TypeInv, SetInv, ~Impatient, NEW s \in Slots, NEW d \in Dests, ChangeDestination(s, d)
    PROVE  SetInv'
<1>1. changeSlot = "none" /\ newActive = NoDest /\ activating = NoDest
      /\ slot[s] # NoDest /\ d \notin member /\ d # NoDest /\ active' = active
  BY PatientCommand, SetIsDefined DEF ChangeDestination
<1>2. CASE Deferred(s)
  <2>1. UNCHANGED <<slot, member, activating>> /\ changeSlot' = s /\ newActive' = d
    BY <1>2 DEF ChangeDestination
  <2>2. s # "none"
    BY DEF Slots
  <2>3. PendingIsPossible'
    BY <1>1, <2>1, <2>2 DEF PendingIsPossible, PendingSwitch
  <2> QED BY <1>1, <2>1, <2>3 DEF SetInv, NoDestinationTwice, MembersAreInSlots, ActiveBelongsToSet, InSet
<1>3. CASE ~ Deferred(s)
  <2>1. /\ slot' = [slot EXCEPT ![s] = d] /\ member' = Renamed(slot[s], d)
        /\ activating' = IF active = slot[s] THEN d ELSE NoDest
        /\ UNCHANGED <<newActive, changeSlot>>
    BY <1>3 DEF ChangeDestination
  <2>2. /\ NoDestinationTwice' /\ MembersAreInSlots' /\ d \in InSet'
        /\ \A t \in Slots : t # s /\ slot[t] # NoDest => slot[t] \in InSet'
    BY <1>1, <2>1, SlotReplaced DEF SetInv
  <2>3. activating' = NoDest => active' \in InSet'
    BY <1>1, <2>1, <2>2 DEF SetInv, ActiveBelongsToSet, InSet
  <2> QED BY <1>1, <2>1, <2>2, <2>3 DEF SetInv, ActiveBelongsToSet, PendingIsPossible, PendingSwitch
<1> QED BY <1>2, <1>3

LEMMA SetInit == Init => SetInv
<1> SUFFICES ASSUME Init PROVE SetInv
  OBVIOUS
<1>1. "prim" \in Slots
  BY DEF Slots
<1>2. NoDestinationTwice
  BY SetIsDefined DEF Init, NoDestinationTwice
<1>3. MembersAreInSlots /\ ActiveBelongsToSet
  BY <1>1, SetIsDefined DEF Init, MembersAreInSlots, ActiveBelongsToSet, InSet
<1>4. PendingIsPossible
  BY DEF Init, PendingIsPossible, PendingSwitch
<1> QED BY <1>2, <1>3, <1>4 DEF SetInv

LEMMA SetStep == ~Impatient /\ TypeInv /\ SetInv /\ [Next]_vars => SetInv'
<1> SUFFICES ASSUME ~Impatient, TypeInv, SetInv, [Next]_vars PROVE SetInv'
  OBVIOUS
<1>1. CASE \/ Begin \/ Send \/ Answered \/ NotAnswered \/ StopSeen \/ Leave \/ SwapUsed
           \/ UNCHANGED vars
  <2>1. UNCHANGED <<setVars, activating>>
    BY <1>1 DEF Begin, Send, Answered, NotAnswered, Reply, StopSeen, Leave, SwapUsed, vars
  <2> QED BY <2>1, SetKept
<1>2. CASE Operator
  BY <1>2, SwapSlotsSet, SwitchDestinationSet, RemoveDestinationSet, AddDestinationSet,
     ChangeDestinationSet DEF Operator
<1> QED BY <1>1, <1>2, SwitchDestAutoSet, SwitchDestManualSet, ActivateSet DEF Next, Thread

\* With a patient operator fail-over, switches, deferred changes, swaps and removals
\* leave the active destination one of the three, except while a command that changed its
\* slot has yet to activate the new one.
THEOREM ActiveStaysInSet == ~Impatient => (Spec => []ActiveBelongsToSet)
<1> SUFFICES ASSUME ~Impatient PROVE Spec => []ActiveBelongsToSet
  OBVIOUS
<1>1. SetInv => ActiveBelongsToSet
  BY DEF SetInv
<1>2. TypeInv /\ SetInv /\ [Next]_vars => SetInv'
  BY SetStep
<1> QED BY <1>1, <1>2, TypeInit, TypeStep, SetInit, PTL DEF Spec

\* With a patient operator no destination takes two places of the set.
THEOREM NoneTwice == ~Impatient => (Spec => []NoDestinationTwice)
<1> SUFFICES ASSUME ~Impatient PROVE Spec => []NoDestinationTwice
  OBVIOUS
<1>1. SetInv => NoDestinationTwice
  BY DEF SetInv
<1>2. TypeInv /\ SetInv /\ [Next]_vars => SetInv'
  BY SetStep
<1> QED BY <1>1, <1>2, TypeInit, TypeStep, SetInit, PTL DEF Spec

\* With a patient operator exactly the destinations of the set bear its name.
THEOREM NamesMatch == ~Impatient => (Spec => []MembersAreInSlots)
<1> SUFFICES ASSUME ~Impatient PROVE Spec => []MembersAreInSlots
  OBVIOUS
<1>1. SetInv => MembersAreInSlots
  BY DEF SetInv
<1>2. TypeInv /\ SetInv /\ [Next]_vars => SetInv'
  BY SetStep
<1> QED BY <1>1, <1>2, TypeInit, TypeStep, SetInit, PTL DEF Spec

-----------------------------------------------------------------------------
(* The transfer.                                                           *)

\* A transfer that the set stays the same for stands where it stood.
LEMMA TransferKept ==
    ASSUME TransferInv, UNCHANGED <<threadVars, active, inProgress>>,
           Undisturbed' => Undisturbed /\ InSet' = InSet /\ Failed' = Failed,
           activating' = activating \/ ~ inProgress
    PROVE  TransferInv'
BY DEF TransferInv, InTransfer, threadVars

LEMMA FailedKept ==
    ASSUME UNCHANGED <<slot, used, swapping>>
    PROVE  Failed' = Failed /\ InSet' = InSet
BY DEF Failed, Marked, InSet

\* Both halves of a swap leave the destinations that have failed marked.
LEMMA SwapSlotsTransfer == ASSUME TypeInv, SetInv, TransferInv, SwapSlots PROVE TransferInv'
<1>1. /\ ~ swapping /\ swapping' = TRUE /\ used' = used
      /\ UNCHANGED <<active, activating, threadVars, inProgress, changed, overtaken>>
  BY DEF SwapSlots, Command
<1>2. InSet' = InSet /\ \A s \in Slots : slot'[s] = slot[Swapped(s)]
  BY SwapInSet
<1>3. Failed' = Failed
  <2>1. Failed = {slot[s] : s \in used} /\ Failed' = {slot'[t] : t \in {Swapped(s) : s \in used}}
    BY <1>1 DEF Failed, Marked
  <2>2. \A s \in used : s \in Slots /\ slot'[Swapped(s)] = slot[s]
    BY <1>2, SwappedTwice DEF TypeInv
  <2> QED BY <2>1, <2>2
<1> QED BY <1>1, <1>2, <1>3, TransferKept DEF Undisturbed

LEMMA SwapUsedTransfer == ASSUME TypeInv, TransferInv, SwapUsed PROVE TransferInv'
<1>1. /\ swapping /\ swapping' = FALSE /\ used' = {Swapped(s) : s \in used} /\ slot' = slot
      /\ UNCHANGED <<active, activating, threadVars, inProgress, changed, overtaken>>
  BY DEF SwapUsed, setVars
<1>2. Failed' = Failed /\ InSet' = InSet
  BY <1>1 DEF Failed, Marked, InSet
<1> QED BY <1>1, <1>2, TransferKept DEF Undisturbed

\* Commands that change the set are noted; a switch waits, or there is no transfer.
LEMMA CommandTransfer ==
    ASSUME TypeInv, SetInv, TransferInv,
           \/ \E d \in Dests : SwitchDestination(d)
           \/ \E s \in Slots : RemoveDestination(s)
           \/ \E s \in Slots, d \in Dests : AddDestination(s, d) \/ ChangeDestination(s, d)
    PROVE  TransferInv'
<1>1. UNCHANGED <<threadVars, active, inProgress, used, swapping, overtaken>>
  BY DEF SwitchDestination, RemoveDestination, AddDestination, ChangeDestination
<1>2. changed' \/ (changed' = changed /\ slot' = slot)
  BY DEF SwitchDestination, RemoveDestination, AddDestination, ChangeDestination
<1>3. activating' = activating \/ ~ inProgress
  BY DEF SwitchDestination, RemoveDestination, AddDestination, ChangeDestination, Deferred, Command
<1>4. Undisturbed' => Undisturbed /\ InSet' = InSet /\ Failed' = Failed
  BY <1>1, <1>2, FailedKept DEF Undisturbed
<1> QED BY <1>1, <1>3, <1>4, TransferKept

\* What is activated while a transfer is under way was overtaken by its first send, or
\* comes before it.
LEMMA ActivateTransfer == ASSUME TypeInv, SetInv, TransferInv, Activate PROVE TransferInv'
<1>1. /\ UNCHANGED <<slot, used, swapping, threadVars, inProgress, changed, overtaken>>
      /\ activating # NoDest /\ activating' = NoDest
  BY DEF Activate, others
<1>2. Failed' = Failed /\ InSet' = InSet /\ Undisturbed' = Undisturbed
  BY <1>1, FailedKept DEF Undisturbed
<1> QED BY <1>1, <1>2 DEF TransferInv, InTransfer, threadVars

\* The file goes to a destination that is tried for the first time.
LEMMA SendTransfer == ASSUME TypeInv, SetInv, TransferInv, Send PROVE TransferInv'
<1>1. /\ UNCHANGED <<slot, active, activating, used, inProgress, swapping, changed>>
      /\ phase = "send" /\ phase' = "sending" /\ tried' = tried \cup {active}
      /\ retried' = (retried \/ active \in tried)
      /\ overtaken' = (overtaken \/ activating # NoDest)
  BY DEF Send, setVars
<1>2. Failed' = Failed
  BY <1>1, FailedKept
<1>3. Undisturbed' => Undisturbed /\ activating = NoDest
  BY <1>1 DEF Undisturbed
<1>4. activating = NoDest => active # NoDest
  BY DEF SetInv, ActiveBelongsToSet, InSet
<1> QED BY <1>1, <1>2, <1>3, <1>4 DEF TransferInv, InTransfer

\* The destination answers, or has failed as one more.
LEMMA ReplyTransfer ==
    ASSUME TypeInv, SetInv, TransferInv, Answered \/ NotAnswered
    PROVE  TransferInv'
<1>1. /\ UNCHANGED <<slot, active, activating, tried, retried, used, inProgress, swapping,
                     changed, overtaken>>
      /\ phase = "sending"
      /\ \/ phase' = "failed" /\ result' = "error"
         \/ phase' = "end" /\ result' # "error"
  BY DEF Answered, NotAnswered, Reply, setVars, others
<1>2. Failed' = Failed /\ Undisturbed' = Undisturbed
  BY <1>1, FailedKept DEF Undisturbed
<1> QED BY <1>1, <1>2 DEF TransferInv, InTransfer

\* Fail-over goes to a destination that has not been tried, or ends when there is none.
LEMMA SwitchDestAutoTransfer ==
    ASSUME TypeInv, SetInv, TransferInv, SwitchDestAuto
    PROVE  TransferInv'
<1> DEFINE a == ActiveSlot
           next == Others(a)
<1>1. /\ phase = "failed" /\ activating = NoDest /\ activating' = NoDest
      /\ UNCHANGED <<slot, inProgress, result, tried, retried, swapping, changed>>
      /\ overtaken' = (overtaken \/ swapping)
      /\ result = "error" /\ inProgress
  BY DEF SwitchDestAuto, TransferInv, InTransfer
<1>2. a \in Slots /\ slot[a] = active
  BY <1>1, ActiveInItsSlot DEF SetInv
<1>3. /\ next[1] \in Slots /\ next[2] \in Slots /\ next[1] # a /\ next[2] # a
      /\ \A t \in Slots : t = a \/ t = next[1] \/ t = next[2]
  BY <1>2, OthersAreOthers
<1>4. CASE ~ Undisturbed'
  BY <1>1, <1>4 DEF TransferInv, InTransfer, SwitchDestAuto
<1>5. CASE Undisturbed'
  <2>1. Undisturbed /\ ~ swapping /\ Failed = {slot[s] : s \in used}
    BY <1>1, <1>5 DEF Failed, Marked, Undisturbed
  <2>2. tried = Failed \cup {active} /\ NoDest \notin tried /\ ~ retried
    BY <1>1, <2>1 DEF TransferInv
  <2>3. tried = {slot[s] : s \in used \cup {a}}
    BY <1>2, <2>1, <2>2
  <2>4. \/ /\ phase' = "send" /\ used' = used \cup {a}
           /\ \E n \in Slots \ {a} : Fresh(n) /\ active' = slot[n]
        \/ /\ phase' = "end" /\ ~ Fresh(next[1]) /\ ~ Fresh(next[2])
    BY <1>3 DEF SwitchDestAuto, Tried
  <2> HIDE DEF a, next
  <2>5. CASE phase' = "send"
    <3>1. PICK n \in Slots \ {a} : Fresh(n) /\ active' = slot[n] /\ used' = used \cup {a}
      BY <2>4, <2>5
    <3>2. n \notin used \cup {a} /\ slot[n] # NoDest
      BY <3>1 DEF Fresh
    <3>3. active' \notin tried
      <4>1. \A s \in used \cup {a} : s \in Slots /\ slot[s] # slot[n]
        BY <1>2, <3>1, <3>2 DEF TypeInv, SetInv, NoDestinationTwice
      <4> QED BY <2>3, <3>1, <4>1
    <3>4. Failed' = tried
      BY <1>1, <2>1, <2>3, <3>1 DEF Failed, Marked
    <3> QED BY <1>1, <2>2, <2>5, <3>3, <3>4 DEF TransferInv, InTransfer
  <2>6. CASE phase' = "end"
    <3>1. ~ Fresh(next[1]) /\ ~ Fresh(next[2])
      BY <2>4, <2>6
    <3>2. \A t \in Slots : slot[t] # NoDest => t \in used \cup {a}
      BY <1>3, <3>1 DEF Fresh
    <3>3. InSet \subseteq tried
      BY <2>3, <3>2 DEF InSet
    <3>4. tried \subseteq InSet
      BY <1>2, <2>2, <2>3 DEF TypeInv, InSet
    <3>5. InSet' = InSet
      BY <1>1 DEF InSet
    <3> QED BY <1>1, <2>2, <2>6, <3>3, <3>4, <3>5 DEF TransferInv, InTransfer
  <2> QED BY <2>4, <2>5, <2>6
<1> QED BY <1>4, <1>5

\* The beginning and the end of a transfer.
LEMMA BeginTransfer == ASSUME TypeInv, SetInv, Begin PROVE TransferInv'
<1>1. /\ phase' = "send" /\ used' = {} /\ inProgress' = TRUE /\ tried' = {}
      /\ retried' = FALSE
  BY DEF Begin
<1>2. Failed' = {}
  BY <1>1 DEF Failed, Marked
<1> QED BY <1>1, <1>2 DEF TransferInv, InTransfer

LEMMA EndTransfer ==
    ASSUME TypeInv, SetInv, TransferInv, StopSeen \/ SwitchDestManual \/ Leave
    PROVE  TransferInv'
<1>1. UNCHANGED <<retried, changed, overtaken>> /\ Undisturbed' = Undisturbed
  BY DEF StopSeen, SwitchDestManual, Leave, others, Undisturbed
<1>2. CASE StopSeen
  BY <1>1, <1>2 DEF TransferInv, InTransfer, StopSeen, others
<1>3. CASE SwitchDestManual
  <2>1. phase = "end" /\ inProgress' = inProgress /\ phase' = "leave"
    BY <1>3, SwitchDestManualSet DEF SwitchDestManual, others
  <2> QED BY <1>1, <2>1 DEF TransferInv, InTransfer
<1>4. CASE Leave
  BY <1>1, <1>4 DEF TransferInv, InTransfer, Leave
<1> QED BY <1>2, <1>3, <1>4

LEMMA TransferInit == Init => TransferInv
BY DEF Init, TransferInv, InTransfer

LEMMA TransferStep == TypeInv /\ SetInv /\ TransferInv /\ [Next]_vars => TransferInv'
<1> SUFFICES ASSUME TypeInv, SetInv, TransferInv, [Next]_vars PROVE TransferInv'
  OBVIOUS
<1>1. CASE Thread
  BY <1>1, BeginTransfer, SendTransfer, ReplyTransfer, SwitchDestAutoTransfer, EndTransfer DEF Thread
<1>2. CASE Operator
  BY <1>2, SwapSlotsTransfer, CommandTransfer DEF Operator
<1>3. CASE UNCHANGED vars
  BY <1>3, FailedKept, TransferKept DEF vars, setVars, others, Undisturbed
<1> QED BY <1>1, <1>2, <1>3, SwapUsedTransfer, ActivateTransfer DEF Next

\* With a patient operator a file is given up only after every destination of the set
\* has been tried, and none is tried twice: deferred switches and swaps of primary and
\* secondary included, as long as the thread and a command do not overtake each other.
THEOREM EachTriedOnce == ~Impatient => (Spec => []AllTriedBeforeGivingUp)
<1> SUFFICES ASSUME ~Impatient PROVE Spec => []AllTriedBeforeGivingUp
  OBVIOUS
<1>1. TransferInv => AllTriedBeforeGivingUp
  BY DEF TransferInv, AllTriedBeforeGivingUp, Undisturbed
<1>2. TypeInv /\ SetInv /\ [Next]_vars => SetInv'
  BY SetStep
<1> QED BY <1>1, <1>2, TypeInit, TypeStep, SetInit, TransferInit, TransferStep, PTL DEF Spec

\* With a patient operator the thread never comes upon an emptied slot.
THEOREM ThreadSurvives == ~Impatient => (Spec => [](phase # "dead"))
<1> SUFFICES ASSUME ~Impatient PROVE Spec => [](phase # "dead")
  OBVIOUS
<1> DEFINE Alive == phase # "dead"
<1>1. Init => Alive
  BY DEF Init
<1>2. TypeInv /\ SetInv /\ Alive /\ [Next]_vars => Alive'
  <2> SUFFICES ASSUME TypeInv, SetInv, Alive, [Next]_vars PROVE Alive'
    OBVIOUS
  <2>1. CASE SwitchDestManual
    BY <2>1, SwitchDestManualSet
  <2>2. CASE \/ Begin \/ Send \/ Answered \/ NotAnswered \/ StopSeen \/ SwitchDestAuto
             \/ Leave
    BY <2>2 DEF Begin, Send, Answered, NotAnswered, Reply, StopSeen, SwitchDestAuto, Leave
  <2>3. CASE Operator \/ SwapUsed \/ Activate \/ UNCHANGED vars
    <3>1. phase' = phase
      BY <2>3 DEF Operator, SwapSlots, SwitchDestination, RemoveDestination, AddDestination,
                  ChangeDestination, SwapUsed, Activate, vars, threadVars
    <3> QED BY <3>1
  <2> QED BY <2>1, <2>2, <2>3 DEF Next, Thread
<1>3. TypeInv /\ SetInv /\ [Next]_vars => SetInv'
  BY SetStep
<1> QED BY <1>1, <1>2, <1>3, TypeInit, TypeStep, SetInit, PTL DEF Spec

=============================================================================
