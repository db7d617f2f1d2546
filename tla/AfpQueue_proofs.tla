-------------------------- MODULE AfpQueue_proofs --------------------------
(***************************************************************************)
(* Proofs about AfpQueue, for any number of files, retries and events.     *)
(* As long as neither a command nor a reconnection has broken the rotation *)
(* (~outOfTurn): one file at a time is under way, the oldest first; what   *)
(* is marked for deletion was delivered, and what was delivered twice may  *)
(* be.  The types of all variables hold after that as well.                *)
(***************************************************************************)
EXTENDS AfpQueue, TLAPS, WellFoundedInduction, FiniteSetTheorems, SequenceTheorems

-----------------------------------------------------------------------------
(* The order of creation.                                                  *)

Ordered(q) ==
  /\ \A f, g \in Files :
        Older(q, f, g) => Present(q, f) /\ Present(q, g) /\ f # g /\ ~Older(q, g, f)
  /\ \A f, g, h \in Files : Older(q, f, g) /\ Older(q, g, h) => Older(q, f, h)
  /\ \A f, g \in Files :
        Present(q, f) /\ Present(q, g) /\ f # g => Older(q, f, g) \/ Older(q, g, f)

LEMMA LeastNatural ==
  ASSUME NEW I, I \subseteq Nat, I # {}
  PROVE  \E i \in I : \A j \in I : i <= j
<1> DEFINE Less == {p \in Nat \X Nat : p[1] < p[2]}
<1>1. IsWellFoundedOn(Less, Nat)
  BY NatLessThanWellFounded DEF OpToRel
<1>2. PICK i \in I : \A j \in I : <<j, i>> \notin Less
  BY <1>1, WFMin
<1>3. \A j \in I : ~(j < i)
  BY <1>2
<1>4. QED
  BY <1>3

\* Files in the queue, if any, have an oldest one.
LEMMA OldestIsFirst ==
  ASSUME NEW q, Ordered(q), NEW S, S \subseteq Files, S # {}, \A f \in S : Present(q, f)
  PROVE  Oldest(q, S) \in S /\ \A g \in S \ {Oldest(q, S)} : Older(q, Oldest(q, S), g)
<1> DEFINE First(T, f) == \A g \in T \ {f} : Older(q, f, g)
           Bad == {n \in Nat : \E T \in SUBSET S : /\ T # {} /\ T \subseteq 1..n
                                                   /\ \A f \in T : ~First(T, f)}
<1>1. Bad = {}
  <2> SUFFICES ASSUME Bad # {} PROVE FALSE
    OBVIOUS
  <2>1. PICK n \in Bad : \A m \in Bad : n <= m
    BY LeastNatural
  <2>2. PICK T \in SUBSET S : T # {} /\ T \subseteq 1..n /\ \A f \in T : ~First(T, f)
    BY <2>1
  <2>3. n \in T
    <3> SUFFICES ASSUME n \notin T PROVE FALSE
      OBVIOUS
    <3>0. n \in Nat /\ n # 0
      <4>1. n \in Nat /\ \E x \in T : x \in 1..n
        BY <2>1, <2>2
      <4>2. QED
        BY <4>1
    <3>1. n - 1 \in Nat /\ T \subseteq 1..n - 1
      BY <3>0, <2>2
    <3>2. n - 1 \in Bad
      BY <3>1, <2>2
    <3> HIDE DEF Bad
    <3>3. n <= n - 1
      BY <3>2, <2>1
    <3>4. QED
      BY <3>0, <3>3
  <2> DEFINE R == T \ {n}
  <2>4. R # {}
    BY <2>2, <2>3
  <2>5. R \subseteq 1..n - 1 /\ n - 1 \in Nat
    BY <2>1, <2>2, <2>3
  <2>6. PICK f \in R : First(R, f)
    <3>1. n - 1 \notin Bad
      BY <2>1, <2>5
    <3>2. QED
      BY <3>1, <2>2, <2>4, <2>5
  <2>7. First(T, f) \/ First(T, n)
    <3>1. Older(q, f, n) \/ Older(q, n, f)
      BY <2>2, <2>3, <2>6 DEF Ordered
    <3>2. CASE Older(q, f, n)
      BY <3>2, <2>6
    <3>3. CASE Older(q, n, f)
      BY <3>3, <2>2, <2>3, <2>6 DEF Ordered
    <3>4. QED
      BY <3>1, <3>2, <3>3
  <2>8. QED
    BY <2>2, <2>3, <2>6, <2>7
<1>2. \E f \in S : First(S, f)
  <2>1. MaxFile \in Nat /\ S \subseteq 1..MaxFile
    BY BoundsAssumption DEF Files
  <2>2. MaxFile \notin Bad
    BY <1>1
  <2>3. QED
    BY <2>1, <2>2
<1>3. QED
  BY <1>2 DEF Oldest

-----------------------------------------------------------------------------
(* The queue: at most one file is under way, the one sent last; every file *)
(* in READY comes after it, or after the next one.                         *)

Rotation(q) ==
  /\ q.last # None => Present(q, q.last)
  /\ q.next # None => q.status[q.next] = "READY"
  /\ \A f \in With(q, "SEND") : q.last = f /\ q.transferFile = f
  /\ q.toSend = <<>> \/ \E item \in Item : q.toSend = <<item>> /\ item.f \in With(q, "SEND")
  /\ With(q, "READY") # {} => With(q, "SEND") # {}
  /\ \A g \in With(q, "READY") :
        IF q.next = None THEN Older(q, q.last, g) ELSE g = q.next \/ Older(q, q.next, g)

QueueOk(q) == q \in Queues /\ Ordered(q) /\ Rotation(q)

\* Queues are the same if all their parts are.
LEMMA QueueEqual ==
  ASSUME NEW q \in Queues, NEW r \in Queues, q.older = r.older, q.status = r.status,
         q.transferFile = r.transferFile, q.last = r.last, q.next = r.next, q.toSend = r.toSend
  PROVE  q = r
<1>1. \A x \in Queues :
         x = [older |-> x.older, status |-> x.status, transferFile |-> x.transferFile,
              last |-> x.last, next |-> x.next, toSend |-> x.toSend]
  BY DEF Queues
<1>2. QED
  BY <1>1

LEMMA SentParts ==
  ASSUME NEW q \in Queues, NEW f \in Files, NEW again \in BOOLEAN
  PROVE  /\ SendToCdh(q, f, again) \in Queues
         /\ SendToCdh(q, f, again).older = q.older
         /\ SendToCdh(q, f, again).status = [q.status EXCEPT ![f] = "SEND"]
         /\ SendToCdh(q, f, again).transferFile = f
         /\ SendToCdh(q, f, again).last = f
         /\ q.next = f => SendToCdh(q, f, again).next = None
         /\ q.next # f => SendToCdh(q, f, again).next = q.next
         /\ SendToCdh(q, f, again).toSend = Append(q.toSend, [f |-> f, again |-> again])
<1> DEFINE item == [f |-> f, again |-> again]
<1>1. item \in Item /\ q.toSend \in Seq(Item)
  BY DEF Item, Queues
<1>2. Append(q.toSend, item) \in Seq(Item)
  BY <1>1, AppendProperties
<1>3. QED
  BY <1>2 DEF SendToCdh, Queues, States

\* A file that is older than all in READY is sent.
LEMMA Sent ==
  ASSUME NEW q \in Queues, Ordered(q), q.toSend = <<>>,
         NEW f \in Files, Present(q, f), With(q, "SEND") \subseteq {f}, NEW again \in BOOLEAN, q.next \in {None, f},
         \A g \in With(q, "READY") \ {f} : Older(q, f, g)
  PROVE  /\ QueueOk(SendToCdh(q, f, again))
         /\ SendToCdh(q, f, again).older = q.older
         /\ SendToCdh(q, f, again).status = [q.status EXCEPT ![f] = "SEND"]
         /\ SendToCdh(q, f, again).toSend = <<[f |-> f, again |-> again]>>
<1> DEFINE s == SendToCdh(q, f, again)
           item == [f |-> f, again |-> again]
<1>1. item \in Item /\ Append(q.toSend, item) = <<item>>
  BY DEF Item
<1>2. /\ s \in Queues /\ s.older = q.older /\ s.status = [q.status EXCEPT ![f] = "SEND"]
      /\ s.toSend = <<item>> /\ s.last = f /\ s.transferFile = f /\ s.next = None
  BY <1>1, SentParts
<1>3. \A g \in Files : Present(s, g) <=> Present(q, g)
  BY <1>2 DEF Present, Queues, States
<1>4. Ordered(s)
  BY <1>2, <1>3 DEF Ordered, Older
<1>5. With(s, "SEND") = {f} /\ With(s, "READY") = With(q, "READY") \ {f}
  BY <1>2 DEF With, Queues, States
<1>6. Rotation(s)
  <2>1. \A g \in With(s, "READY") : Older(s, f, g)
    BY <1>2, <1>5 DEF Older
  <2>2. item.f = f /\ f # None
    BY BoundsAssumption DEF Files, None
  <2>3. QED
    BY <1>1, <1>2, <1>3, <1>5, <2>1, <2>2 DEF Rotation
<1>7. QED
  BY <1>2, <1>4, <1>6 DEF QueueOk

\* The file under way is done: the oldest in READY, if any, is sent.
NoneSent(q, r, f, state) ==
  r.status = [q.status EXCEPT ![f] = state] /\ r.toSend = <<>>
NextSent(q, r, f, state) ==
  \E g \in With(q, "READY") :
     /\ r.status = [[q.status EXCEPT ![f] = state] EXCEPT ![g] = "SEND"]
     /\ r.toSend = <<[f |-> g, again |-> FALSE]>>
     /\ \A h \in With(q, "READY") \ {g} : Older(q, g, h)
LEMMA FinishedSendsOldest ==
  ASSUME NEW q, QueueOk(q), q.toSend = <<>>, NEW f \in With(q, "SEND"),
         NEW state \in {"DELETE", "FAILED"}, NEW r \in Finished(q, f, state)
  PROVE  /\ QueueOk(r) /\ r.older = q.older
         /\ NoneSent(q, r, f, state) \/ NextSent(q, r, f, state)
<1> DEFINE c == [q EXCEPT !.status[f] = state]
<1>1. /\ q \in Queues /\ Ordered(q) /\ Rotation(q) /\ f \in Files /\ q.status[f] = "SEND"
      /\ None \notin Files
  BY BoundsAssumption DEF QueueOk, With, Files, None
<1>2. /\ c \in Queues /\ c.older = q.older /\ c.toSend = <<>> /\ c.last = f
      /\ c.transferFile = f /\ c.next = q.next /\ c.status = [q.status EXCEPT ![f] = state]
  BY <1>1 DEF Queues, States, Rotation
<1>3. \A g \in Files : Present(c, g) <=> Present(q, g)
  BY <1>1, <1>2 DEF Present, Queues, States
<1>4. Ordered(c)
  BY <1>1, <1>2, <1>3 DEF Ordered, Older
<1>5. With(c, "SEND") = {} /\ With(c, "READY") = With(q, "READY")
  BY <1>1, <1>2 DEF With, Queues, States, Rotation
<1>6. c.status[f] \notin {"READY", "SEND"} /\ Present(q, f)
  BY <1>1, <1>2 DEF Queues, Present
<1>7. CASE q.next # None
  <2>1. q.next \in With(q, "READY") /\ q.next \in Files
    BY <1>1, <1>7 DEF Rotation, With, Queues
  <2> HIDE DEF c
  <2>2. NextWaits(c) /\ \A busy \in LastUnderWay(c) : ~busy
    <3>1. c.next # None /\ c.status[c.next] = "READY"
      BY <1>2, <1>5, <1>7, <2>1 DEF With
    <3>2. c.last # None /\ ~(c.status[c.last] \in {"READY", "SEND"})
      BY <1>1, <1>2, <1>6
    <3>3. QED
      BY <3>1, <3>2 DEF NextWaits, LastUnderWay
  <2>3. r = SendToCdh(c, q.next, FALSE)
    <3>1. PICK busy \in LastUnderWay(c) :
             r = IF NextWaits(c) /\ ~busy THEN SendToCdh(c, c.next, FALSE) ELSE Scan(c, f)
      BY <1>6, <2>2 DEF Finished, c
    <3>2. QED
      BY <1>2, <2>2, <3>1
  <2>4. \A h \in With(q, "READY") \ {q.next} : Older(q, q.next, h) /\ Older(c, q.next, h)
    BY <1>1, <1>2, <1>7 DEF Rotation, Older
  <2>5. Present(c, q.next)
    BY <1>2, <1>5, <2>1 DEF With, Present
  <2>6. c.next \in {None, q.next} /\ With(c, "SEND") \subseteq {q.next} /\ FALSE \in BOOLEAN
    BY <1>2, <1>5
  <2>7. /\ QueueOk(r) /\ r.older = c.older
        /\ r.status = [c.status EXCEPT ![q.next] = "SEND"]
        /\ r.toSend = <<[f |-> q.next, again |-> FALSE]>>
    BY <1>2, <1>4, <1>5, <2>1, <2>3, <2>4, <2>5, <2>6, Sent
  <2>8. QED
    BY <1>2, <2>1, <2>4, <2>7 DEF NextSent
<1>8. CASE q.next = None
  <2>1. ~NextWaits(c)
    BY <1>2, <1>8 DEF NextWaits
  <2>2. r = Scan(c, f)
    BY <1>6, <2>1 DEF Finished
  <2>3. {g \in With(c, "READY") : Older(c, f, g)} = With(q, "READY")
    BY <1>1, <1>2, <1>5, <1>8 DEF Rotation, Older
  <2>4. CASE With(q, "READY") = {}
    <3>1. r = [c EXCEPT !.transferFile = None]
      BY <2>2, <2>3, <2>4 DEF Scan
    <3>2. /\ r \in Queues /\ r.older = c.older /\ r.status = c.status /\ r.toSend = <<>>
          /\ r.last = f /\ r.next = None
      BY <1>2, <1>8, <3>1 DEF Queues
    <3>3. Ordered(r) /\ Present(r, f)
      BY <1>3, <1>4, <1>6, <3>2 DEF Ordered, Older, Present
    <3>4. With(r, "SEND") = {} /\ With(r, "READY") = {}
      BY <1>5, <2>4, <3>2 DEF With
    <3>5. Rotation(r)
      BY <3>2, <3>3, <3>4 DEF Rotation
    <3>6. QED
      BY <1>2, <3>2, <3>3, <3>5 DEF QueueOk, NoneSent
  <2>5. CASE With(q, "READY") # {}
    <3> DEFINE g == Oldest(c, With(q, "READY"))
    <3>1. r = SendToCdh(c, g, FALSE)
      BY <1>2, <2>2, <2>3, <2>5 DEF Scan
    <3>2. With(q, "READY") \subseteq Files /\ \A h \in With(q, "READY") : Present(c, h)
      BY <1>5 DEF With, Present
    <3>3. g \in With(q, "READY") /\ \A h \in With(q, "READY") \ {g} : Older(c, g, h)
      BY <1>4, <2>5, <3>2, OldestIsFirst
    <3>4. \A h \in With(q, "READY") \ {g} : Older(q, g, h)
      BY <1>2, <3>3 DEF Older
    <3> HIDE DEF g, c
    <3>5. c.next \in {None, g} /\ With(c, "SEND") \subseteq {g} /\ FALSE \in BOOLEAN
      BY <1>2, <1>5, <1>8
    <3>6. /\ QueueOk(r) /\ r.older = c.older
          /\ r.status = [c.status EXCEPT ![g] = "SEND"]
          /\ r.toSend = <<[f |-> g, again |-> FALSE]>>
      BY <1>2, <1>4, <1>5, <3>1, <3>2, <3>3, <3>5, Sent
    <3>7. QED
      BY <1>2, <3>3, <3>4, <3>6 DEF NextSent
  <2>6. QED
    BY <2>4, <2>5
<1>9. QED
  BY <1>7, <1>8

\* The file in its place, the next one of the queue if it comes before it.
Placed(q, f, before) ==
  [q EXCEPT !.older = @ \cup (before \X {f})
                        \cup ({f} \X ({g \in Files : Present(q, g)} \ before)),
            !.status[f] = "READY"]
Queued(q, f, before) ==
  [Placed(q, f, before) EXCEPT !.next = IF ComesFirst(Placed(q, f, before), f) THEN f ELSE @]

OthersKeepOrder(q, r, f) == \A g, h \in Files \ {f} : Older(r, g, h) <=> Older(q, g, h)

LEMMA QueuedInPlace ==
  ASSUME NEW q \in Queues, Ordered(q), NEW f \in Files, ~Present(q, f),
         NEW before \in SUBSET Files,
         \A g \in before : Present(q, g) /\ (\A h \in Files : Older(q, h, g) => h \in before),
         NEW put, put = Placed(q, f, before), NEW queued, queued = Queued(q, f, before)
  PROVE  /\ queued \in Queues /\ queued.older = put.older /\ queued.toSend = q.toSend
         /\ queued.last = q.last /\ queued.transferFile = q.transferFile
         /\ queued.status = [q.status EXCEPT ![f] = "READY"]
         /\ queued.next = IF ComesFirst(put, f) THEN f ELSE q.next
         /\ put.last = q.last /\ put.next = q.next
         /\ OthersKeepOrder(q, put, f) /\ Ordered(queued)
<1> DEFINE after == {g \in Files : Present(q, g)} \ before
<1>1. q.status[f] = "none"
  BY DEF Present
<1>2. /\ queued \in Queues /\ queued.older = put.older /\ queued.toSend = q.toSend
      /\ queued.last = q.last /\ queued.transferFile = q.transferFile
      /\ queued.status = [q.status EXCEPT ![f] = "READY"]
      /\ queued.next = IF ComesFirst(put, f) THEN f ELSE q.next
      /\ put.last = q.last /\ put.next = q.next
  <2>1. put \in Queues /\ put.next = q.next /\ put.status = [q.status EXCEPT ![f] = "READY"]
        /\ put.last = q.last /\ put.toSend = q.toSend /\ put.transferFile = q.transferFile
    BY <1>1 DEF Queues, States, Placed
  <2>2. QED
    BY <2>1 DEF Queues, Queued
<1>3. /\ \A g, h \in Files \ {f} : Older(put, g, h) <=> Older(q, g, h)
      /\ \A g \in Files : Older(put, g, f) <=> g \in before
      /\ \A g \in Files : Older(put, f, g) <=> g \in after
  <2>1. put.older = q.older \cup (before \X {f}) \cup ({f} \X after)
    BY <1>1 DEF Queues, Placed
  <2>2. f \notin before /\ f \notin after /\ \A g \in Files : <<g, f>> \notin q.older /\ <<f, g>> \notin q.older
    BY <1>1 DEF Ordered, Older
  <2> HIDE DEF after
  <2>3. QED
    BY <2>1, <2>2 DEF Older
<1>4. /\ \A g \in Files : Present(queued, g) <=> Present(q, g) \/ g = f
      /\ \A g, h \in Files : Older(queued, g, h) <=> Older(put, g, h)
  BY <1>1, <1>2 DEF Present, Queues, States, Older
<1>5. Ordered(queued)
  <2>1. \A g, h \in Files : Older(queued, g, h) =>
           Present(queued, g) /\ Present(queued, h) /\ g # h /\ ~Older(queued, h, g)
    BY <1>1, <1>3, <1>4 DEF Ordered
  <2>2. \A g, h, k \in Files : Older(queued, g, h) /\ Older(queued, h, k) => Older(queued, g, k)
    <3> SUFFICES ASSUME NEW g \in Files, NEW h \in Files, NEW k \in Files,
                        Older(put, g, h), Older(put, h, k)
                 PROVE  Older(put, g, k)
      BY <1>4
    <3>1. CASE g = f
      BY <3>1, <1>1, <1>3 DEF Ordered
    <3>2. CASE h = f
      <4>1. g \in before /\ k \in after
        BY <3>2, <1>3
      <4>2. Present(q, g) /\ Present(q, k) /\ g # k /\ ~Older(q, k, g)
        BY <4>1
      <4>3. g # f /\ k # f /\ Older(q, g, k)
        BY <4>2, <1>1 DEF Ordered
      <4>4. QED
        BY <4>3, <1>3
    <3>3. CASE k = f
      BY <3>3, <1>1, <1>3 DEF Ordered
    <3>4. CASE f \notin {g, h, k}
      BY <3>4, <1>1, <1>3 DEF Ordered
    <3>5. QED
      BY <3>1, <3>2, <3>3, <3>4
  <2>3. \A g, h \in Files : Present(queued, g) /\ Present(queued, h) /\ g # h
                            => Older(queued, g, h) \/ Older(queued, h, g)
    BY <1>1, <1>3, <1>4 DEF Ordered
  <2>4. QED
    BY <2>1, <2>2, <2>3 DEF Ordered
<1>6. QED
  BY <1>2, <1>3, <1>5 DEF OthersKeepOrder

\* A file is reported: it is sent if none is under way, and then none waits.
LEMMA InsertedInTurn ==
  ASSUME NEW q, QueueOk(q), NEW f \in Files, ~Present(q, f),
         NEW before \in SUBSET Files,
         \A g \in before : Present(q, g) /\ (\A h \in Files : Older(q, h, g) => h \in before),
         NEW r, r = Inserted(q, f, before), ~(r.next # f /\ Older(r, f, r.next))
  PROVE  /\ QueueOk(r) /\ \A g, h \in Files \ {f} : Older(r, g, h) <=> Older(q, g, h)
         /\ \/ /\ r.status = [q.status EXCEPT ![f] = "READY"]
               /\ r.toSend = q.toSend
            \/ /\ r.status = [q.status EXCEPT ![f] = "SEND"]
               /\ With(q, "SEND") = {} /\ With(q, "READY") = {}
               /\ r.toSend = <<[f |-> f, again |-> FALSE]>>
<1> DEFINE put == Placed(q, f, before)
           queued == Queued(q, f, before)
<1>1. /\ q \in Queues /\ Ordered(q) /\ Rotation(q) /\ None \notin Files
      /\ q.status[f] = "none"
  BY BoundsAssumption DEF QueueOk, Files, None, Present
<1>2. /\ queued \in Queues /\ queued.older = put.older /\ queued.toSend = q.toSend
      /\ queued.last = q.last /\ queued.transferFile = q.transferFile
      /\ queued.status = [q.status EXCEPT ![f] = "READY"]
      /\ queued.next = IF ComesFirst(put, f) THEN f ELSE q.next
      /\ put.last = q.last /\ put.next = q.next
  BY <1>1, QueuedInPlace
<1>3. /\ \A g, h \in Files \ {f} : Older(put, g, h) <=> Older(q, g, h)
      /\ \A g \in Files : Present(queued, g) <=> Present(q, g) \/ g = f
      /\ \A g, h \in Files : Older(queued, g, h) <=> Older(put, g, h)
  <2>1. OthersKeepOrder(q, put, f)
    BY <1>1, QueuedInPlace
  <2>2. \A g \in Files : Present(queued, g) <=> Present(q, g) \/ g = f
    BY <1>1, <1>2 DEF Present, Queues, States
  <2>3. \A g, h \in Files : Older(queued, g, h) <=> Older(put, g, h)
    BY <1>2 DEF Older
  <2>4. QED
    BY <2>1, <2>2, <2>3 DEF OthersKeepOrder
<1>4. Ordered(queued)
  BY <1>1, QueuedInPlace
<1>5. r = IF q.last # None /\ q.status[q.last] \in {"READY", "SEND"}
          THEN queued ELSE SendToCdh(queued, f, FALSE)
  BY DEF Inserted, Queued, Placed
<1> HIDE DEF put, queued
<1>6. With(queued, "SEND") = With(q, "SEND") /\ With(queued, "READY") = With(q, "READY") \cup {f}
  BY <1>1, <1>2 DEF With, Queues, States
<1>7. CASE With(q, "SEND") # {}
  <2>1. q.last \in With(q, "SEND") /\ q.last \in Files /\ q.status[q.last] = "SEND" /\ q.last # f
    BY <1>1, <1>7 DEF Rotation, With
  <2>2. r = queued
    BY <1>5, <2>1, <1>1
  <2>3. ComesFirst(put, f) <=> Older(put, f, q.last) /\ (q.next = None \/ Older(put, f, q.next))
    BY <1>1, <1>2, <2>1 DEF ComesFirst
  <2>4. Older(put, q.last, f) \/ Older(put, f, q.last)
    BY <1>3, <1>4, <2>1 DEF Ordered, Present
  <2>5. \A g \in With(q, "READY") : g \in Files \ {f} /\ Present(q, g)
    BY <1>1 DEF With, Present
  <2>6. q.next # None => q.next \in With(q, "READY")
    BY <1>1 DEF Rotation, With, Queues
  <2>7. \A g \in With(queued, "READY") :
           IF queued.next = None THEN Older(queued, queued.last, g)
                                 ELSE g = queued.next \/ Older(queued, queued.next, g)
    <3> SUFFICES ASSUME NEW g \in With(q, "READY") \cup {f}
                 PROVE  IF queued.next = None THEN Older(put, q.last, g)
                        ELSE g = queued.next \/ Older(put, queued.next, g)
      <4>1. queued.next \in Files \/ queued.next = None
        BY <1>2 DEF Queues
      <4>2. QED
        BY <4>1, <1>2, <1>3, <1>6, <2>1, <2>5
    <3>1. CASE ComesFirst(put, f)
      <4>1. queued.next = f
        BY <3>1, <1>2
      <4>2. CASE g # f
        <5>1. q.next = None => Older(put, q.last, g)
          BY <4>2, <1>1, <1>3, <2>1, <2>5 DEF Rotation
        <5>2. q.next # None => g = q.next \/ Older(put, q.next, g)
          BY <4>2, <1>1, <1>3, <2>5, <2>6 DEF Rotation
        <5>3. \A a, b \in Files : Older(put, a, b) /\ Older(put, b, g) => Older(put, a, g)
          BY <1>3, <1>4, <2>5, <4>2 DEF Ordered
        <5>4. Older(put, f, g)
          BY <2>1, <2>3, <2>5, <2>6, <3>1, <5>1, <5>2, <5>3
        <5>5. QED
          BY <4>1, <5>4, <1>1
      <4>3. QED
        BY <4>1, <4>2, <1>1
    <3>2. CASE ~ComesFirst(put, f)
      <4>1. queued.next = q.next
        BY <3>2, <1>2
      <4>2. CASE g # f
        BY <4>1, <4>2, <1>1, <1>3, <2>1, <2>5, <2>6 DEF Rotation
      <4>3. CASE g = f /\ q.next = None
        BY <4>1, <4>3, <2>3, <2>4, <3>2
      <4>4. CASE g = f /\ q.next # None
        <5>1. q.next \in Files \ {f} /\ Present(queued, q.next) /\ Present(queued, f)
          BY <4>4, <2>5, <2>6, <1>3
        <5>2. ~Older(put, f, q.next)
          BY <5>1, <4>1, <2>2, <1>3
        <5>3. Older(put, q.next, f)
          BY <5>1, <5>2, <1>3, <1>4 DEF Ordered
        <5>4. QED
          BY <4>1, <4>4, <5>3
      <4>5. QED
        BY <4>2, <4>3, <4>4
    <3>3. QED
      BY <3>1, <3>2
  <2>8. queued.next # None => queued.status[queued.next] = "READY"
    BY <1>1, <1>2, <2>5, <2>6 DEF With, Queues
  <2>9. Rotation(queued)
    <3>1. queued.last # None => Present(queued, queued.last)
      BY <1>1, <1>2, <1>3, <2>1 DEF Rotation
    <3>2. QED
      BY <1>1, <1>2, <1>6, <1>7, <2>7, <2>8, <3>1 DEF Rotation
  <2>10. QED
    BY <1>2, <1>3, <1>4, <2>2, <2>9 DEF QueueOk
<1>8. CASE With(q, "SEND") = {}
  <2>1. With(q, "READY") = {} /\ q.toSend = <<>> /\ q.next = None
    BY <1>1, <1>8 DEF Rotation, With, Queues
  <2>2. ~(q.last # None /\ q.status[q.last] \in {"READY", "SEND"})
    BY <1>1, <1>8, <2>1 DEF With, Queues
  <2>3. r = SendToCdh(queued, f, FALSE)
    BY <1>5, <2>2
  <2>4. queued.next \in {None, f} /\ Present(queued, f)
    BY <1>2, <1>3, <2>1
  <2>5. /\ QueueOk(r) /\ r.older = queued.older /\ r.status = [queued.status EXCEPT ![f] = "SEND"]
        /\ r.toSend = <<[f |-> f, again |-> FALSE]>>
    <3>1. /\ queued.toSend = <<>> /\ With(queued, "SEND") \subseteq {f} /\ FALSE \in BOOLEAN
          /\ \A g \in With(queued, "READY") \ {f} : Older(queued, f, g)
      BY <1>2, <1>6, <1>8, <2>1
    <3> DEFINE s == SendToCdh(queued, f, FALSE)
    <3>2. queued \in Queues
      BY <1>2
    <3>3. /\ QueueOk(s) /\ s.older = queued.older /\ s.status = [queued.status EXCEPT ![f] = "SEND"]
          /\ s.toSend = <<[f |-> f, again |-> FALSE]>>
      BY <1>4, <2>4, <3>1, <3>2, Sent
    <3>4. QED
      BY <2>3, <3>3
  <2>6. r.status = [q.status EXCEPT ![f] = "SEND"]
    BY <1>1, <1>2, <2>5 DEF Queues
  <2>7. \A g, h \in Files \ {f} : Older(r, g, h) <=> Older(q, g, h)
    BY <1>3, <2>5 DEF Older
  <2>8. QED
    BY <1>8, <2>1, <2>5, <2>6, <2>7
<1>9. QED
  BY <1>7, <1>8

\* The operator has the failed files sent again: with one under way they
\* wait, else the oldest of them is sent.
FailedWait(q, r) ==
  /\ r.toSend = q.toSend
  /\ \A f \in Files : r.status[f] = IF q.status[f] = "FAILED" THEN "READY" ELSE q.status[f]
FailedSent(q, r) ==
  /\ With(q, "SEND") = {} /\ With(q, "READY") = {}
  /\ \E first \in With(q, "FAILED") :
        /\ r.toSend = <<[f |-> first, again |-> FALSE]>>
        /\ \A f \in Files : r.status[f] = IF f = first THEN "SEND"
                                         ELSE IF q.status[f] = "FAILED" THEN "READY"
                                         ELSE q.status[f]
LEMMA FailedAgainInTurn ==
  ASSUME NEW q, QueueOk(q), With(q, "FAILED") # {}, q.next = None,
         \A g \in With(q, "READY") : ~Older(q, g, Oldest(q, With(q, "FAILED"))),
         NEW r, r = FailedAgain(q)
  PROVE  QueueOk(r) /\ (FailedWait(q, r) \/ FailedSent(q, r))
<1> DEFINE first == Oldest(q, With(q, "FAILED"))
           ready == [q EXCEPT !.status[first] = "READY"]
           again == [q EXCEPT !.status =
                       [f \in Files |-> IF @[f] = "FAILED" THEN "READY" ELSE @[f]]]
<1>1. q \in Queues /\ Ordered(q) /\ Rotation(q) /\ None \notin Files
  BY BoundsAssumption DEF QueueOk, Files, None
<1>2. /\ first \in With(q, "FAILED") /\ first \in Files /\ q.status[first] = "FAILED"
      /\ \A g \in With(q, "FAILED") \ {first} : Older(q, first, g)
  <2>1. With(q, "FAILED") \subseteq Files /\ \A f \in With(q, "FAILED") : Present(q, f)
    BY DEF With, Present
  <2>2. first \in With(q, "FAILED") /\ \A g \in With(q, "FAILED") \ {first} : Older(q, first, g)
    BY <1>1, <2>1, OldestIsFirst
  <2>3. QED
    BY <2>2 DEF With
<1> HIDE DEF first
<1>3. /\ again \in Queues /\ again.older = q.older /\ again.toSend = q.toSend
      /\ again.last = q.last /\ again.next = None /\ again.transferFile = q.transferFile
      /\ again.status = [f \in Files |-> IF q.status[f] = "FAILED" THEN "READY" ELSE q.status[f]]
  BY <1>1 DEF Queues, States
<1>4. /\ With(again, "SEND") = With(q, "SEND")
      /\ With(again, "READY") = With(q, "READY") \cup With(q, "FAILED")
      /\ \A f \in Files : Present(again, f) <=> Present(q, f)
  BY <1>3 DEF With, Present
<1>5. Ordered(again)
  BY <1>1, <1>3, <1>4 DEF Ordered, Older
<1>6. \A g \in With(again, "READY") \ {first} : Older(again, first, g)
  <2>1. \A g \in With(q, "READY") : g # first /\ g \in Files /\ Present(q, g)
    BY <1>2 DEF With, Present
  <2>2. Present(q, first) /\ \A g \in With(q, "READY") : ~Older(q, g, first)
    BY <1>2 DEF first, Present
  <2>3. \A g \in With(q, "READY") : Older(q, first, g)
    BY <1>1, <1>2, <2>1, <2>2 DEF Ordered
  <2>4. QED
    BY <1>2, <1>3, <1>4, <2>3 DEF Older
<1>7. CASE With(q, "SEND") # {}
  <2>1. q.last # None /\ q.last \in With(q, "SEND") /\ q.last \in Files /\ q.status[q.last] = "SEND"
    BY <1>1, <1>7 DEF Rotation, With
  <2>2. q.last # None /\ ready.status[q.last] = "SEND"
    BY <1>1, <1>2, <2>1 DEF Queues
  <2>3. r = [[ready EXCEPT !.next = first] EXCEPT !.status =
               [f \in Files |-> IF @[f] = "FAILED" THEN "READY" ELSE @[f]]]
    BY <2>2 DEF FailedAgain, first
  <2>4. /\ r \in Queues /\ r.older = again.older /\ r.toSend = again.toSend
        /\ r.last = again.last /\ r.next = first /\ r.transferFile = again.transferFile
        /\ r.status = again.status
    <3>1. /\ ready \in Queues /\ ready.older = q.older /\ ready.toSend = q.toSend
          /\ ready.last = q.last /\ ready.transferFile = q.transferFile
          /\ ready.status = [q.status EXCEPT ![first] = "READY"]
      BY <1>1, <1>2 DEF Queues, States
    <3> DEFINE x == [ready EXCEPT !.next = first]
    <3> HIDE DEF ready, again
    <3>2. /\ x \in Queues /\ x.older = q.older /\ x.toSend = q.toSend /\ x.last = q.last
          /\ x.transferFile = q.transferFile /\ x.next = first /\ x.status = ready.status
      BY <1>2, <3>1 DEF Queues
    <3>3. r = [x EXCEPT !.status =
                 [f \in Files |-> IF x.status[f] = "FAILED" THEN "READY" ELSE x.status[f]]]
      BY <2>3, <3>2 DEF Queues
    <3> HIDE DEF x
    <3>4. [f \in Files |-> IF x.status[f] = "FAILED" THEN "READY" ELSE x.status[f]] = again.status
      BY <1>1, <1>2, <1>3, <3>1, <3>2 DEF Queues
    <3>5. r = [x EXCEPT !.status = again.status] /\ again.status \in [Files -> States]
      BY <1>3, <3>3, <3>4 DEF Queues
    <3>6. QED
      BY <1>3, <3>2, <3>5 DEF Queues
  <2> HIDE DEF again, ready
  <2>5. /\ With(r, "SEND") = With(again, "SEND") /\ With(r, "READY") = With(again, "READY")
        /\ \A f \in Files : Present(r, f) <=> Present(q, f)
    BY <1>4, <2>4 DEF With, Present
  <2>6. Ordered(r)
    BY <1>1, <1>3, <2>4, <2>5 DEF Ordered, Older
  <2>7. Rotation(r)
    <3>1. \A g \in With(r, "READY") : g = first \/ Older(r, first, g)
      BY <1>6, <2>4, <2>5 DEF Older
    <3>2. r.status[first] = "READY" /\ Present(r, r.last)
      BY <1>1, <1>2, <1>3, <2>1, <2>4, <2>5 DEF Rotation
    <3>3. QED
      BY <1>1, <1>2, <1>3, <1>4, <1>7, <2>4, <2>5, <3>1, <3>2 DEF Rotation
  <2>8. FailedWait(q, r)
    BY <1>3, <2>4 DEF FailedWait
  <2>9. QED
    BY <2>4, <2>6, <2>7, <2>8 DEF QueueOk
<1>8. CASE With(q, "SEND") = {}
  <2>1. With(q, "READY") = {} /\ q.toSend = <<>>
    BY <1>1, <1>8 DEF Rotation
  <2>2. ~(q.last # None /\ ready.status[q.last] = "SEND")
    BY <1>1, <1>2, <1>8 DEF Queues, With
  <2>3. r = [SendToCdh(ready, first, FALSE) EXCEPT !.status =
               [f \in Files |-> IF @[f] = "FAILED" THEN "READY" ELSE @[f]]]
    BY <2>2 DEF FailedAgain, first
  <2> DEFINE s == SendToCdh(again, first, FALSE)
  <2>4. r = s
    <3> DEFINE x == SendToCdh(ready, first, FALSE)
    <3>1. [f \in Files |-> IF x.status[f] = "FAILED" THEN "READY" ELSE x.status[f]] = s.status
      BY <1>1, <1>2 DEF SendToCdh, Queues, States
    <3>2. r = [x EXCEPT !.status = s.status]
      <4>1. r = [x EXCEPT !.status =
                   [f \in Files |-> IF x.status[f] = "FAILED" THEN "READY" ELSE x.status[f]]]
        BY <2>3
      <4> HIDE DEF x, s
      <4>2. QED
        BY <3>1, <4>1
    <3>3. /\ ready \in Queues /\ ready.older = q.older /\ ready.toSend = q.toSend
          /\ ready.next = None /\ FALSE \in BOOLEAN
      BY <1>1, <1>2 DEF Queues, States
    <3> HIDE DEF ready, again
    <3>4. /\ x \in Queues /\ x.older = q.older /\ x.transferFile = first /\ x.last = first
          /\ x.next = None /\ x.toSend = Append(q.toSend, [f |-> first, again |-> FALSE])
      <4>1. /\ x \in Queues /\ x.older = ready.older /\ x.transferFile = first
            /\ x.last = first
            /\ ready.next = first => x.next = None
            /\ ready.next # first => x.next = ready.next
            /\ x.toSend = Append(ready.toSend, [f |-> first, again |-> FALSE])
        BY <1>2, <3>3, SentParts
      <4> HIDE DEF x
      <4>2. QED
        BY <1>2, <3>3, <4>1
    <3>5. /\ s \in Queues /\ s.older = q.older /\ s.transferFile = first /\ s.last = first
          /\ s.next = None /\ s.toSend = Append(q.toSend, [f |-> first, again |-> FALSE])
      <4>1. /\ s \in Queues /\ s.older = again.older /\ s.transferFile = first
            /\ s.last = first
            /\ again.next = first => s.next = None
            /\ again.next # first => s.next = again.next
            /\ s.toSend = Append(again.toSend, [f |-> first, again |-> FALSE])
        BY <1>2, <1>3, <3>3, SentParts
      <4> HIDE DEF s
      <4>2. QED
        BY <1>2, <1>3, <3>3, <4>1
    <3> HIDE DEF x, s
    <3>6. s.status \in [Files -> States]
      BY <3>5 DEF Queues
    <3>7. /\ r \in Queues /\ r.older = x.older /\ r.transferFile = x.transferFile
          /\ r.last = x.last /\ r.next = x.next /\ r.toSend = x.toSend
          /\ r.status = s.status
      BY <3>2, <3>4, <3>6 DEF Queues
    <3>8. QED
      BY <3>4, <3>5, <3>7, QueueEqual
  <2> HIDE DEF again, ready
  <2>5. Present(again, first) /\ FALSE \in BOOLEAN /\ With(again, "SEND") \subseteq {first}
    BY <1>2, <1>4, <1>8 DEF Present
  <2>6. /\ QueueOk(s) /\ s.older = again.older /\ s.status = [again.status EXCEPT ![first] = "SEND"]
        /\ s.toSend = <<[f |-> first, again |-> FALSE]>>
    BY <1>2, <1>3, <1>5, <1>6, <2>1, <2>5, Sent
  <2>7. \A f \in Files : r.status[f] = IF f = first THEN "SEND"
                                      ELSE IF q.status[f] = "FAILED" THEN "READY" ELSE q.status[f]
    BY <1>3, <2>4, <2>6
  <2>8. FailedSent(q, r)
    BY <1>2, <1>8, <2>1, <2>4, <2>6, <2>7 DEF FailedSent
  <2>9. QED
    BY <2>4, <2>6, <2>8
<1>9. QED
  BY <1>7, <1>8

\* Files that are neither under way nor the next one leave the queue.
LEMMA ErasedInTurn ==
  ASSUME NEW q, QueueOk(q), NEW S, S \cap With(q, "SEND") = {}, q.next \notin S,
         NEW r, r = Erased(q, S)
  PROVE  /\ QueueOk(r) /\ r.toSend = q.toSend
         /\ r.status = [f \in Files |-> IF f \in S THEN "none" ELSE q.status[f]]
<1>1. q \in Queues /\ Ordered(q) /\ Rotation(q) /\ None \notin Files
  BY BoundsAssumption DEF QueueOk, Files, None
<1>2. /\ r \in Queues /\ r.toSend = q.toSend /\ r.transferFile = q.transferFile
      /\ r.next = q.next /\ r.last = IF q.last \in S THEN None ELSE q.last
      /\ r.status = [f \in Files |-> IF f \in S THEN "none" ELSE q.status[f]]
  BY <1>1 DEF Erased, Queues, States
<1>3. \A f, g \in Files : Older(r, f, g) <=> Older(q, f, g) /\ f \notin S /\ g \notin S
  BY <1>1 DEF Erased, Queues, Older
<1>4. \A f \in Files : Present(r, f) <=> Present(q, f) /\ f \notin S
  BY <1>2 DEF Present
<1>5. Ordered(r)
  BY <1>1, <1>3, <1>4 DEF Ordered
<1>6. With(r, "SEND") = With(q, "SEND") /\ With(r, "READY") = With(q, "READY") \ S
  BY <1>2 DEF With
<1>7. Rotation(r)
  <2>1. r.last # None => Present(r, r.last)
    BY <1>1, <1>2, <1>4 DEF Rotation, Present
  <2>2. q.next # None => q.next \in Files /\ r.status[r.next] = "READY"
    BY <1>1, <1>2 DEF Rotation, Queues
  <2>3. \A f \in With(q, "SEND") : r.last = f /\ r.transferFile = f
    BY <1>1, <1>2 DEF Rotation
  <2>4. \A g \in With(r, "READY") :
          IF r.next = None THEN Older(r, r.last, g) ELSE g = r.next \/ Older(r, r.next, g)
    <3> SUFFICES ASSUME NEW g \in With(r, "READY")
                 PROVE  IF r.next = None THEN Older(r, r.last, g)
                        ELSE g = r.next \/ Older(r, r.next, g)
      OBVIOUS
    <3>1. g \in Files /\ g \notin S /\ g \in With(q, "READY")
      BY <1>6 DEF With
    <3>2. r.last = q.last /\ q.last \in Files /\ q.last \notin S
      BY <1>1, <1>6, <2>3, <3>1 DEF Rotation, With
    <3>3. QED
      BY <1>1, <1>2, <1>3, <2>2, <3>1, <3>2 DEF Rotation
  <2>5. QED
    BY <1>1, <1>2, <1>6, <2>1, <2>2, <2>3, <2>4 DEF Rotation
<1>8. QED
  BY <1>2, <1>5, <1>7 DEF QueueOk

\* A restart sends the file under way again, with the mark.
LEMMA RestartedInTurn ==
  ASSUME NEW q, QueueOk(q), q.next = None, NEW r, r = Restarted(q)
  PROVE  /\ QueueOk(r) /\ r.older = q.older /\ r.status = q.status
         /\ With(q, "SEND") = {} => r.toSend = <<>>
         /\ \A f \in With(q, "SEND") : r.toSend = <<[f |-> f, again |-> TRUE]>>
<1> DEFINE read == [q EXCEPT !.transferFile = None, !.last = None, !.next = None, !.toSend = <<>>]
<1>1. q \in Queues /\ Ordered(q) /\ Rotation(q) /\ None \notin Files
  BY BoundsAssumption DEF QueueOk, Files, None
<1>2. /\ read \in Queues /\ read.older = q.older /\ read.status = q.status /\ read.toSend = <<>>
      /\ read.last = None /\ read.next = None
  <2>1. <<>> \in Seq(Item)
    BY EmptySeq
  <2>2. QED
    BY <1>1, <2>1 DEF Queues
<1> HIDE DEF read
<1>3. /\ \A state \in States : With(read, state) = With(q, state)
      /\ \A f \in Files : Present(read, f) <=> Present(q, f)
      /\ Ordered(read)
  BY <1>1, <1>2 DEF With, Present, Ordered, Older
<1>4. CASE With(q, "SEND") = {}
  <2>1. With(read, "SEND") = {} /\ With(read, "READY") = {}
    BY <1>1, <1>2, <1>4 DEF Rotation, With
  <2>2. r = read
    BY <2>1 DEF Restarted, SendOldest, read
  <2>3. Rotation(read)
    BY <1>2, <2>1 DEF Rotation
  <2>4. QED
    BY <1>2, <1>3, <1>4, <2>2, <2>3 DEF QueueOk
<1>5. CASE With(q, "SEND") # {}
  <2>1. PICK f \in Files : With(read, "SEND") = {f} /\ With(q, "SEND") = {f} /\ q.last = f
    BY <1>1, <1>2, <1>5 DEF Rotation, With
  <2>2. Oldest(read, {f}) = f
    BY DEF Oldest
  <2>3. AllReadyAgain(read, {}) = read
    <3> DEFINE Body(g, T) == IF T = {} THEN read
                             ELSE LET h == Newest(read, T) IN ReadyAgain(g[T \ {h}], h)
               readied == CHOOSE g : g = [T \in SUBSET {} |-> Body(g, T)]
    <3>1. \E g : g = [T \in SUBSET {} |-> Body(g, T)]
      <4> DEFINE g == [T \in SUBSET {} |-> read]
      <4>1. g = [T \in SUBSET {} |-> Body(g, T)]
        OBVIOUS
      <4>2. QED
        BY <4>1
    <3>2. readied = [T \in SUBSET {} |-> Body(readied, T)]
      BY <3>1
    <3>3. readied[{}] = read
      BY <3>2
    <3>4. QED
      BY <3>3 DEF AllReadyAgain
  <2>4. r = SendToCdh(read, f, TRUE)
    <3> DEFINE waiting == With(read, "SEND")
    <3>1. Oldest(read, waiting) = f /\ waiting \ {Oldest(read, waiting)} = {} /\ waiting # {}
      BY <2>1, <2>2
    <3>2. Marked(f).f = f /\ Marked(f).again = TRUE
      BY DEF Marked
    <3>3. LET item == Marked(Oldest(read, waiting))
          IN  r = SendToCdh(AllReadyAgain(read, waiting \ {Oldest(read, waiting)}),
                            item.f, item.again)
      BY <3>1 DEF Restarted, read
    <3> HIDE DEF waiting
    <3>4. r = SendToCdh(AllReadyAgain(read, {}), Marked(f).f, Marked(f).again)
      BY <3>1, <3>3
    <3>5. QED
      BY <2>3, <3>2, <3>4
  <2>5. Present(read, f) /\ \A g \in With(read, "READY") \ {f} : Older(read, f, g)
    BY <1>1, <1>2, <2>1 DEF Rotation, With, Older, Present
  <2>6. With(read, "SEND") \subseteq {f} /\ TRUE \in BOOLEAN /\ read.next \in {None, f}
    BY <1>2, <2>1
  <2>7. /\ QueueOk(r) /\ r.older = read.older /\ r.status = [read.status EXCEPT ![f] = "SEND"]
        /\ r.toSend = <<[f |-> f, again |-> TRUE]>>
    <3> DEFINE s == SendToCdh(read, f, TRUE)
    <3>1. /\ QueueOk(s) /\ s.older = read.older /\ s.status = [read.status EXCEPT ![f] = "SEND"]
          /\ s.toSend = <<[f |-> f, again |-> TRUE]>>
      BY <1>2, <1>3, <2>1, <2>5, <2>6, Sent
    <3>2. QED
      BY <2>4, <3>1
  <2>8. r.status = q.status
    BY <1>1, <1>2, <2>1, <2>7 DEF Queues, With
  <2>9. QED
    BY <1>2, <2>1, <2>7, <2>8
<1>6. QED
  BY <1>4, <1>5

-----------------------------------------------------------------------------
(* The invariant.  In turn, the thread's messages are answers and those of *)
(* a reconnection: no command is among them.                               *)

TurnMessages == {"FINISHED", "RETRY", "REOPEN", "REATTACH", "RESEND"}

TurnTypes ==
  /\ task \in Tasks /\ ~task.stopSet /\ ~task.marking
  /\ manageQ \in Seq(TurnMessages)
  /\ cdh \in CdhStates
  /\ callback \in {"none", "finish"}
  /\ reported \in 0..MaxFile /\ events \in 0..MaxEvents
  /\ delivered \in [Files -> Nat] /\ unsure \subseteq Files

(* The file under way is the first one queued, or the thread's current one; *)
(* what will finish it is with CDH, or in the messages to the thread.       *)
Carrier == IF tq.toSend = <<>> THEN task.current ELSE Head(tq.toSend)
CurrentSent == task.current.f \in With(tq, "SEND")
InHands == CurrentSent /\ tq.toSend = <<>>

Holds(q, messages) == \E i \in DOMAIN q : q[i] \in messages

Carried ==
  /\ \A f \in With(tq, "SEND") : Carrier.f = f
  /\ InHands => \/ cdh.requests # {} \/ task.resend \/ cdh.session = "broken"
                \/ Holds(manageQ, {"RETRY", "REOPEN", "REATTACH", "RESEND"})

(* CDH works on one request, which is for the file under way.              *)
Retrying == task.resend \/ Holds(manageQ, {"RETRY"})
OneRequest ==
  \A r \in cdh.requests : /\ r.f = task.current.f /\ InHands /\ Connected
                          /\ task.inTransfer /\ ~Retrying
                          /\ cdh.requests = {r}

(* A retry is for the file under way, unless the session has been lost: a  *)
(* message that ends the transfer comes after it, and before the session   *)
(* is opened.                                                              *)
Settles(q, j) == q[j] = "FINISHED" /\ \A i \in DOMAIN q : q[i] = "RETRY" => i < j
RetryKnown ==
  Retrying =>
    \/ task.inTransfer /\ InHands /\ cdh.requests = {}
    \/ ~Connected /\ (~task.inTransfer \/ \E j \in DOMAIN manageQ : Settles(manageQ, j))

Reopens(q, resend) ==
  \E k \in DOMAIN q :
     /\ q[k] = "REOPEN" /\ \A i \in DOMAIN q : q[i] = "REOPEN" => i = k
     /\ resend \/ Holds(q, {"RETRY"}) => \E j \in 1..k - 1 : Settles(q, j)
Session ==
  /\ cdh.session = "open" => cdh.up
  /\ IF cdh.session = "closed" THEN Reopens(manageQ, task.resend)
                               ELSE ~Holds(manageQ, {"REOPEN"})

(* CDH's record: it has each file once among its tasks, the one it is to   *)
(* answer for last, and notes what it has delivered.                       *)
IsLast(tasks, f) == tasks # <<>> /\ tasks[Len(tasks)] = f
Distinct(tasks) == \A i, j \in DOMAIN tasks : tasks[i] = tasks[j] => i = j
Recorded ==
  /\ Distinct(cdh.tasks)
  /\ \A r \in cdh.requests : r.kind = "task" => IsLast(cdh.tasks, r.f)
  /\ cdh.sent # None => delivered[cdh.sent] > 0
  /\ cdh.written # None => delivered[cdh.written] > 0

(* What has been delivered, or may be by a CDH that knows of a file from   *)
(* before a restart of AFP, is not sent without the mark; and what is sent *)
(* again after it was delivered is what CDH has delivered last.            *)
Known(f) ==
  /\ delivered[f] <= 1
  /\ f \in AtCdh => delivered[f] = 0
  /\ delivered[f] > 0 \/ f \in AtCdh => tq.status[f] # "READY"
  /\ tq.status[f] = "SEND" =>
       /\ delivered[f] > 0 \/ f \in Orphans => Carrier.again
       /\ f \in AtCdh => IsLast(cdh.tasks, f)
       /\ delivered[f] > 0 => cdh.tasks = <<>> /\ cdh.sent = f

Fresh ==
  \A f \in Files : f > reported => /\ tq.status[f] = "none" /\ delivered[f] = 0
                                   /\ f \notin AtCdh
History ==
  /\ \A f \in With(tq, "DELETE") : delivered[f] > 0
  /\ \A r \in cdh.requests : r.kind = "sent" => delivered[r.f] > 0
  /\ Recorded
  /\ \A f \in Files \ unsure : Known(f)

TurnInv == /\ TurnTypes /\ QueueOk(tq) /\ Carried /\ OneRequest /\ RetryKnown /\ Session
           /\ Fresh /\ History
IInv == ~outOfTurn => TurnInv

\* A task at the end of CDH's tasks, or their first one done.
LEMMA TaskAppended ==
  ASSUME NEW tasks \in Seq(Files), NEW f \in Files, f \notin ToSet(tasks), Distinct(tasks)
  PROVE  /\ Append(tasks, f) \in Seq(Files) /\ Distinct(Append(tasks, f))
         /\ ToSet(Append(tasks, f)) = ToSet(tasks) \cup {f} /\ IsLast(Append(tasks, f), f)
<1> DEFINE a == Append(tasks, f)
           n == Len(tasks)
<1>1. /\ a \in Seq(Files) /\ Len(a) = n + 1 /\ a # <<>> /\ n \in Nat
      /\ DOMAIN tasks = 1..n /\ DOMAIN a = 1..n + 1
      /\ \A i \in 1..n : a[i] = tasks[i]
      /\ a[n + 1] = f
  BY AppendProperties
<1> HIDE DEF a
<1>2. DOMAIN a = DOMAIN tasks \cup {n + 1} /\ n + 1 \notin DOMAIN tasks
  BY <1>1
<1>3. ToSet(a) = ToSet(tasks) \cup {f}
  BY <1>1, <1>2 DEF ToSet
<1>4. \A i \in DOMAIN tasks : a[i] # f
  BY <1>1 DEF ToSet
<1>5. Distinct(a)
  BY <1>1, <1>2, <1>4 DEF Distinct
<1>6. QED
  BY <1>1, <1>3, <1>5 DEF a, IsLast

LEMMA TaskTaken ==
  ASSUME NEW tasks \in Seq(Files), tasks # <<>>
  PROVE  /\ Tail(tasks) \in Seq(Files) /\ Head(tasks) \in ToSet(tasks) /\ Head(tasks) \in Files
         /\ ToSet(tasks) = ToSet(Tail(tasks)) \cup {Head(tasks)}
         /\ Distinct(tasks) =>
              /\ Distinct(Tail(tasks)) /\ Head(tasks) \notin ToSet(Tail(tasks))
              /\ \A f : IsLast(tasks, f) =>
                   IF f = Head(tasks) THEN Tail(tasks) = <<>> ELSE IsLast(Tail(tasks), f)
<1> DEFINE t == Tail(tasks)
           n == Len(tasks)
<1>1. /\ t \in Seq(Files) /\ Head(tasks) \in Files /\ Head(tasks) = tasks[1] /\ Len(t) = n - 1
      /\ \A i \in 1..n - 1 : t[i] = tasks[i + 1]
  BY HeadTailProperties
<1>2. n \in Nat \ {0} /\ DOMAIN tasks = 1..n /\ DOMAIN t = 1..n - 1
  BY <1>1, EmptySeq
<1>3. /\ \A i \in DOMAIN tasks : i = 1 \/ (i - 1 \in DOMAIN t /\ t[i - 1] = tasks[i])
      /\ \A i \in DOMAIN t : i + 1 \in DOMAIN tasks /\ t[i] = tasks[i + 1] /\ i + 1 # 1
      /\ 1 \in DOMAIN tasks
  BY <1>1, <1>2
<1>4. n = 1 => t = <<>>
  <2> HIDE DEF t
  <2>1. \A s \in Seq(Files) : s # <<>> => Len(s) # 0
    BY EmptySeq
  <2>2. QED
    BY <1>1, <2>1
<1> HIDE DEF t
<1>5. ToSet(tasks) = ToSet(t) \cup {tasks[1]}
  BY <1>3 DEF ToSet
<1>6. ASSUME Distinct(tasks)
      PROVE  Distinct(t) /\ tasks[1] \notin ToSet(t)
  <2>1. \A i, j \in DOMAIN t : t[i] = t[j] => i + 1 = j + 1
    BY <1>3, <1>6 DEF Distinct
  <2>2. Distinct(t)
    BY <1>2, <2>1 DEF Distinct
  <2>3. \A i \in DOMAIN t : t[i] # tasks[1]
    BY <1>3, <1>6 DEF Distinct
  <2>4. QED
    BY <2>2, <2>3 DEF ToSet
<1>7. ASSUME Distinct(tasks), NEW f, IsLast(tasks, f)
      PROVE  IF f = tasks[1] THEN t = <<>> ELSE IsLast(t, f)
  <2>1. CASE f = tasks[1]
    <3>1. n \in DOMAIN tasks /\ tasks[n] = tasks[1]
      BY <1>2, <1>7, <2>1 DEF IsLast
    <3>2. n = 1
      BY <1>3, <1>7, <3>1 DEF Distinct
    <3>3. QED
      BY <1>4, <2>1, <3>2
  <2>2. CASE f # tasks[1]
    <3>1. n # 1 /\ tasks[n] = f
      BY <1>7, <2>2 DEF IsLast
    <3>2. n - 1 \in DOMAIN t /\ t[n - 1] = f
      BY <1>2, <1>3, <3>1
    <3>3. t # <<>>
      BY <3>2
    <3>4. QED
      BY <1>1, <2>2, <3>2, <3>3 DEF IsLast, t
  <2>3. QED
    BY <2>1, <2>2
<1>8. QED
  BY <1>1, <1>5, <1>6, <1>7 DEF t

LEMMA AtCdhTyped ==
  ASSUME cdh \in CdhStates
  PROVE  AtCdh \subseteq Files /\ Orphans \subseteq AtCdh
<1>1. cdh.tasks \in Seq(Files)
  BY DEF CdhStates
<1>2. QED
  BY <1>1 DEF AtCdh, Orphans, ToSet

LEMMA DoneTyped ==
  ASSUME NEW c \in CdhStates, c.tasks # <<>>, NEW ok \in BOOLEAN
  PROVE  /\ Done(c, ok) \in CdhStates /\ Done(c, ok).tasks = Tail(c.tasks)
         /\ Done(c, ok).up = c.up /\ Done(c, ok).session = c.session
         /\ Done(c, ok).requests = c.requests
         /\ Done(c, ok).sent = (IF ok THEN Head(c.tasks) ELSE None)
         /\ Done(c, ok).written = (IF ok THEN Head(c.tasks) ELSE c.written)
<1>1. c.tasks \in Seq(Files)
  BY DEF CdhStates
<1>2. Tail(c.tasks) \in Seq(Files) /\ Head(c.tasks) \in Files
  BY <1>1, TaskTaken
<1>3. QED
  BY <1>2 DEF Done, CdhStates

LEMMA AnswersTyped ==
  ASSUME cdh \in CdhStates, NEW r \in cdh.requests, NEW ok \in BOOLEAN, Answers(r, ok)
  PROVE  /\ cdh' \in CdhStates /\ cdh'.requests = cdh.requests \ {r}
         /\ cdh'.up = cdh.up /\ cdh'.session = cdh.session
         /\ r.kind = "task" =>
              /\ cdh.tasks # <<>> /\ Head(cdh.tasks) = r.f /\ cdh'.tasks = Tail(cdh.tasks)
              /\ cdh'.sent = (IF ok THEN r.f ELSE None)
              /\ cdh'.written = (IF ok THEN r.f ELSE cdh.written)
         /\ r.kind # "task" =>
              cdh'.tasks = cdh.tasks /\ cdh'.sent = cdh.sent /\ cdh'.written = cdh.written
<1> DEFINE c == [cdh EXCEPT !.requests = @ \ {r}]
<1>1. /\ c \in CdhStates /\ c.requests = cdh.requests \ {r} /\ c.up = cdh.up
      /\ c.session = cdh.session /\ c.tasks = cdh.tasks /\ c.sent = cdh.sent
      /\ c.written = cdh.written
  BY DEF CdhStates
<1>2. /\ r.kind = "task" => cdh.tasks # <<>> /\ Head(cdh.tasks) = r.f /\ cdh' = Done(c, ok)
      /\ r.kind # "task" => cdh' = c
  BY DEF Answers
<1> HIDE DEF c
<1>3. CASE r.kind = "task"
  BY <1>1, <1>2, <1>3, DoneTyped
<1>4. CASE r.kind # "task"
  BY <1>1, <1>2, <1>4
<1>5. QED
  BY <1>3, <1>4

\* A message at the end of the queue, or its first one taken.
LEMMA MessageAppended ==
  ASSUME NEW q \in Seq(TurnMessages), NEW m \in TurnMessages
  PROVE  /\ Append(q, m) \in Seq(TurnMessages) /\ Append(q, m) # <<>>
         /\ \A S : Holds(Append(q, m), S) <=> Holds(q, S) \/ m \in S
         /\ m # "RETRY" => \A j \in DOMAIN q : Settles(q, j) =>
               j \in DOMAIN Append(q, m) /\ Settles(Append(q, m), j)
         /\ m = "FINISHED" => Len(q) + 1 \in DOMAIN Append(q, m)
                              /\ Settles(Append(q, m), Len(q) + 1)
         /\ m \notin {"RETRY", "REOPEN"} => \A resend \in BOOLEAN :
               Reopens(q, resend) => Reopens(Append(q, m), resend)
<1> DEFINE a == Append(q, m)
<1>1. /\ a \in Seq(TurnMessages) /\ Len(a) = Len(q) + 1 /\ a # <<>>
      /\ \A i \in 1..Len(q) : a[i] = q[i]
      /\ a[Len(q) + 1] = m
  BY AppendProperties
<1>2. /\ DOMAIN q = 1..Len(q) /\ Len(q) \in Nat
      /\ DOMAIN a = 1..Len(q) + 1 /\ DOMAIN a = DOMAIN q \cup {Len(q) + 1}
  BY <1>1
<1> HIDE DEF a
<1>3. \A S : Holds(a, S) <=> Holds(q, S) \/ m \in S
  BY <1>1, <1>2 DEF Holds
<1>4. m # "RETRY" => \A j \in DOMAIN q : Settles(q, j) => j \in DOMAIN a /\ Settles(a, j)
  BY <1>1, <1>2 DEF Settles
<1>5. m = "FINISHED" => Len(q) + 1 \in DOMAIN a /\ Settles(a, Len(q) + 1)
  BY <1>1, <1>2 DEF Settles
<1>6. ASSUME m \notin {"RETRY", "REOPEN"}, NEW resend \in BOOLEAN, Reopens(q, resend)
      PROVE  Reopens(a, resend)
  <2>1. PICK k \in DOMAIN q :
          /\ q[k] = "REOPEN" /\ \A i \in DOMAIN q : q[i] = "REOPEN" => i = k
          /\ resend \/ Holds(q, {"RETRY"}) => \E j \in 1..k - 1 : Settles(q, j)
    BY <1>6 DEF Reopens
  <2>2. k \in DOMAIN a /\ a[k] = "REOPEN" /\ \A i \in DOMAIN a : a[i] = "REOPEN" => i = k
    BY <1>1, <1>2, <1>6, <2>1
  <2>3. resend \/ Holds(a, {"RETRY"}) => \E j \in 1..k - 1 : Settles(a, j)
    <3>1. 1..k - 1 \subseteq DOMAIN q
      BY <1>2, <2>1
    <3>2. QED
      BY <1>3, <1>4, <1>6, <2>1, <3>1
  <2>4. QED
    BY <2>2, <2>3 DEF Reopens
<1>7. QED
  BY <1>1, <1>3, <1>4, <1>5, <1>6 DEF a

LEMMA MessageTaken ==
  ASSUME NEW q \in Seq(TurnMessages), q # <<>>
  PROVE  /\ Tail(q) \in Seq(TurnMessages) /\ Head(q) \in TurnMessages
         /\ \A S : Holds(q, S) <=> Holds(Tail(q), S) \/ Head(q) \in S
         /\ \A j \in DOMAIN q : Settles(q, j) =>
               \/ j = 1 /\ Head(q) = "FINISHED" /\ ~Holds(q, {"RETRY"})
               \/ j - 1 \in DOMAIN Tail(q) /\ Settles(Tail(q), j - 1)
         /\ \A resend \in BOOLEAN : Reopens(q, resend) =>
               CASE Head(q) = "REOPEN" -> ~resend /\ ~Holds(q, {"RETRY"})
                                          /\ ~Holds(Tail(q), {"REOPEN"})
                 [] Head(q) = "FINISHED" -> Reopens(Tail(q), FALSE)
                 [] Head(q) = "RETRY" -> Reopens(Tail(q), TRUE)
                 [] OTHER -> Reopens(Tail(q), resend)
<1> DEFINE t == Tail(q)
<1>1. /\ t \in Seq(TurnMessages) /\ Head(q) \in TurnMessages /\ Len(t) = Len(q) - 1
      /\ \A i \in 1..Len(q) - 1 : t[i] = q[i + 1]
      /\ Head(q) = q[1]
  BY HeadTailProperties
<1>2. /\ DOMAIN q = 1..Len(q) /\ Len(q) \in Nat \ {0} /\ DOMAIN t = 1..Len(q) - 1
  BY <1>1, EmptySeq
<1>3. /\ \A i \in DOMAIN q : i = 1 \/ (i - 1 \in DOMAIN t /\ t[i - 1] = q[i])
      /\ \A i \in DOMAIN t : i + 1 \in DOMAIN q /\ t[i] = q[i + 1]
      /\ 1 \in DOMAIN q
  BY <1>1, <1>2
<1> HIDE DEF t
<1>4. \A S : Holds(q, S) <=> Holds(t, S) \/ Head(q) \in S
  BY <1>1, <1>3 DEF Holds
<1>5. ASSUME NEW j \in DOMAIN q, Settles(q, j)
      PROVE  \/ j = 1 /\ Head(q) = "FINISHED" /\ ~Holds(q, {"RETRY"})
             \/ j - 1 \in DOMAIN t /\ Settles(t, j - 1)
  <2>1. CASE j = 1
    <3>1. \A i \in DOMAIN q : ~(i < 1)
      BY <1>2
    <3>2. QED
      BY <1>1, <1>5, <2>1, <3>1 DEF Settles, Holds
  <2>2. CASE j # 1
    <3>1. j - 1 \in DOMAIN t /\ t[j - 1] = "FINISHED"
      BY <1>3, <1>5, <2>2 DEF Settles
    <3>2. \A i \in DOMAIN t : t[i] = "RETRY" => i < j - 1
      BY <1>2, <1>3, <1>5 DEF Settles
    <3>3. QED
      BY <3>1, <3>2 DEF Settles
  <2>3. QED
    BY <2>1, <2>2
<1>6. ASSUME NEW resend \in BOOLEAN, Reopens(q, resend)
      PROVE  /\ Head(q) = "REOPEN" => ~resend /\ ~Holds(q, {"RETRY"}) /\ ~Holds(t, {"REOPEN"})
             /\ Head(q) = "FINISHED" => Reopens(t, FALSE)
             /\ Head(q) = "RETRY" => Reopens(t, TRUE)
             /\ Head(q) \notin {"REOPEN", "FINISHED", "RETRY"} => Reopens(t, resend)
  <2>1. PICK k \in DOMAIN q :
          /\ q[k] = "REOPEN" /\ \A i \in DOMAIN q : q[i] = "REOPEN" => i = k
          /\ resend \/ Holds(q, {"RETRY"}) => \E j \in 1..k - 1 : Settles(q, j)
    BY <1>6 DEF Reopens
  <2>2. CASE k = 1
    <3>1. 1..k - 1 = {}
      BY <2>2
    <3>2. Head(q) = "REOPEN" /\ ~resend /\ ~Holds(q, {"RETRY"})
      BY <1>1, <2>1, <2>2, <3>1
    <3>3. ~Holds(t, {"REOPEN"})
      <4>1. \A i \in DOMAIN t : i + 1 # 1
        BY <1>2
      <4>2. QED
        BY <1>3, <2>1, <2>2, <4>1 DEF Holds
    <3>4. QED
      BY <3>2, <3>3
  <2>3. CASE k # 1
    <3>1. k - 1 \in DOMAIN t /\ t[k - 1] = "REOPEN" /\ Head(q) # "REOPEN"
      BY <1>1, <1>3, <2>1, <2>3
    <3>2. \A i \in DOMAIN t : t[i] = "REOPEN" => i = k - 1
      BY <1>2, <1>3, <2>1
    <3>3. ASSUME NEW j \in 1..k - 1, Settles(q, j),
                 Holds(t, {"RETRY"}) \/ Head(q) # "FINISHED"
          PROVE  \E i \in 1..(k - 1) - 1 : Settles(t, i)
      <4>1. j \in DOMAIN q /\ j \in Nat /\ k \in Nat
        BY <1>2, <2>1
      <4>2. j - 1 \in DOMAIN t /\ Settles(t, j - 1)
        BY <1>4, <1>5, <3>3, <4>1
      <4>3. j - 1 \in 1..(k - 1) - 1
        BY <1>2, <4>1, <4>2
      <4>4. QED
        BY <4>2, <4>3
    <3>4. ASSUME NEW now \in BOOLEAN, Head(q) = "FINISHED" => ~now,
                 now \/ Holds(t, {"RETRY"}) => resend \/ Holds(q, {"RETRY"})
          PROVE  Reopens(t, now)
      <4>1. now \/ Holds(t, {"RETRY"}) => \E i \in 1..(k - 1) - 1 : Settles(t, i)
        BY <2>1, <3>3, <3>4
      <4>2. QED
        BY <3>1, <3>2, <4>1 DEF Reopens
    <3>5. QED
      BY <1>4, <3>1, <3>4
  <2>4. QED
    BY <2>2, <2>3
<1>7. QED
  BY <1>1, <1>4, <1>5, <1>6 DEF t

\* The session is lost: its two messages.
LEMMA SessionLost ==
  ASSUME NEW q \in Seq(TurnMessages), ~Holds(q, {"REOPEN"}), NEW resend \in BOOLEAN
  PROVE  /\ q \o <<"FINISHED", "REOPEN">> \in Seq(TurnMessages)
         /\ Reopens(q \o <<"FINISHED", "REOPEN">>, resend)
         /\ \A S : Holds(q \o <<"FINISHED", "REOPEN">>, S) <=>
                   Holds(q, S) \/ "FINISHED" \in S \/ "REOPEN" \in S
         /\ \E j \in DOMAIN (q \o <<"FINISHED", "REOPEN">>) :
               Settles(q \o <<"FINISHED", "REOPEN">>, j)
<1> DEFINE a == q \o <<"FINISHED", "REOPEN">>
           n == Len(q)
<1>1. /\ a \in Seq(TurnMessages) /\ n \in Nat /\ DOMAIN q = 1..n /\ DOMAIN a = 1..n + 2
      /\ \A i \in 1..n : a[i] = q[i]
      /\ a[n + 1] = "FINISHED" /\ a[n + 2] = "REOPEN"
  <2>1. <<"FINISHED", "REOPEN">> \in Seq(TurnMessages) /\ Len(<<"FINISHED", "REOPEN">>) = 2
    BY DEF TurnMessages
  <2>2. QED
    BY <2>1, ConcatProperties
<1> HIDE DEF a
<1>2. DOMAIN a = DOMAIN q \cup {n + 1, n + 2} /\ n + 1 \in DOMAIN a /\ n + 2 \in DOMAIN a
  BY <1>1
<1>3. \A S : Holds(a, S) <=> Holds(q, S) \/ "FINISHED" \in S \/ "REOPEN" \in S
  BY <1>1, <1>2 DEF Holds
<1>4. Settles(a, n + 1)
  BY <1>1, <1>2 DEF Settles
<1>5. \A i \in DOMAIN a : a[i] = "REOPEN" => i = n + 2
  BY <1>1, <1>2 DEF Holds
<1>6. n + 1 \in 1..(n + 2) - 1
  BY <1>1
<1>7. Reopens(a, resend)
  BY <1>1, <1>2, <1>4, <1>5, <1>6 DEF Reopens
<1>8. QED
  BY <1>1, <1>2, <1>3, <1>4, <1>7 DEF a

LEMMA InitInTurn == Init => IInv
<1> SUFFICES ASSUME Init PROVE TurnInv
  BY DEF IInv
<1> USE BoundsAssumption DEF Init, None, Files
<1>1. TurnTypes
  <2>1. manageQ \in Seq(TurnMessages)
    BY EmptySeq
  <2>2. task \in Tasks /\ ~task.stopSet /\ ~task.marking
    BY DEF IdleTask, NoItem, Tasks, Item
  <2>3. cdh \in CdhStates
    <3>1. <<>> \in Seq(Files)
      BY EmptySeq
    <3>2. QED
      BY <3>1 DEF CdhStates
  <2>4. QED
    BY <2>1, <2>2, <2>3 DEF TurnTypes
<1>2. With(tq, "SEND") = {} /\ With(tq, "READY") = {} /\ With(tq, "DELETE") = {}
  BY DEF With
<1>3. QueueOk(tq)
  <2>1. tq \in Queues
    <3>1. <<>> \in Seq(Item)
      BY EmptySeq
    <3>2. QED
      BY <3>1 DEF Queues, States
  <2>2. Ordered(tq)
    BY DEF Ordered, Older, Present
  <2>3. QED
    BY <1>2, <2>1, <2>2 DEF QueueOk, Rotation
<1>4. DOMAIN manageQ = {} /\ ~task.resend /\ cdh.requests = {}
      /\ cdh.tasks = <<>> /\ cdh.sent = None /\ cdh.written = None
  BY EmptySeq DEF IdleTask
<1>5. Carried /\ OneRequest /\ RetryKnown /\ Session
  BY <1>2, <1>4 DEF Carried, InHands, CurrentSent, OneRequest, RetryKnown, Retrying, Session, Holds
<1>6. Fresh /\ History
  <2>1. \A f \in Files : delivered[f] = 0 /\ tq.status[f] = "none"
    OBVIOUS
  <2>2. AtCdh = {} /\ Distinct(cdh.tasks)
    BY <1>4 DEF AtCdh, ToSet, Distinct
  <2>3. \A f \in Files \ unsure : Known(f)
    BY <2>1, <2>2 DEF Known
  <2>4. Recorded
    BY <1>4, <2>2 DEF Recorded
  <2>5. QED
    BY <1>2, <1>4, <2>1, <2>2, <2>3, <2>4 DEF Fresh, History
<1>7. QED
  BY <1>1, <1>3, <1>5, <1>6 DEF TurnInv

-----------------------------------------------------------------------------
(* Steps of the operator, and files reported or deleted: they change the   *)
(* queue only.                                                             *)

LEMMA QueueStep ==
  ASSUME TurnInv, UNCHANGED <<task, manageQ, cdh, callback, delivered>>,
         reported' \in reported..MaxFile, events' \in 0..MaxEvents,
         unsure \subseteq unsure', unsure' \subseteq Files, QueueOk(tq'),
         \/ tq'.toSend = tq.toSend /\ With(tq', "SEND") = With(tq, "SEND")
         \/ /\ With(tq, "SEND") = {}
            /\ \E f \in Files : /\ With(tq', "SEND") = {f}
                                /\ tq'.toSend = <<[f |-> f, again |-> FALSE]>>,
         With(tq', "DELETE") \subseteq With(tq, "DELETE"),
         \A f \in Files : f > reported' => tq'.status[f] = "none",
         \A f \in Files \ unsure' : delivered[f] > 0 \/ f \in AtCdh =>
            tq'.status[f] # "READY" /\ (tq'.status[f] = "SEND" => tq.status[f] = "SEND")
  PROVE  TurnInv'
<1>1. TurnTypes'
  BY DEF TurnInv, TurnTypes
<1>2. InHands => tq'.toSend = tq.toSend /\ With(tq', "SEND") = With(tq, "SEND")
  BY DEF InHands, CurrentSent
<1>3. InHands' => InHands
  <2>1. \A x : <<x>> # <<>>
    OBVIOUS
  <2>2. QED
    BY <2>1 DEF InHands, CurrentSent
<1>4. \A f \in With(tq, "SEND") : f \in With(tq', "SEND") => Carrier' = Carrier
  BY DEF Carrier
<1>5. Carried'
  <2>1. \A f \in With(tq', "SEND") : Carrier'.f = f
    <3>1. CASE tq'.toSend = tq.toSend /\ With(tq', "SEND") = With(tq, "SEND")
      BY <3>1, <1>4 DEF TurnInv, Carried
    <3>2. CASE \E f \in Files : /\ With(tq', "SEND") = {f}
                                /\ tq'.toSend = <<[f |-> f, again |-> FALSE]>>
      <4>1. PICK f \in Files : With(tq', "SEND") = {f} /\ tq'.toSend = <<[f |-> f, again |-> FALSE]>>
        BY <3>2
      <4>2. tq'.toSend # <<>> /\ Head(tq'.toSend) = [f |-> f, again |-> FALSE]
        BY <4>1
      <4>3. Carrier'.f = f
        BY <4>2 DEF Carrier
      <4>4. QED
        BY <4>1, <4>3
    <3>3. QED
      BY <3>1, <3>2
  <2>2. QED
    BY <1>3, <2>1 DEF TurnInv, Carried, Holds
<1>6. OneRequest'
  BY <1>2 DEF TurnInv, OneRequest, InHands, CurrentSent, Connected, Retrying, Holds
<1>7. RetryKnown'
  BY <1>2 DEF TurnInv, RetryKnown, InHands, CurrentSent, Connected, Retrying, Holds, Settles
<1>8. Session'
  BY DEF TurnInv, Session, Reopens, Holds, Settles
<1>9. Fresh'
  <2>1. AtCdh' = AtCdh
    BY DEF AtCdh
  <2>2. QED
    BY <2>1 DEF TurnInv, Fresh, TurnTypes, Files
<1>10. History'
  <2>1. \A f \in With(tq', "DELETE") : delivered[f] > 0
    BY DEF TurnInv, History
  <2>2. AtCdh' = AtCdh /\ Orphans' = Orphans /\ Orphans \subseteq AtCdh
    BY AtCdhTyped DEF AtCdh, Orphans, TurnInv, TurnTypes
  <2>3. ASSUME NEW f \in Files \ unsure'
        PROVE  Known(f)'
    <3>1. Known(f)
      BY <2>3 DEF TurnInv, History
    <3>2. delivered[f] > 0 \/ f \in AtCdh =>
            tq'.status[f] # "READY" /\ (tq'.status[f] = "SEND" => tq.status[f] = "SEND")
      BY <2>3
    <3>3. tq.status[f] = "SEND" /\ tq'.status[f] = "SEND" => Carrier' = Carrier
      BY <1>4 DEF With
    <3>4. QED
      BY <2>2, <3>1, <3>2, <3>3 DEF Known
  <2>4. Recorded'
    BY DEF TurnInv, History, Recorded
  <2>5. QED
    BY <2>1, <2>3, <2>4 DEF TurnInv, History
<1>11. QED
  BY <1>1, <1>5, <1>6, <1>7, <1>8, <1>9, <1>10 DEF TurnInv

LEMMA ReportStep ==
  ASSUME TurnInv, ~outOfTurn', NEW before \in SUBSET Files, Report(before)
  PROVE  TurnInv'
<1> DEFINE f == reported + 1
<1>1. /\ f \in Files /\ f > reported /\ reported \in Nat /\ reported' = f
      /\ tq.status[f] = "none" /\ tq \in Queues
  BY BoundsAssumption DEF TurnInv, TurnTypes, Fresh, Report, Files, QueueOk
<1>2. ~Present(tq, f) /\ tq' = Inserted(tq, f, before)
      /\ ~(tq'.next # f /\ Older(tq', f, tq'.next))
  BY <1>1 DEF Present, Report
<1>3. \A g \in before : Present(tq, g) /\ (\A h \in Files : Older(tq, h, g) => h \in before)
  BY DEF Report
<1> HIDE DEF f
<1>4. /\ QueueOk(tq')
      /\ \/ /\ tq'.status = [tq.status EXCEPT ![f] = "READY"]
            /\ tq'.toSend = tq.toSend
         \/ /\ tq'.status = [tq.status EXCEPT ![f] = "SEND"]
            /\ With(tq, "SEND") = {} /\ With(tq, "READY") = {}
            /\ tq'.toSend = <<[f |-> f, again |-> FALSE]>>
  BY <1>1, <1>2, <1>3, InsertedInTurn DEF TurnInv
<1>5. \/ tq'.toSend = tq.toSend /\ With(tq', "SEND") = With(tq, "SEND")
      \/ /\ With(tq, "SEND") = {}
         /\ \E g \in Files : /\ With(tq', "SEND") = {g}
                             /\ tq'.toSend = <<[f |-> g, again |-> FALSE]>>
  <2>1. \A g \in Files : g # f => tq'.status[g] = tq.status[g]
    BY <1>1, <1>4 DEF Queues
  <2>2. CASE tq'.status = [tq.status EXCEPT ![f] = "READY"] /\ tq'.toSend = tq.toSend
    <3>1. tq'.status[f] = "READY"
      BY <1>1, <2>2 DEF Queues
    <3>2. QED
      BY <1>1, <2>1, <2>2, <3>1 DEF With
  <2>3. CASE /\ tq'.status = [tq.status EXCEPT ![f] = "SEND"]
             /\ With(tq, "SEND") = {} /\ With(tq, "READY") = {}
             /\ tq'.toSend = <<[f |-> f, again |-> FALSE]>>
    <3>1. tq'.status[f] = "SEND"
      BY <1>1, <2>3 DEF Queues
    <3>2. With(tq', "SEND") = {f}
      BY <1>1, <2>1, <2>3, <3>1 DEF With
    <3>3. QED
      BY <1>1, <2>3, <3>2
  <2>4. QED
    BY <1>4, <2>2, <2>3
<1>6. \A g \in Files : /\ g # f => tq'.status[g] = tq.status[g]
                       /\ tq'.status[f] \in {"READY", "SEND"}
  BY <1>1, <1>4 DEF Queues
<1>7. With(tq', "DELETE") \subseteq With(tq, "DELETE")
  BY <1>6 DEF With
<1>8. \A g \in Files : g > reported' => tq'.status[g] = "none"
  BY <1>1, <1>6 DEF TurnInv, Fresh, Files
<1>9. \A g \in Files \ unsure : delivered[g] > 0 \/ g \in AtCdh =>
         tq'.status[g] # "READY" /\ (tq'.status[g] = "SEND" => tq.status[g] = "SEND")
  <2>1. delivered[f] = 0 /\ f \notin AtCdh
    BY <1>1 DEF TurnInv, Fresh
  <2>2. QED
    BY <1>6, <2>1 DEF TurnInv, History, Known
<1>10. events' \in 0..MaxEvents /\ reported' \in reported..MaxFile
  BY <1>1, BoundsAssumption DEF Report, Event, TurnInv, TurnTypes, Files
<1>11. unsure' = unsure /\ unsure \subseteq Files
       /\ UNCHANGED <<task, manageQ, cdh, callback, delivered>>
  BY DEF Report, TurnInv, TurnTypes
<1>12. QED
  BY <1>4, <1>5, <1>7, <1>8, <1>9, <1>10, <1>11, QueueStep

LEMMA TransferFailedStep ==
  ASSUME TurnInv, ~outOfTurn', TransferFailed
  PROVE  TurnInv'
<1> DEFINE failed == With(tq, "FAILED")
<1>1. /\ failed # {} /\ tq.next = None /\ tq' = FailedAgain(tq) /\ failed \subseteq Files
      /\ \A g \in With(tq, "READY") : ~Older(tq, g, Oldest(tq, With(tq, "FAILED")))
      /\ unsure' = unsure \cup failed /\ QueueOk(tq)
  BY DEF TransferFailed, With, TurnInv
<1>2. QueueOk(tq') /\ (FailedWait(tq, tq') \/ FailedSent(tq, tq'))
  BY <1>1, FailedAgainInTurn
<1>3. \A f \in Files \ failed : tq'.status[f] = tq.status[f]
  BY <1>2 DEF With, FailedWait, FailedSent
<1>4. \A f \in failed : tq.status[f] = "FAILED" /\ tq'.status[f] \in {"READY", "SEND"}
  BY <1>2 DEF With, FailedWait, FailedSent
<1>5. \/ tq'.toSend = tq.toSend /\ With(tq', "SEND") = With(tq, "SEND")
      \/ /\ With(tq, "SEND") = {}
         /\ \E g \in Files : /\ With(tq', "SEND") = {g}
                             /\ tq'.toSend = <<[f |-> g, again |-> FALSE]>>
  <2>1. CASE FailedWait(tq, tq')
    BY <2>1 DEF With, FailedWait
  <2>2. CASE FailedSent(tq, tq')
    <3>1. PICK first \in Files :
            /\ tq'.toSend = <<[f |-> first, again |-> FALSE]>>
            /\ \A f \in Files : tq'.status[f] = IF f = first THEN "SEND"
                                             ELSE IF tq.status[f] = "FAILED" THEN "READY"
                                             ELSE tq.status[f]
      BY <1>1, <2>2 DEF FailedSent
    <3>2. With(tq', "SEND") = {first} /\ With(tq, "SEND") = {}
      BY <2>2, <3>1 DEF With, FailedSent
    <3>3. QED
      BY <3>1, <3>2
  <2>3. QED
    BY <1>2, <2>1, <2>2
<1>6. With(tq', "DELETE") \subseteq With(tq, "DELETE")
  BY <1>3, <1>4 DEF With
<1> HIDE DEF failed
<1>7. \A f \in Files : f > reported => tq'.status[f] = "none"
  BY <1>3, <1>4 DEF TurnInv, Fresh
<1>8. \A g \in Files \ unsure' : delivered[g] > 0 \/ g \in AtCdh =>
         tq'.status[g] # "READY" /\ (tq'.status[g] = "SEND" => tq.status[g] = "SEND")
  BY <1>1, <1>3 DEF TurnInv, History, Known
<1>9. events' \in 0..MaxEvents /\ reported' = reported /\ reported \in reported..MaxFile
  BY BoundsAssumption DEF TransferFailed, Event, TurnInv, TurnTypes
<1>10. unsure \subseteq unsure' /\ unsure' \subseteq Files
       /\ UNCHANGED <<task, manageQ, cdh, callback, delivered>>
  BY <1>1 DEF TransferFailed, TurnInv, TurnTypes
<1>11. QED
  BY <1>2, <1>5, <1>6, <1>7, <1>8, <1>9, <1>10, QueueStep

LEMMA TransferFailedFileStep ==
  ASSUME TurnInv, ~outOfTurn', NEW f \in Files, TransferFailedFile(f)
  PROVE  TurnInv'
<1>1. /\ QueueOk(tq) /\ tq.status[f] = "FAILED" /\ With(tq, "SEND") = {}
      /\ tq' = SendToCdh(tq, f, FALSE) /\ unsure' = unsure \cup {f}
  BY DEF TransferFailedFile, With, TurnInv
<1>2. /\ tq \in Queues /\ Ordered(tq) /\ tq.toSend = <<>> /\ With(tq, "READY") = {}
      /\ tq.next = None /\ Present(tq, f) /\ FALSE \in BOOLEAN
  BY <1>1 DEF QueueOk, Rotation, With, Present, Queues
<1>3. /\ QueueOk(tq') /\ tq'.status = [tq.status EXCEPT ![f] = "SEND"]
      /\ tq'.toSend = <<[f |-> f, again |-> FALSE]>>
  <2>1. With(tq, "SEND") \subseteq {f} /\ tq.next \in {None, f}
        /\ \A g \in With(tq, "READY") \ {f} : Older(tq, f, g)
    BY <1>1, <1>2
  <2>2. QED
    BY <1>1, <1>2, <2>1, Sent
<1>4. With(tq', "SEND") = {f} /\ With(tq', "DELETE") \subseteq With(tq, "DELETE")
  BY <1>1, <1>2, <1>3 DEF With, Queues
<1>5. \A g \in Files : g # f => tq'.status[g] = tq.status[g]
  BY <1>2, <1>3 DEF Queues
<1>6. \A g \in Files : g > reported => tq'.status[g] = "none"
  BY <1>1, <1>5 DEF TurnInv, Fresh
<1>7. \A g \in Files \ unsure' : delivered[g] > 0 \/ g \in AtCdh =>
         tq'.status[g] # "READY" /\ (tq'.status[g] = "SEND" => tq.status[g] = "SEND")
  BY <1>1, <1>5 DEF TurnInv, History, Known
<1>8. events' \in 0..MaxEvents /\ reported' = reported /\ reported \in reported..MaxFile
  BY BoundsAssumption DEF TransferFailedFile, Event, TurnInv, TurnTypes
<1>9. unsure \subseteq unsure' /\ unsure' \subseteq Files
      /\ UNCHANGED <<task, manageQ, cdh, callback, delivered>>
  BY <1>1 DEF TransferFailedFile, TurnInv, TurnTypes
<1>10. QED
  BY <1>1, <1>3, <1>4, <1>6, <1>7, <1>8, <1>9, QueueStep

\* removeFile and deleteFiles.
LEMMA ErasedStep ==
  ASSUME TurnInv, NEW S \in SUBSET Files, tq' = Erased(tq, S),
         S \cap With(tq, "SEND") = {}, tq.next \notin S,
         events' \in 0..MaxEvents,
         UNCHANGED <<task, manageQ, cdh, callback, reported, delivered, unsure>>
  PROVE  TurnInv'
<1>1. /\ QueueOk(tq') /\ tq'.toSend = tq.toSend
      /\ tq'.status = [f \in Files |-> IF f \in S THEN "none" ELSE tq.status[f]]
  BY ErasedInTurn DEF TurnInv
<1>2. With(tq', "SEND") = With(tq, "SEND") /\ With(tq', "DELETE") \subseteq With(tq, "DELETE")
  BY <1>1 DEF With
<1>3. \A f \in Files : f > reported' => tq'.status[f] = "none"
  BY <1>1 DEF TurnInv, Fresh
<1>4. \A f \in Files \ unsure' : delivered[f] > 0 \/ f \in AtCdh =>
         tq'.status[f] # "READY" /\ (tq'.status[f] = "SEND" => tq.status[f] = "SEND")
  BY <1>1 DEF TurnInv, History, Known
<1>5. reported' \in reported..MaxFile /\ unsure \subseteq unsure' /\ unsure' \subseteq Files
  BY BoundsAssumption DEF TurnInv, TurnTypes
<1>6. QED
  BY <1>1, <1>2, <1>3, <1>4, <1>5, QueueStep

LEMMA RemoveFileStep ==
  ASSUME TurnInv, ~outOfTurn', NEW f \in Files, RemoveFile(f)
  PROVE  TurnInv'
<1>1. tq.status[f] # "SEND" /\ f # tq.next /\ tq' = Erased(tq, {f})
      /\ UNCHANGED <<task, manageQ, cdh, callback, reported, delivered, unsure>>
  BY DEF RemoveFile
<1>2. events' \in 0..MaxEvents
  BY BoundsAssumption DEF RemoveFile, Event, TurnInv, TurnTypes
<1>3. {f} \cap With(tq, "SEND") = {} /\ tq.next \notin {f} /\ {f} \in SUBSET Files
  BY <1>1 DEF With
<1>4. QED
  BY <1>1, <1>2, <1>3, ErasedStep

LEMMA DeleteFilesStep ==
  ASSUME TurnInv, NEW S, DeleteFiles(S)
  PROVE  TurnInv'
<1>1. /\ S \subseteq With(tq, "DELETE") /\ tq' = Erased(tq, S)
      /\ UNCHANGED <<task, manageQ, cdh, callback, reported, events, delivered, unsure>>
  BY DEF DeleteFiles, counters, history
<1>2. S \in SUBSET Files /\ S \cap With(tq, "SEND") = {} /\ tq.next \notin S
  <2>1. tq.next \notin Files \/ tq.status[tq.next] = "READY"
    BY BoundsAssumption DEF TurnInv, QueueOk, Rotation, Files, None
  <2>2. QED
    BY <1>1, <2>1 DEF With
<1>3. events' \in 0..MaxEvents
  BY <1>1 DEF TurnInv, TurnTypes
<1>4. QED
  BY <1>1, <1>2, <1>3, ErasedStep

-----------------------------------------------------------------------------
(* Messages to the thread and the session: the queue, CDH's requests and   *)
(* what has been delivered stay.                                           *)

Stays == /\ tq' = tq /\ task'.current = task.current
         /\ cdh'.requests = cdh.requests /\ cdh'.tasks = cdh.tasks
         /\ cdh'.sent = cdh.sent /\ cdh'.written = cdh.written
         /\ UNCHANGED <<reported, events, delivered, unsure>>

LEMMA StaysInTurn ==
  ASSUME TurnInv, Stays
  PROVE  /\ QueueOk(tq)' /\ Fresh' /\ History'
         /\ Carrier' = Carrier /\ (InHands' <=> InHands)
         /\ \A f \in With(tq', "SEND") : Carrier'.f = f
         /\ reported' \in 0..MaxFile /\ events' \in 0..MaxEvents
         /\ delivered' \in [Files -> Nat] /\ unsure' \subseteq Files
<1>1. Carrier' = Carrier /\ (InHands' <=> InHands) /\ AtCdh' = AtCdh /\ Orphans' = Orphans
  BY DEF Stays, Carrier, InHands, CurrentSent, AtCdh, Orphans
<1>2. QueueOk(tq)'
  BY DEF TurnInv, Stays
<1>3. Fresh' /\ History'
  BY <1>1 DEF TurnInv, Stays, Fresh, History, Recorded, Known
<1>4. QED
  BY <1>1, <1>2, <1>3 DEF TurnInv, Stays, TurnTypes, Carried

LEMMA FinishEventStep ==
  ASSUME TurnInv, FinishEvent
  PROVE  TurnInv'
<1>1. /\ manageQ \in Seq(TurnMessages) /\ manageQ' = Append(manageQ, "FINISHED")
      /\ "FINISHED" \in TurnMessages /\ cdh' = cdh /\ task \in Tasks /\ task.resend \in BOOLEAN
      /\ task' = [task EXCEPT !.retries = 0]
  BY DEF FinishEvent, TurnInv, TurnTypes, TurnMessages, Tasks
<1>2. /\ task' \in Tasks /\ task'.current = task.current /\ task'.inTransfer = task.inTransfer
      /\ task'.resend = task.resend /\ task'.stopSet = task.stopSet
      /\ task'.marking = task.marking
  BY <1>1, BoundsAssumption DEF Tasks
<1>3. Stays /\ callback' = "none"
  BY <1>2 DEF FinishEvent, Stays, counters, history
<1>4. TurnTypes'
  BY <1>1, <1>2, <1>3, MessageAppended, StaysInTurn DEF TurnInv, TurnTypes
<1>5. \A S : Holds(manageQ', S) <=> Holds(manageQ, S) \/ "FINISHED" \in S
  BY <1>1, MessageAppended
<1>6. Carried' /\ OneRequest'
  BY <1>1, <1>2, <1>3, <1>5, StaysInTurn
     DEF TurnInv, Carried, OneRequest, Connected, Retrying
<1>7. RetryKnown'
  <2>1. \E j \in DOMAIN manageQ' : Settles(manageQ', j)
    BY <1>1, MessageAppended
  <2>2. QED
    BY <1>1, <1>2, <1>3, <1>5, <2>1, StaysInTurn DEF TurnInv, RetryKnown, Connected, Retrying
<1>8. Session'
  <2>1. Reopens(manageQ, task.resend) => Reopens(manageQ', task.resend)
    BY <1>1, MessageAppended
  <2>2. QED
    BY <1>1, <1>2, <1>5, <2>1 DEF TurnInv, Session
<1>9. QED
  BY <1>3, <1>4, <1>6, <1>7, <1>8, StaysInTurn DEF TurnInv

LEMMA EventNoServerStep ==
  ASSUME TurnInv, EventNoServer
  PROVE  TurnInv'
<1>1. /\ manageQ \in Seq(TurnMessages) /\ manageQ' = manageQ \o <<"FINISHED", "REOPEN">>
      /\ cdh \in CdhStates /\ cdh.session = "broken"
      /\ cdh' = [cdh EXCEPT !.session = "closed"] /\ task \in Tasks /\ task.resend \in BOOLEAN
      /\ task' = [task EXCEPT !.retries = 0]
  BY DEF EventNoServer, TurnInv, TurnTypes, Tasks
<1>2. /\ task' \in Tasks /\ task'.current = task.current /\ task'.inTransfer = task.inTransfer
      /\ task'.resend = task.resend /\ task'.stopSet = task.stopSet
      /\ task'.marking = task.marking
  <2>1. task \in Tasks /\ task' = [task EXCEPT !.retries = 0]
    BY <1>1
  <2>2. QED
    BY <2>1, BoundsAssumption DEF Tasks
<1>3. /\ cdh' \in CdhStates /\ cdh'.session = "closed" /\ cdh'.up = cdh.up
      /\ cdh'.requests = cdh.requests /\ cdh'.tasks = cdh.tasks
      /\ cdh'.sent = cdh.sent /\ cdh'.written = cdh.written
  BY <1>1 DEF CdhStates
<1>4. Stays /\ callback' = callback
  BY <1>2, <1>3 DEF EventNoServer, Stays, counters, history
<1>5. ~Holds(manageQ, {"REOPEN"})
  BY <1>1 DEF TurnInv, Session
<1>6. /\ manageQ' \in Seq(TurnMessages) /\ Reopens(manageQ', task.resend)
      /\ \A S : Holds(manageQ', S) <=> Holds(manageQ, S) \/ "FINISHED" \in S \/ "REOPEN" \in S
      /\ \E j \in DOMAIN manageQ' : Settles(manageQ', j)
  BY <1>1, <1>5, SessionLost
<1>7. TurnTypes'
  BY <1>1, <1>2, <1>3, <1>4, <1>6, StaysInTurn DEF TurnInv, TurnTypes
<1>8. ~Connected /\ ~Connected' /\ cdh.requests = {}
  BY <1>1, <1>3 DEF TurnInv, OneRequest, Connected
<1>9. Carried' /\ OneRequest' /\ RetryKnown' /\ Session'
  BY <1>2, <1>3, <1>4, <1>6, <1>8, StaysInTurn
     DEF TurnInv, Carried, OneRequest, RetryKnown, Session, Retrying
<1>10. QED
  BY <1>4, <1>7, <1>9, StaysInTurn DEF TurnInv

LEMMA HandleRetryStep ==
  ASSUME TurnInv, HandleRetry
  PROVE  TurnInv'
<1>1. /\ manageQ \in Seq(TurnMessages) /\ manageQ # <<>> /\ Head(manageQ) = "RETRY"
      /\ manageQ' = Tail(manageQ) /\ cdh' = cdh /\ task \in Tasks
      /\ task' = [task EXCEPT !.resend = TRUE] /\ task.resend \in BOOLEAN
  BY DEF HandleRetry, Takes, TurnInv, TurnTypes, Tasks
<1>2. /\ task' \in Tasks /\ task'.current = task.current /\ task'.inTransfer = task.inTransfer
      /\ task'.resend = TRUE /\ task'.stopSet = task.stopSet /\ task'.marking = task.marking
  BY <1>1 DEF Tasks
<1>3. Stays /\ callback' = callback
  BY <1>1, <1>2 DEF HandleRetry, Stays, counters, history
<1>4. TurnTypes'
  BY <1>1, <1>2, <1>3, MessageTaken, StaysInTurn DEF TurnInv, TurnTypes
<1>5. Retrying /\ \A S : Holds(manageQ, S) <=> Holds(manageQ', S) \/ "RETRY" \in S
  <2>1. \A S : Holds(manageQ, S) <=> Holds(manageQ', S) \/ "RETRY" \in S
    BY <1>1, MessageTaken
  <2>2. QED
    BY <2>1 DEF Retrying
<1>6. Carried' /\ OneRequest'
  BY <1>1, <1>2, <1>3, <1>5, StaysInTurn DEF TurnInv, Carried, OneRequest
<1>7. RetryKnown'
  <2>1. \A j \in DOMAIN manageQ : Settles(manageQ, j) =>
           \E i \in DOMAIN manageQ' : Settles(manageQ', i)
    BY <1>1, MessageTaken
  <2>2. QED
    BY <1>1, <1>2, <1>3, <1>5, <2>1, StaysInTurn DEF TurnInv, RetryKnown, Connected
<1>8. Session'
  <2>1. Reopens(manageQ, task.resend) => Reopens(manageQ', TRUE)
    BY <1>1, MessageTaken
  <2>2. QED
    BY <1>1, <1>2, <1>5, <2>1 DEF TurnInv, Session
<1>9. QED
  BY <1>3, <1>4, <1>6, <1>7, <1>8, StaysInTurn DEF TurnInv

\* In turn, a message that ends a transfer finds no session, or the file done.
LEMMA HandleFinishedStep ==
  ASSUME TurnInv, ~outOfTurn', HandleFinished
  PROVE  TurnInv'
<1>1. /\ manageQ \in Seq(TurnMessages) /\ manageQ # <<>> /\ Head(manageQ) = "FINISHED"
      /\ manageQ' = Tail(manageQ) /\ cdh' = cdh /\ task \in Tasks
      /\ task' = [task EXCEPT !.inTransfer = FALSE, !.resend = FALSE] /\ task.resend \in BOOLEAN
  BY DEF HandleFinished, Takes, TurnInv, TurnTypes, Tasks
<1>2. /\ task' \in Tasks /\ task'.current = task.current /\ task'.inTransfer = FALSE
      /\ task'.resend = FALSE /\ task'.stopSet = task.stopSet /\ task'.marking = task.marking
  BY <1>1 DEF Tasks
<1>3. Stays /\ callback' = callback
  BY <1>1, <1>2 DEF HandleFinished, Stays, counters
<1>4. TurnTypes'
  BY <1>1, <1>2, <1>3, MessageTaken, StaysInTurn DEF TurnInv, TurnTypes
<1>5. \A S : Holds(manageQ, S) <=> Holds(manageQ', S) \/ "FINISHED" \in S
  BY <1>1, MessageTaken
<1>6. ~CurrentAtCdh
  BY DEF HandleFinished
<1>7. cdh.requests = {} /\ (InHands => ~Connected)
  <2>1. CurrentSent => CurrentIsSent
    BY DEF CurrentSent, CurrentIsSent, With, Present
  <2>2. QED
    BY <1>6, <2>1 DEF CurrentAtCdh, TurnInv, OneRequest, InHands
<1>8. InHands => cdh.session = "broken" \/ Holds(manageQ', {"REOPEN"})
  <2>1. Reopens(manageQ, task.resend) => Holds(manageQ, {"REOPEN"})
    BY DEF Reopens, Holds
  <2>2. QED
    BY <1>5, <1>7, <2>1 DEF TurnInv, Session, Connected, TurnTypes, CdhStates
<1>9. Carried'
  <2>1. Holds(manageQ', {"REOPEN"}) => Holds(manageQ', {"RETRY", "REOPEN", "REATTACH", "RESEND"})
    BY DEF Holds
  <2>2. QED
    BY <1>1, <1>3, <1>8, <2>1, StaysInTurn DEF TurnInv, Carried
<1>10. OneRequest'
  BY <1>1, <1>7 DEF OneRequest
<1>11. RetryKnown'
  <2>1. Retrying' => Holds(manageQ, {"RETRY"})
    BY <1>2, <1>5 DEF Retrying
  <2>2. QED
    BY <1>1, <1>2, <1>7, <2>1 DEF TurnInv, RetryKnown, Retrying, Connected
<1>12. Session'
  <2>1. Reopens(manageQ, task.resend) => Reopens(manageQ', FALSE)
    BY <1>1, MessageTaken
  <2>2. QED
    BY <1>1, <1>2, <1>5, <2>1 DEF TurnInv, Session
<1>13. QED
  BY <1>3, <1>4, <1>9, <1>10, <1>11, <1>12, StaysInTurn DEF TurnInv

\* close and open: when the session is open again no retry is left.
LEMMA HandleReopenStep ==
  ASSUME TurnInv, HandleReopen
  PROVE  TurnInv'
<1> DEFINE t == Tail(manageQ)
<1>1. /\ manageQ \in Seq(TurnMessages) /\ manageQ # <<>> /\ Head(manageQ) = "REOPEN"
      /\ manageQ' = Append(t, NextTry) /\ NextTry \in TurnMessages
      /\ NextTry = (IF cdh.up THEN "REATTACH" ELSE "REOPEN")
      /\ cdh \in CdhStates /\ task' = task /\ task.resend \in BOOLEAN
      /\ cdh' = [cdh EXCEPT !.session = IF cdh.up THEN "open" ELSE "closed"]
  BY DEF HandleReopen, NextTry, Takes, TurnInv, TurnTypes, TurnMessages, Tasks
<1>2. /\ cdh' \in CdhStates /\ cdh'.session = (IF cdh.up THEN "open" ELSE "closed")
      /\ cdh'.up = cdh.up /\ cdh'.requests = cdh.requests /\ cdh'.tasks = cdh.tasks
      /\ cdh'.sent = cdh.sent /\ cdh'.written = cdh.written
  BY <1>1 DEF CdhStates
<1>3. Stays /\ callback' = callback
  BY <1>1, <1>2 DEF HandleReopen, Stays, counters, history
<1>4. t \in Seq(TurnMessages) /\ \A S : Holds(manageQ, S) <=> Holds(t, S) \/ "REOPEN" \in S
  <2>1. t \in Seq(TurnMessages)
        /\ \A S : Holds(manageQ, S) <=> Holds(t, S) \/ Head(manageQ) \in S
    BY <1>1, MessageTaken
  <2>2. Head(manageQ) = "REOPEN"
    BY <1>1
  <2> HIDE DEF t
  <2>3. QED
    BY <2>1, <2>2
<1>5. Holds(manageQ, {"REOPEN"})
  BY <1>4
<1>6. cdh.session = "closed" /\ cdh.requests = {}
  BY <1>5 DEF TurnInv, Session, OneRequest, Connected
<1>7. ~task.resend /\ ~Holds(manageQ, {"RETRY"}) /\ ~Holds(t, {"REOPEN"})
  <2>1. Reopens(manageQ, task.resend)
    BY <1>6 DEF TurnInv, Session
  <2>2. QED
    BY <1>1, <2>1, MessageTaken
<1> HIDE DEF t
<1>8. /\ manageQ' \in Seq(TurnMessages)
      /\ \A S : Holds(manageQ', S) <=> Holds(t, S) \/ NextTry \in S
  BY <1>1, <1>4, MessageAppended
<1>9. TurnTypes'
  BY <1>1, <1>2, <1>3, <1>8, StaysInTurn DEF TurnInv, TurnTypes
<1>10. ~Retrying'
  BY <1>1, <1>4, <1>7, <1>8 DEF Retrying
<1>11. Carried' /\ OneRequest' /\ RetryKnown'
  BY <1>1, <1>2, <1>3, <1>6, <1>8, <1>10, StaysInTurn
     DEF TurnInv, Carried, OneRequest, RetryKnown
<1>12. Session'
  <2>1. CASE cdh.up
    BY <1>1, <1>2, <1>7, <1>8, <2>1 DEF Session
  <2>2. CASE ~cdh.up
    <3> DEFINE k == Len(t) + 1
    <3>1. /\ k \in DOMAIN manageQ' /\ manageQ'[k] = "REOPEN"
          /\ \A i \in DOMAIN manageQ' : i = k \/ (i \in DOMAIN t /\ manageQ'[i] = t[i])
      BY <1>1, <1>4, <2>2, AppendProperties
    <3>2. \A i \in DOMAIN manageQ' : manageQ'[i] = "REOPEN" => i = k
      BY <1>7, <3>1 DEF Holds
    <3>3. ~(task'.resend \/ Holds(manageQ', {"RETRY"}))
      BY <1>10 DEF Retrying
    <3>4. Reopens(manageQ', task'.resend)
      BY <3>1, <3>2, <3>3 DEF Reopens
    <3>5. QED
      BY <1>2, <2>2, <3>4 DEF Session
  <2>3. QED
    BY <2>1, <2>2
<1>13. QED
  BY <1>3, <1>9, <1>11, <1>12, StaysInTurn DEF TurnInv

LEMMA HandleReattachStep ==
  ASSUME TurnInv, HandleReattach
  PROVE  TurnInv'
<1> DEFINE t == Tail(manageQ)
           m == IF Connected THEN "RESEND" ELSE "REATTACH"
<1>1. /\ manageQ \in Seq(TurnMessages) /\ manageQ # <<>> /\ Head(manageQ) = "REATTACH"
      /\ manageQ' = Append(t, m) /\ cdh' = cdh /\ task' = task /\ task.resend \in BOOLEAN
  BY DEF HandleReattach, Takes, TurnInv, TurnTypes, Tasks
<1>2. Stays /\ callback' = callback
  BY <1>1 DEF HandleReattach, Stays, counters, history
<1>3. m \in {"RESEND", "REATTACH"} /\ m \in TurnMessages
  BY DEF TurnMessages
<1>4. /\ t \in Seq(TurnMessages)
      /\ \A S : Holds(manageQ, S) <=> Holds(t, S) \/ "REATTACH" \in S
      /\ \A j \in DOMAIN manageQ : Settles(manageQ, j) => \E i \in DOMAIN t : Settles(t, i)
      /\ Reopens(manageQ, task.resend) => Reopens(t, task.resend)
  <2>1. /\ t \in Seq(TurnMessages)
        /\ \A S : Holds(manageQ, S) <=> Holds(t, S) \/ Head(manageQ) \in S
    BY <1>1, MessageTaken
  <2>2. \A j \in DOMAIN manageQ : Settles(manageQ, j) => \E i \in DOMAIN t : Settles(t, i)
    BY <1>1, MessageTaken
  <2>3. Reopens(manageQ, task.resend) => Reopens(t, task.resend)
    BY <1>1, MessageTaken
  <2>4. QED
    BY <1>1, <2>1, <2>2, <2>3
<1> HIDE DEF t, m
<1>5. /\ manageQ' \in Seq(TurnMessages)
      /\ \A S : Holds(manageQ', S) <=> Holds(t, S) \/ m \in S
      /\ \A j \in DOMAIN t : Settles(t, j) => \E i \in DOMAIN manageQ' : Settles(manageQ', i)
      /\ Reopens(t, task.resend) => Reopens(manageQ', task.resend)
  BY <1>1, <1>3, <1>4, MessageAppended
<1>6. TurnTypes'
  BY <1>1, <1>2, <1>5, StaysInTurn DEF TurnInv, TurnTypes
<1>7. Retrying' <=> Retrying
  BY <1>1, <1>3, <1>4, <1>5 DEF Retrying
<1>8. Carried'
  BY <1>2, <1>3, <1>5, StaysInTurn DEF TurnInv, Carried
<1>9. OneRequest' /\ RetryKnown'
  BY <1>1, <1>2, <1>4, <1>5, <1>7, StaysInTurn DEF TurnInv, OneRequest, RetryKnown, Connected
<1>10. Session'
  BY <1>1, <1>3, <1>4, <1>5 DEF TurnInv, Session
<1>11. QED
  BY <1>2, <1>6, <1>8, <1>9, <1>10, StaysInTurn DEF TurnInv

LEMMA CdhRestartStep ==
  ASSUME TurnInv, CdhRestart
  PROVE  TurnInv'
<1>1. /\ cdh \in CdhStates /\ ~cdh.up /\ cdh' = [cdh EXCEPT !.up = TRUE]
      /\ UNCHANGED <<tq, task, manageQ, callback>>
  BY DEF CdhRestart, TurnInv, TurnTypes
<1>2. /\ cdh' \in CdhStates /\ cdh'.session = cdh.session /\ cdh'.up
      /\ cdh'.requests = cdh.requests /\ cdh'.tasks = cdh.tasks
      /\ cdh'.sent = cdh.sent /\ cdh'.written = cdh.written
  BY <1>1 DEF CdhStates
<1>3. Stays
  BY <1>1, <1>2 DEF CdhRestart, Stays, counters, history
<1>4. ~Connected /\ ~Connected'
  BY <1>1, <1>2 DEF TurnInv, Session, Connected
<1>5. TurnTypes'
  BY <1>1, <1>2, <1>3, StaysInTurn DEF TurnInv, TurnTypes
<1>6. Carried' /\ OneRequest' /\ RetryKnown' /\ Session'
  BY <1>1, <1>2, <1>3, <1>4, StaysInTurn
     DEF TurnInv, Carried, OneRequest, RetryKnown, Session, Retrying, Holds, Reopens, Settles
<1>7. QED
  BY <1>3, <1>5, <1>6, StaysInTurn DEF TurnInv

-----------------------------------------------------------------------------
(* The file under way is finished, sent or taken over by a restart.        *)

\* CDH's answer or the lack of a session finishes the file f; the next one
\* is queued for the thread.
LEMMA Concluded ==
  ASSUME TurnInv, NEW q, QueueOk(q), q.toSend = <<>>, q.status = tq.status,
         NEW f \in With(q, "SEND"), NEW state \in {"DELETE", "FAILED"},
         tq' \in Finished(q, f, state),
         cdh'.requests = {}, AtCdh' \subseteq AtCdh, Recorded',
         reported' = reported, unsure' = unsure,
         \A g \in Files : g # f => delivered'[g] = delivered[g],
         delivered'[f] \in Nat, delivered'[f] >= delivered[f],
         state = "DELETE" => delivered'[f] > 0,
         f \notin unsure => /\ delivered'[f] <= 1
                            /\ f \in AtCdh' => delivered'[f] = 0
  PROVE  QueueOk(tq)' /\ Carried' /\ ~InHands' /\ OneRequest' /\ Fresh' /\ History'
<1>1. QueueOk(tq') /\ (NoneSent(q, tq', f, state) \/ NextSent(q, tq', f, state))
  BY FinishedSendsOldest
<1>2. /\ f \in Files /\ q.status \in [Files -> States] /\ q.status[f] = "SEND"
      /\ \A g \in Files : q.status[g] = "SEND" => g = f
  BY DEF QueueOk, Queues, Rotation, With
<1>3. \/ /\ tq'.toSend = <<>> /\ tq'.status[f] = state
         /\ \A g \in Files : g # f => tq'.status[g] = tq.status[g]
      \/ \E g \in Files :
            /\ g # f /\ tq.status[g] = "READY" /\ tq'.status[g] = "SEND"
            /\ tq'.toSend = <<[f |-> g, again |-> FALSE]>> /\ tq'.status[f] = state
            /\ \A h \in Files : h \notin {f, g} => tq'.status[h] = tq.status[h]
  <2>1. CASE NoneSent(q, tq', f, state)
    BY <1>2, <2>1 DEF NoneSent
  <2>2. CASE NextSent(q, tq', f, state)
    <3>1. PICK g \in With(q, "READY") :
            /\ tq'.status = [[q.status EXCEPT ![f] = state] EXCEPT ![g] = "SEND"]
            /\ tq'.toSend = <<[f |-> g, again |-> FALSE]>>
      BY <2>2 DEF NextSent
    <3>2. g \in Files /\ q.status[g] = "READY" /\ g # f
      BY <1>2 DEF With
    <3>3. tq'.status[g] = "SEND" /\ tq'.status[f] = state
      BY <1>2, <3>1, <3>2
    <3>4. \A h \in Files : h \notin {f, g} => tq'.status[h] = tq.status[h]
      BY <1>2, <3>1, <3>2
    <3>5. QED
      BY <3>1, <3>2, <3>3, <3>4
  <2>3. QED
    BY <1>1, <2>1, <2>2
<1>4. \/ tq'.toSend = <<>> /\ With(tq', "SEND") = {}
      \/ \E g \in Files : /\ tq'.toSend = <<[f |-> g, again |-> FALSE]>>
                          /\ With(tq', "SEND") = {g}
  <2>1. CASE /\ tq'.toSend = <<>> /\ tq'.status[f] = state
             /\ \A g \in Files : g # f => tq'.status[g] = tq.status[g]
    BY <1>2, <2>1 DEF With
  <2>2. CASE \E g \in Files :
               /\ g # f /\ tq.status[g] = "READY" /\ tq'.status[g] = "SEND"
               /\ tq'.toSend = <<[f |-> g, again |-> FALSE]>> /\ tq'.status[f] = state
               /\ \A h \in Files : h \notin {f, g} => tq'.status[h] = tq.status[h]
    <3>1. PICK g \in Files :
               /\ g # f /\ tq.status[g] = "READY" /\ tq'.status[g] = "SEND"
               /\ tq'.toSend = <<[f |-> g, again |-> FALSE]>> /\ tq'.status[f] = state
               /\ \A h \in Files : h \notin {f, g} => tq'.status[h] = tq.status[h]
      BY <2>2
    <3>2. \A h \in Files : tq'.status[h] = "SEND" <=> h = g
      BY <1>2, <3>1
    <3>3. QED
      BY <3>1, <3>2 DEF With
  <2>3. QED
    BY <1>3, <2>1, <2>2
<1>5. ~InHands'
  <2>1. \A x : <<x>> # <<>>
    OBVIOUS
  <2>2. QED
    BY <1>4, <2>1 DEF InHands, CurrentSent
<1>6. Carried'
  <2>1. ASSUME NEW g \in With(tq', "SEND") PROVE Carrier'.f = g
    <3>1. PICK h \in Files : tq'.toSend = <<[f |-> h, again |-> FALSE]>> /\ With(tq', "SEND") = {h}
      BY <1>4, <2>1
    <3>2. tq'.toSend # <<>> /\ Head(tq'.toSend) = [f |-> h, again |-> FALSE]
      BY <3>1
    <3>3. QED
      BY <2>1, <3>1, <3>2 DEF Carrier
  <2>2. QED
    BY <1>5, <2>1 DEF Carried
<1>7. \A g \in Files : g # f => tq'.status[g] = tq.status[g]
                                \/ (tq.status[g] = "READY" /\ tq'.status[g] = "SEND")
  BY <1>3
<1>8. tq'.status[f] = state /\ tq.status[f] = "SEND"
  BY <1>2, <1>3
<1>9. Fresh'
  BY <1>2, <1>7, <1>8 DEF TurnInv, Fresh
<1>10. History'
  <2>1. ASSUME NEW g \in With(tq', "DELETE") PROVE delivered'[g] > 0
    <3>1. CASE g = f
      BY <1>8, <2>1, <3>1 DEF With
    <3>2. CASE g # f
      BY <1>7, <2>1, <3>2 DEF TurnInv, History, With
    <3>3. QED
      BY <3>1, <3>2
  <2>2. ASSUME NEW g \in Files \ unsure
        PROVE  Known(g)'
    <3>1. CASE g = f
      <4>1. tq'.status[g] \notin {"READY", "SEND"}
        BY <1>8, <3>1
      <4>2. delivered'[g] <= 1 /\ (g \in AtCdh' => delivered'[g] = 0)
        BY <2>2, <3>1
      <4>3. QED
        BY <4>1, <4>2 DEF Known
    <3>2. CASE g # f
      <4>1. Known(g) /\ delivered'[g] = delivered[g] /\ tq.status[g] # "SEND"
        BY <1>2, <2>2, <3>2 DEF TurnInv, History
      <4>2. tq'.status[g] \in {"READY", "SEND"} => delivered[g] <= 0 /\ g \notin AtCdh
        <5>1. delivered[g] \in Nat
          BY <2>2 DEF TurnInv, TurnTypes
        <5>2. QED
          BY <1>7, <3>2, <4>1, <5>1 DEF Known
      <4>3. delivered[g] <= 1 /\ (g \in AtCdh => delivered[g] = 0) /\ delivered[g] \in Nat
        BY <2>2, <4>1 DEF Known, TurnInv, TurnTypes
      <4>4. g \in AtCdh' => g \in AtCdh
        OBVIOUS
      <4>5. Orphans' \subseteq AtCdh'
        BY DEF Orphans
      <4>6. QED
        BY <4>1, <4>2, <4>3, <4>4, <4>5 DEF Known
    <3>3. QED
      BY <3>1, <3>2
  <2>3. QED
    BY <2>1, <2>2 DEF History
<1>11. OneRequest'
  BY DEF OneRequest
<1>12. QED
  BY <1>1, <1>5, <1>6, <1>9, <1>10, <1>11

\* CDH answers a request: it is the one for the file under way, and its task
\* is CDH's last.
LEMMA AnswersInTurn ==
  ASSUME TurnInv, NEW r \in cdh.requests, NEW ok \in BOOLEAN, Answers(r, ok)
  PROVE  /\ cdh' \in CdhStates /\ cdh'.requests = {}
         /\ cdh'.up = cdh.up /\ cdh'.session = cdh.session
         /\ Distinct(cdh'.tasks) /\ AtCdh' \subseteq AtCdh
         /\ r.kind = "task" => /\ r.f \in AtCdh /\ cdh'.tasks = <<>> /\ AtCdh' = {}
                               /\ cdh'.sent = (IF ok THEN r.f ELSE None)
                               /\ cdh'.written = (IF ok THEN r.f ELSE cdh.written)
         /\ r.kind # "task" =>
              cdh'.tasks = cdh.tasks /\ cdh'.sent = cdh.sent /\ cdh'.written = cdh.written
<1>1. /\ cdh \in CdhStates /\ cdh.tasks \in Seq(Files) /\ cdh.requests = {r}
      /\ Distinct(cdh.tasks) /\ (r.kind = "task" => IsLast(cdh.tasks, r.f))
  BY DEF TurnInv, TurnTypes, CdhStates, OneRequest, History, Recorded
<1>2. /\ cdh' \in CdhStates /\ cdh'.requests = cdh.requests \ {r}
      /\ cdh'.up = cdh.up /\ cdh'.session = cdh.session
      /\ r.kind = "task" =>
           /\ cdh.tasks # <<>> /\ Head(cdh.tasks) = r.f /\ cdh'.tasks = Tail(cdh.tasks)
           /\ cdh'.sent = (IF ok THEN r.f ELSE None)
           /\ cdh'.written = (IF ok THEN r.f ELSE cdh.written)
      /\ r.kind # "task" =>
           cdh'.tasks = cdh.tasks /\ cdh'.sent = cdh.sent /\ cdh'.written = cdh.written
  BY <1>1, AnswersTyped
<1>3. CASE r.kind = "task"
  <2>1. /\ Head(cdh.tasks) \in ToSet(cdh.tasks) /\ Distinct(Tail(cdh.tasks))
        /\ Tail(cdh.tasks) = <<>>
    BY <1>1, <1>2, <1>3, TaskTaken
  <2>2. ToSet(<<>>) = {}
    BY DEF ToSet
  <2>3. QED
    BY <1>1, <1>2, <1>3, <2>1, <2>2 DEF AtCdh
<1>4. CASE r.kind # "task"
  BY <1>1, <1>2, <1>4 DEF AtCdh
<1>5. QED
  BY <1>3, <1>4

LEMMA AnsweredStep ==
  ASSUME TurnInv, NEW r \in cdh.requests, NEW state \in {"DELETE", "FAILED"},
         NEW ok \in BOOLEAN, Answers(r, ok), Answered(state),
         \/ /\ delivered' = delivered
            /\ state = "DELETE" => r.kind = "sent"
            /\ r.kind = "task" => ~ok
         \/ r.kind = "task" /\ delivered' = [delivered EXCEPT ![r.f] = @ + 1]
  PROVE  TurnInv'
<1> DEFINE f == task.current.f
<1>1. /\ r.f = f /\ f \in With(tq, "SEND") /\ tq.toSend = <<>> /\ cdh.requests = {r}
      /\ ~Retrying /\ Connected
  BY DEF TurnInv, OneRequest, InHands, CurrentSent
<1>2. /\ f \in Files /\ cdh \in CdhStates /\ delivered \in [Files -> Nat] /\ QueueOk(tq)
  BY <1>1 DEF TurnInv, TurnTypes, With
<1>3. /\ tq' \in Finished(tq, f, state)
      /\ callback' = "finish"
      /\ UNCHANGED <<task, manageQ, reported, events, unsure>>
  BY DEF Answered, counters
<1>4. /\ cdh'.requests = {} /\ cdh' \in CdhStates
      /\ cdh'.session = cdh.session /\ cdh'.up = cdh.up
      /\ Distinct(cdh'.tasks) /\ AtCdh' \subseteq AtCdh
      /\ r.kind = "task" => /\ r.f \in AtCdh /\ AtCdh' = {}
                            /\ cdh'.sent = (IF ok THEN r.f ELSE None)
                            /\ cdh'.written = (IF ok THEN r.f ELSE cdh.written)
      /\ r.kind # "task" => cdh'.sent = cdh.sent /\ cdh'.written = cdh.written
  BY AnswersInTurn
<1> HIDE DEF f
<1>5. /\ \A g \in Files : g # f => delivered'[g] = delivered[g]
      /\ delivered' \in [Files -> Nat] /\ delivered'[f] \in Nat /\ delivered'[f] >= delivered[f]
      /\ r.kind = "task" => delivered'[f] <= delivered[f] + 1
      /\ r.kind = "sent" => delivered'[f] = delivered[f]
      /\ r.kind # "task" => delivered'[f] = delivered[f]
  BY <1>1, <1>2
<1>6. state = "DELETE" => delivered'[f] > 0
  <2>1. r.kind = "sent" => delivered[f] > 0
    BY <1>1 DEF TurnInv, History
  <2>2. CASE delivered' = delivered /\ (state = "DELETE" => r.kind = "sent")
    BY <1>2, <2>1, <2>2
  <2>3. CASE delivered' = [delivered EXCEPT ![r.f] = @ + 1]
    BY <1>1, <1>2, <2>3
  <2>4. QED
    BY <2>2, <2>3
<1>7. ASSUME f \notin unsure
      PROVE  delivered'[f] <= 1 /\ (f \in AtCdh' => delivered'[f] = 0)
  <2>1. delivered[f] <= 1 /\ (f \in AtCdh => delivered[f] = 0) /\ delivered[f] \in Nat
    BY <1>2, <1>7 DEF TurnInv, History, Known
  <2>2. CASE r.kind = "task"
    BY <1>1, <1>4, <1>5, <2>1, <2>2
  <2>3. CASE r.kind # "task"
    BY <1>4, <1>5, <2>1, <2>3
  <2>4. QED
    BY <2>2, <2>3
<1>8. Recorded'
  <2>1. /\ cdh.sent # None => delivered[cdh.sent] > 0
        /\ cdh.written # None => delivered[cdh.written] > 0
        /\ cdh.sent \in Files \cup {None} /\ cdh.written \in Files \cup {None}
    BY <1>2 DEF TurnInv, History, Recorded, CdhStates
  <2>2. \A g \in Files : delivered[g] > 0 => delivered'[g] > 0
    BY <1>2, <1>5
  <2>3. CASE r.kind = "task"
    <3>1. ok => delivered'[r.f] > 0
      BY <1>1, <1>2, <2>3
    <3>2. QED
      BY <1>4, <2>1, <2>2, <2>3, <3>1 DEF Recorded
  <2>4. CASE r.kind # "task"
    BY <1>4, <2>1, <2>2, <2>4 DEF Recorded
  <2>5. QED
    BY <2>3, <2>4
<1>9. QueueOk(tq)' /\ Carried' /\ ~InHands' /\ OneRequest' /\ Fresh' /\ History'
  BY <1>1, <1>2, <1>3, <1>4, <1>5, <1>6, <1>7, <1>8, Concluded
<1>10. TurnTypes'
  BY <1>3, <1>4, <1>5 DEF TurnInv, TurnTypes
<1>11. RetryKnown' /\ Session'
  BY <1>1, <1>3, <1>4 DEF TurnInv, RetryKnown, Session, Retrying, Holds, Reopens, Settles
<1>12. QED
  BY <1>9, <1>10, <1>11 DEF TurnInv

LEMMA EventOkStep ==
  ASSUME TurnInv, NEW r \in cdh.requests, EventOk(r)
  PROVE  TurnInv'
<1>1. Answers(r, TRUE) /\ Answered("DELETE") /\ r.kind \in {"task", "sent"}
  BY DEF EventOk, TurnInv, TurnTypes, CdhStates, Requests
<1>2. delivered \in [Files -> Nat]
  BY DEF TurnInv, TurnTypes
<1>3. CASE r.kind = "task"
  <2>1. delivered' = [delivered EXCEPT ![r.f] = @ + 1]
    BY <1>3 DEF EventOk
  <2>2. QED
    BY <1>1, <1>3, <2>1, AnsweredStep
<1>4. CASE r.kind = "sent"
  <2>1. delivered' = delivered
    BY <1>2, <1>4 DEF EventOk
  <2>2. QED
    BY <1>1, <1>4, <2>1, AnsweredStep
<1>5. QED
  BY <1>1, <1>3, <1>4

LEMMA EventFailedStep ==
  ASSUME TurnInv, NEW r \in cdh.requests, EventFailed(r)
  PROVE  TurnInv'
<1>1. Answers(r, FALSE) /\ Answered("FAILED") /\ delivered' = delivered
  BY DEF EventFailed, ErrorState
<1>2. QED
  BY <1>1, AnsweredStep

LEMMA EventRetryStep ==
  ASSUME TurnInv, NEW r \in cdh.requests, EventRetry(r)
  PROVE  TurnInv'
<1>1. /\ InHands /\ Connected /\ task.inTransfer /\ ~Retrying /\ cdh.requests = {r}
      /\ cdh \in CdhStates /\ task \in Tasks /\ task.retries < SendRetries
      /\ manageQ \in Seq(TurnMessages) /\ "RETRY" \in TurnMessages
  BY DEF TurnInv, OneRequest, TurnTypes, EventRetry, TurnMessages
<1>2. /\ manageQ' = Append(manageQ, "RETRY") /\ r.kind = "task" /\ Answers(r, FALSE)
      /\ task' = [task EXCEPT !.retries = @ + 1]
      /\ UNCHANGED <<tq, callback, reported, events, delivered, unsure>>
  BY DEF EventRetry, counters, history
<1>3. /\ task' \in Tasks /\ task'.current = task.current /\ task'.inTransfer
      /\ task'.resend = task.resend /\ task'.stopSet = task.stopSet
      /\ task'.marking = task.marking
  BY <1>1, <1>2, BoundsAssumption, SMTT(30) DEF Tasks
<1>4. /\ cdh' \in CdhStates /\ cdh'.requests = {} /\ AtCdh' = {} /\ r.f \in AtCdh
      /\ cdh'.session = cdh.session /\ cdh'.up = cdh.up
      /\ Distinct(cdh'.tasks) /\ cdh'.tasks = <<>>
      /\ cdh'.sent = None /\ cdh'.written = cdh.written
  BY <1>2, AnswersInTurn
<1>5. /\ manageQ' \in Seq(TurnMessages)
      /\ \A S : Holds(manageQ', S) <=> Holds(manageQ, S) \/ "RETRY" \in S
  BY <1>1, <1>2, MessageAppended
<1>6. TurnTypes'
  BY <1>2, <1>3, <1>4, <1>5 DEF TurnInv, TurnTypes
<1>7. Carrier' = Carrier /\ InHands' /\ Connected'
  BY <1>1, <1>2, <1>3, <1>4 DEF Carrier, InHands, CurrentSent, Connected
<1>8. Carried' /\ OneRequest' /\ RetryKnown'
  BY <1>2, <1>3, <1>4, <1>5, <1>7 DEF TurnInv, Carried, OneRequest, RetryKnown
<1>9. Session'
  BY <1>1, <1>2, <1>4, <1>5 DEF TurnInv, Session, Connected
<1>10. QueueOk(tq)' /\ Fresh'
  BY <1>2, <1>4 DEF TurnInv, Fresh
<1>11. History'
  <2>1. Recorded'
    BY <1>2, <1>4 DEF TurnInv, History, Recorded
  <2>2. ASSUME NEW f \in Files \ unsure
        PROVE  Known(f)'
    <3>1. Known(f) /\ Orphans' = {} /\ delivered[f] \in Nat
      BY <1>4, <2>2 DEF TurnInv, TurnTypes, History, Orphans
    <3>2. tq.status[f] = "SEND" => delivered[f] = 0
      <4>1. tq.status[f] = "SEND" => f = r.f
        BY <1>1 DEF TurnInv, Carried, OneRequest, InHands, Carrier, With
      <4>2. QED
        BY <1>4, <3>1, <4>1 DEF Known
    <3>3. QED
      BY <1>2, <1>4, <3>1, <3>2 DEF Known
  <2>3. QED
    BY <1>2, <1>4, <2>1, <2>2 DEF TurnInv, History
<1>12. QED
  BY <1>6, <1>8, <1>9, <1>10, <1>11 DEF TurnInv

\* The file in the hands of a reconnection is queued first.  In turn nothing
\* else is queued, and it was not in transfer any more.
LEMMA HandleResendStep ==
  ASSUME TurnInv, ~outOfTurn', HandleResend
  PROVE  TurnInv'
<1>1. /\ manageQ \in Seq(TurnMessages) /\ manageQ # <<>> /\ Head(manageQ) = "RESEND"
      /\ manageQ' = Tail(manageQ) /\ cdh' = cdh /\ task' = task /\ callback' = callback
      /\ UNCHANGED <<reported, events, delivered, unsure>>
      /\ ~task.inTransfer /\ task.resend \in BOOLEAN /\ task.current \in Item
      /\ \A i \in DOMAIN tq.toSend : tq.toSend[i].f # task.current.f
      /\ QueueOk(tq)
  BY DEF HandleResend, Takes, TurnInv, TurnTypes, Tasks, counters
<1>2. cdh.requests = {}
  BY <1>1 DEF TurnInv, OneRequest
<1>3. /\ manageQ' \in Seq(TurnMessages)
      /\ \A S : Holds(manageQ, S) <=> Holds(manageQ', S) \/ "RESEND" \in S
      /\ Reopens(manageQ, task.resend) => Reopens(manageQ', task.resend)
  <2>1. /\ Tail(manageQ) \in Seq(TurnMessages)
        /\ \A S : Holds(manageQ, S) <=> Holds(Tail(manageQ), S) \/ Head(manageQ) \in S
    BY <1>1, MessageTaken
  <2>2. Reopens(manageQ, task.resend) => Reopens(Tail(manageQ), task.resend)
    BY <1>1, MessageTaken
  <2>3. QED
    BY <1>1, <2>1, <2>2
<1>4. TurnTypes'
  BY <1>1, <1>3 DEF TurnInv, TurnTypes
<1>5. OneRequest'
  BY <1>1, <1>2 DEF OneRequest
<1>6. RetryKnown'
  <2>1. Retrying' => Retrying
    BY <1>1, <1>3 DEF Retrying
  <2>2. QED
    BY <1>1, <2>1 DEF TurnInv, RetryKnown, Connected
<1>7. Session'
  BY <1>1, <1>3 DEF TurnInv, Session
<1>8. CurrentIsSent <=> CurrentSent
  BY DEF CurrentIsSent, CurrentSent, With, Present
<1>9. CASE CurrentSent
  <2>1. tq.toSend = <<>>
    <3>1. ASSUME NEW item \in Item, tq.toSend = <<item>>, item.f \in With(tq, "SEND")
          PROVE  FALSE
      <4>1. item.f = task.current.f
        BY <1>1, <1>9, <3>1 DEF QueueOk, Rotation, CurrentSent
      <4>2. 1 \in DOMAIN tq.toSend /\ tq.toSend[1] = item
        BY <3>1
      <4>3. QED
        BY <1>1, <4>1, <4>2
    <3>2. QED
      BY <1>1, <3>1 DEF QueueOk, Rotation
  <2>2. /\ tq' \in Queues /\ tq'.toSend = <<task.current>> /\ tq'.older = tq.older
        /\ tq'.status = tq.status /\ tq'.last = tq.last /\ tq'.next = tq.next
        /\ tq'.transferFile = tq.transferFile
    <3>1. <<task.current>> \in Seq(Item) /\ <<task.current>> \o <<>> = <<task.current>>
      BY <1>1
    <3>2. tq' = [tq EXCEPT !.toSend = <<task.current>> \o @]
      BY <1>8, <1>9 DEF HandleResend, ResentFirst
    <3>3. QED
      BY <1>1, <2>1, <3>1, <3>2 DEF QueueOk, Queues
  <2>3. QueueOk(tq)'
    <3>1. Ordered(tq)' /\ \A state : With(tq', state) = With(tq, state)
      BY <1>1, <2>2 DEF QueueOk, Ordered, Older, Present, With
    <3>2. Rotation(tq)'
      BY <1>1, <1>9, <2>2, <3>1 DEF QueueOk, Rotation, CurrentSent, Older, Present
    <3>3. QED
      BY <2>2, <3>1, <3>2 DEF QueueOk
  <2>4. Carrier' = Carrier /\ ~InHands'
    <3>1. tq'.toSend # <<>> /\ Head(tq'.toSend) = task.current
      BY <2>2
    <3>2. QED
      BY <2>1, <3>1 DEF Carrier, InHands
  <2>5. Carried'
    BY <2>2, <2>4 DEF TurnInv, Carried, With
  <2>6. Fresh' /\ History'
    <3>1. AtCdh' = AtCdh /\ Orphans' = Orphans
      BY <1>1 DEF AtCdh, Orphans
    <3>2. Fresh' /\ Recorded'
      BY <1>1, <2>2, <3>1 DEF TurnInv, Fresh, History, Recorded
    <3>3. \A f \in Files \ unsure : Known(f) => Known(f)'
      BY <1>1, <2>2, <2>4, <3>1 DEF Known
    <3>4. QED
      BY <1>1, <2>2, <3>2, <3>3 DEF TurnInv, History, With
  <2>7. QED
    BY <1>4, <1>5, <1>6, <1>7, <2>3, <2>5, <2>6 DEF TurnInv
<1>10. CASE ~CurrentSent
  <2>1. tq' = tq
    BY <1>8, <1>10 DEF HandleResend, ResentFirst
  <2>2. Stays
    BY <1>1, <2>1 DEF Stays
  <2>3. Carried'
    BY <1>10, <2>2, StaysInTurn DEF Carried, InHands
  <2>4. QED
    BY <1>4, <1>5, <1>6, <1>7, <2>2, <2>3, StaysInTurn DEF TurnInv
<1>11. QED
  BY <1>9, <1>10

-----------------------------------------------------------------------------
(* CDH crashes, or finishes what a former AFP gave it.                     *)

LEMMA CdhCrashStep ==
  ASSUME TurnInv, NEW S \in SUBSET AtCdh, NEW line, CdhCrash(S, line)
  PROVE  TurnInv'
<1>1. /\ cdh \in CdhStates /\ cdh.up
      /\ cdh' = [up |-> FALSE,
                 session |-> IF cdh.session = "open" THEN "broken" ELSE cdh.session,
                 requests |-> {}, tasks |-> <<>>, sent |-> line, written |-> line]
      /\ UNCHANGED <<tq, task, manageQ, callback, reported>>
      /\ unsure' = unsure \cup AtCdh \cup ({cdh.sent} \ {line, None})
      /\ delivered \in [Files -> Nat]
      /\ delivered' = [f \in Files |-> delivered[f] + IF f \in S THEN 1 ELSE 0]
  BY DEF CdhCrash, Delivered, TurnInv, TurnTypes
<1>2. AtCdh \subseteq Files /\ Orphans \subseteq AtCdh /\ line \in {None, cdh.written} \cup S
      /\ cdh.sent \in Files \cup {None} /\ cdh.written \in Files \cup {None}
      /\ events' \in 0..MaxEvents /\ unsure' \subseteq Files
  <2>1. AtCdh \subseteq Files /\ Orphans \subseteq AtCdh
    BY <1>1, AtCdhTyped
  <2>2. line \in {None, cdh.written} \cup S /\ events' \in 0..MaxEvents
    BY BoundsAssumption DEF CdhCrash, Event, TurnInv, TurnTypes
  <2>3. cdh.sent \in Files \cup {None} /\ cdh.written \in Files \cup {None}
    BY <1>1 DEF CdhStates
  <2>4. QED
    BY <1>1, <2>1, <2>2, <2>3 DEF TurnInv, TurnTypes
<1>3. /\ cdh' \in CdhStates /\ cdh'.requests = {} /\ cdh'.tasks = <<>>
      /\ cdh'.sent = line /\ cdh'.written = line
      /\ cdh'.session = (IF cdh.session = "open" THEN "broken" ELSE cdh.session)
  <2>1. <<>> \in Seq(Files) /\ line \in Files \cup {None}
    BY <1>2, EmptySeq
  <2>2. QED
    BY <1>1, <2>1 DEF CdhStates
<1>4. /\ delivered' \in [Files -> Nat] /\ \A f \in Files : delivered'[f] >= delivered[f]
      /\ \A f \in Files \ AtCdh : delivered'[f] = delivered[f]
      /\ \A f \in S : delivered'[f] > 0
  BY <1>1, <1>2
<1>5. TurnTypes'
  BY <1>1, <1>2, <1>3, <1>4 DEF TurnInv, TurnTypes
<1>6. Carrier' = Carrier /\ (InHands' <=> InHands) /\ (Retrying' <=> Retrying)
  BY <1>1 DEF Carrier, InHands, CurrentSent, Retrying
<1>7. Carried'
  <2>1. cdh.requests # {} => cdh'.session = "broken"
    BY <1>3 DEF TurnInv, OneRequest, Connected
  <2>2. QED
    BY <1>1, <1>3, <1>6, <2>1 DEF TurnInv, Carried
<1>8. OneRequest'
  BY <1>3 DEF OneRequest
<1>9. RetryKnown'
  <2>1. Connected' => Connected
    BY <1>1, <1>3 DEF Connected
  <2>2. QED
    BY <1>1, <1>3, <1>6, <2>1 DEF TurnInv, RetryKnown
<1>10. Session'
  BY <1>1, <1>3 DEF TurnInv, Session, CdhStates
<1>11. AtCdh' = {} /\ Orphans' = {} /\ Distinct(cdh'.tasks)
  BY <1>3 DEF AtCdh, Orphans, ToSet, Distinct
<1>12. QueueOk(tq)' /\ Fresh'
  BY <1>1, <1>4, <1>11 DEF TurnInv, Fresh
<1>13. History'
  <2>1. \A f \in With(tq, "DELETE") : delivered'[f] > 0
    BY <1>1, <1>4 DEF TurnInv, History, With
  <2>2. line # None => delivered'[line] > 0
    <3>1. cdh.written # None => delivered[cdh.written] > 0
      BY DEF TurnInv, History, Recorded
    <3>2. cdh.written # None => delivered'[cdh.written] > 0
      BY <1>1, <1>2, <1>4, <3>1
    <3>3. QED
      BY <1>2, <1>4, <3>2
  <2>3. Recorded'
    BY <1>3, <1>11, <2>2 DEF Recorded
  <2>4. ASSUME NEW f \in Files \ unsure'
        PROVE  Known(f)'
    <3>1. /\ Known(f) /\ f \notin AtCdh /\ delivered'[f] = delivered[f]
          /\ cdh.sent = f => line = f
      BY <1>1, <1>4, <2>4 DEF TurnInv, History, None, Files
    <3>2. QED
      BY <1>1, <1>3, <1>6, <1>11, <3>1 DEF Known
  <2>5. QED
    BY <1>1, <1>3, <2>1, <2>3, <2>4 DEF History
<1>14. QED
  BY <1>5, <1>7, <1>8, <1>9, <1>10, <1>12, <1>13 DEF TurnInv

LEMMA OrphanDoneStep ==
  ASSUME TurnInv, NEW ok \in BOOLEAN, OrphanDone(ok)
  PROVE  TurnInv'
<1> DEFINE f == Head(cdh.tasks)
<1>1. /\ cdh \in CdhStates /\ cdh.tasks \in Seq(Files) /\ cdh.tasks # <<>>
      /\ cdh' = Done(cdh, ok) /\ f \in Orphans /\ Distinct(cdh.tasks)
      /\ UNCHANGED <<tq, task, manageQ, callback, reported, events, unsure>>
      /\ delivered \in [Files -> Nat]
      /\ delivered' = [g \in Files |-> delivered[g] + IF g \in IF ok THEN {f} ELSE {}
                                                     THEN 1 ELSE 0]
  BY DEF OrphanDone, Delivered, TurnInv, TurnTypes, CdhStates, counters, History, Recorded
<1>2. /\ cdh' \in CdhStates /\ cdh'.tasks = Tail(cdh.tasks) /\ cdh'.up = cdh.up
      /\ cdh'.session = cdh.session /\ cdh'.requests = cdh.requests
      /\ cdh'.sent = (IF ok THEN f ELSE None)
      /\ cdh'.written = (IF ok THEN f ELSE cdh.written)
  BY <1>1, DoneTyped
<1>3. /\ f \in Files /\ f \in AtCdh /\ AtCdh = AtCdh' \cup {f} /\ f \notin AtCdh'
      /\ Distinct(cdh'.tasks)
      /\ \A g : IsLast(cdh.tasks, g) =>
             IF g = f THEN cdh'.tasks = <<>> ELSE IsLast(cdh'.tasks, g)
  BY <1>1, <1>2, TaskTaken DEF AtCdh
<1> HIDE DEF f
<1>4. /\ delivered' \in [Files -> Nat] /\ \A g \in Files : delivered'[g] >= delivered[g]
      /\ delivered'[f] = delivered[f] + (IF ok THEN 1 ELSE 0)
      /\ \A g \in Files \ {f} : delivered'[g] = delivered[g]
  BY <1>1, <1>3
<1>5. TurnTypes'
  BY <1>1, <1>2, <1>4 DEF TurnInv, TurnTypes
<1>6. /\ Carrier' = Carrier /\ (InHands' <=> InHands) /\ (Retrying' <=> Retrying)
      /\ (Connected' <=> Connected)
  BY <1>1, <1>2 DEF Carrier, InHands, CurrentSent, Retrying, Connected
<1>7. Carried' /\ OneRequest' /\ RetryKnown' /\ Session'
  BY <1>1, <1>2, <1>6 DEF TurnInv, Carried, OneRequest, RetryKnown, Session
<1>8. QueueOk(tq)' /\ Fresh'
  BY <1>1, <1>3, <1>4 DEF TurnInv, Fresh
<1>9. Orphans' = Orphans \ {f} /\ Orphans \subseteq AtCdh
  BY <1>1, <1>2, <1>3 DEF Orphans
<1>10. Recorded'
  <2>1. ASSUME NEW r \in cdh.requests, r.kind = "task" PROVE IsLast(cdh'.tasks, r.f)
    <3>1. IsLast(cdh.tasks, r.f)
      BY <2>1 DEF TurnInv, History, Recorded
    <3>2. r.f # f
      BY <1>1, <2>1 DEF Orphans
    <3>3. QED
      BY <1>3, <3>1, <3>2
  <2>2. cdh'.sent # None => delivered'[cdh'.sent] > 0
    BY <1>1, <1>2, <1>3, <1>4
  <2>3. cdh'.written # None => delivered'[cdh'.written] > 0
    <3>1. /\ cdh.written # None => delivered[cdh.written] > 0
          /\ cdh.written \in Files \cup {None}
      BY <1>1 DEF TurnInv, History, Recorded, CdhStates
    <3>2. \A g \in Files : delivered[g] > 0 => delivered'[g] > 0
      BY <1>1, <1>4
    <3>3. ok => delivered'[f] > 0
      BY <1>1, <1>3, <1>4
    <3>4. QED
      BY <1>2, <3>1, <3>2, <3>3
  <2>4. QED
    BY <1>2, <1>3, <2>1, <2>2, <2>3 DEF Recorded
<1>11. History'
  <2>1. \A g \in With(tq, "DELETE") : delivered'[g] > 0
    BY <1>1, <1>4 DEF TurnInv, History, With
  <2>2. \A r \in cdh.requests : r.kind = "sent" => delivered'[r.f] > 0
    <3>1. \A r \in cdh.requests : r.f \in Files
      BY <1>1 DEF CdhStates, Requests
    <3>2. QED
      BY <1>1, <1>4, <3>1 DEF TurnInv, History
  <2>3. ASSUME NEW g \in Files \ unsure
        PROVE  Known(g)'
    <3>1. Known(g) /\ delivered[g] \in Nat
      BY <1>1, <2>3 DEF TurnInv, History
    <3>2. CASE g = f
      <4>1. delivered[g] = 0 /\ tq.status[g] # "READY"
            /\ (tq.status[g] = "SEND" => Carrier.again /\ IsLast(cdh.tasks, g))
        BY <1>1, <1>3, <3>1, <3>2 DEF Known
      <4>2. delivered'[g] = 0 \/ (delivered'[g] = 1 /\ cdh'.sent = g)
        BY <1>2, <1>4, <3>2, <4>1
      <4>3. tq.status[g] = "SEND" => cdh'.tasks = <<>>
        BY <1>3, <3>2, <4>1
      <4>4. QED
        BY <1>1, <1>3, <1>6, <3>2, <4>1, <4>2, <4>3 DEF Known
    <3>3. CASE g # f
      <4>1. delivered'[g] = delivered[g] /\ (g \in AtCdh' <=> g \in AtCdh)
            /\ (g \in Orphans' <=> g \in Orphans)
        BY <1>3, <1>4, <1>9, <2>3, <3>3
      <4>2. tq.status[g] = "SEND" => ~(delivered[g] > 0)
        BY <1>1, <3>1 DEF Known
      <4>3. tq.status[g] = "SEND" /\ g \in AtCdh => IsLast(cdh'.tasks, g)
        BY <1>3, <3>1, <3>3 DEF Known
      <4>4. QED
        BY <1>1, <1>6, <3>1, <4>1, <4>2, <4>3 DEF Known
    <3>4. QED
      BY <3>2, <3>3
  <2>4. QED
    BY <1>1, <1>2, <1>10, <2>1, <2>2, <2>3 DEF History
<1>12. QED
  BY <1>5, <1>7, <1>8, <1>11 DEF TurnInv

\* CDH takes the request for the file under way.
LEMMA Requested ==
  ASSUME TurnInv, Connected, cdh.requests = {}, ~Holds(manageQ, {"RETRY"}),
         NEW item \in Item, item = Carrier, item.f \in With(tq, "SEND"),
         cdh' = [cdh EXCEPT !.requests = @ \cup {[f |-> item.f, kind |-> Kind(item)]},
                            !.tasks = IF Kind(item) = "task" THEN Append(@, item.f) ELSE @],
         QueueOk(tq'), tq'.toSend = <<>>, tq'.status = tq.status,
         task' \in Tasks, ~task'.stopSet, ~task'.marking, task'.current = item,
         task'.inTransfer, ~task'.resend,
         UNCHANGED <<manageQ, callback, reported, events, delivered, unsure>>
  PROVE  TurnInv'
<1> DEFINE new == [f |-> item.f, kind |-> Kind(item)]
<1>1. /\ item.f \in Files /\ new \in Requests /\ new.f = item.f /\ new.kind = Kind(item)
      /\ cdh \in CdhStates /\ delivered \in [Files -> Nat]
  BY DEF With, Kind, Requests, TurnInv, TurnTypes
<1>2. cdh' = [cdh EXCEPT !.requests = {new},
                         !.tasks = IF new.kind = "task" THEN Append(@, item.f) ELSE @]
  OBVIOUS
<1> HIDE DEF new
<1>0. /\ cdh.tasks \in Seq(Files) /\ Distinct(cdh.tasks)
      /\ new.kind = "task" => /\ item.f \notin AtCdh
                              /\ item.again => cdh.sent # item.f
      /\ new.kind = "sent" => item.again /\ cdh.sent = item.f
  BY <1>1 DEF Kind, TurnInv, History, Recorded, CdhStates
<1>3. /\ cdh' \in CdhStates /\ cdh'.requests = {new} /\ cdh'.up = cdh.up
      /\ cdh'.session = cdh.session /\ cdh'.sent = cdh.sent /\ cdh'.written = cdh.written
      /\ Distinct(cdh'.tasks)
      /\ new.kind = "task" => AtCdh' = AtCdh \cup {item.f} /\ IsLast(cdh'.tasks, item.f)
      /\ new.kind # "task" => cdh'.tasks = cdh.tasks
  <2>1. CASE new.kind = "task"
    <3> DEFINE more == Append(cdh.tasks, item.f)
    <3>1. /\ more \in Seq(Files) /\ Distinct(more)
          /\ ToSet(more) = ToSet(cdh.tasks) \cup {item.f}
          /\ IsLast(more, item.f)
      BY <1>0, <1>1, <2>1, TaskAppended DEF AtCdh
    <3>2. cdh' = [cdh EXCEPT !.requests = {new}, !.tasks = more]
      BY <1>2, <2>1
    <3> HIDE DEF more
    <3>3. /\ cdh'.requests = {new} /\ cdh'.up = cdh.up
          /\ cdh'.session = cdh.session /\ cdh'.sent = cdh.sent /\ cdh'.written = cdh.written
          /\ cdh'.tasks = more
      BY <1>1, <3>2 DEF CdhStates
    <3>4. cdh' \in CdhStates
      <4>1. {new} \in SUBSET Requests
        BY <1>1
      <4>2. QED
        BY <1>1, <3>1, <3>2, <4>1 DEF CdhStates
    <3>5. QED
      BY <2>1, <3>1, <3>3, <3>4 DEF AtCdh
  <2>2. CASE new.kind # "task"
    <3>1. cdh'.tasks = cdh.tasks
      BY <1>1, <1>2, <2>2 DEF CdhStates
    <3>2. /\ cdh'.requests = {new} /\ cdh'.up = cdh.up
          /\ cdh'.session = cdh.session /\ cdh'.sent = cdh.sent /\ cdh'.written = cdh.written
      BY <1>1, <1>2 DEF CdhStates
    <3>3. cdh' \in CdhStates
      <4>1. {new} \in SUBSET Requests
        BY <1>1
      <4>2. cdh' = [cdh EXCEPT !.requests = {new}]
        BY <1>1, <1>2, <2>2 DEF CdhStates
      <4>3. QED
        BY <1>1, <4>1, <4>2 DEF CdhStates
    <3>4. QED
      BY <1>0, <2>2, <3>1, <3>2, <3>3
  <2>3. QED
    BY <2>1, <2>2
<1>4. TurnTypes'
  BY <1>3 DEF TurnInv, TurnTypes
<1>5. InHands' /\ Connected' /\ ~Retrying' /\ Carrier' = item
  BY <1>3 DEF InHands, CurrentSent, With, Connected, Retrying, Carrier, Holds
<1>6. Carried'
  BY <1>3, <1>5 DEF TurnInv, Carried, With
<1>7. OneRequest' /\ RetryKnown'
  BY <1>1, <1>3, <1>5 DEF OneRequest, RetryKnown
<1>8. Session'
  BY <1>3 DEF TurnInv, Session, Connected, Holds
<1>9. item.f <= reported /\ Fresh'
  <2>1. AtCdh' \subseteq AtCdh \cup {item.f}
    BY <1>3 DEF AtCdh
  <2>2. tq.status[item.f] = "SEND" /\ item.f \in Nat /\ reported \in Nat
    BY <1>1, BoundsAssumption DEF With, Files, TurnInv, TurnTypes
  <2>3. item.f <= reported
    BY <1>1, <2>2 DEF TurnInv, Fresh
  <2>4. \A f \in Files : f > reported => f # item.f
    BY <2>2, <2>3 DEF Files
  <2>5. QED
    BY <2>1, <2>3, <2>4 DEF TurnInv, Fresh
<1>10. History'
  <2>1. Recorded'
    BY <1>1, <1>3 DEF TurnInv, History, Recorded
  <2>2. new.kind = "sent" => delivered[item.f] > 0
    BY <1>0, <1>1 DEF TurnInv, History, Recorded, None, Files
  <2>3. ASSUME NEW f \in Files \ unsure
        PROVE  Known(f)'
    <3>1. Known(f) /\ tq'.status[f] = tq.status[f] /\ delivered[f] \in Nat
      BY <1>1, <2>3 DEF TurnInv, History
    <3>2. tq.status[f] = "SEND" => f = item.f /\ Carrier' = Carrier
      BY <1>5 DEF TurnInv, Carried, With
    <3>3. CASE new.kind = "task" /\ f = item.f
      <4>1. delivered[f] = 0
        BY <1>0, <3>1, <3>3 DEF Known, With
      <4>2. f \notin Orphans'
        BY <1>1, <1>3, <3>3 DEF Orphans
      <4>3. QED
        BY <1>3, <3>1, <3>3, <4>1, <4>2 DEF Known, With
    <3>4. CASE new.kind = "task" /\ f # item.f
      BY <1>3, <3>1, <3>2, <3>4 DEF Known
    <3>5. CASE new.kind # "task"
      <4>1. AtCdh' = AtCdh /\ Orphans \subseteq AtCdh /\ Orphans' \subseteq AtCdh
        BY <1>3, <3>5 DEF AtCdh, Orphans
      <4>2. f \in Orphans' => f \in Orphans
        BY <4>1 DEF Orphans
      <4>3. QED
        BY <1>3, <3>1, <3>2, <3>5, <4>1, <4>2 DEF Known
    <3>6. QED
      BY <3>3, <3>4, <3>5
  <2>4. \A f \in With(tq', "DELETE") : delivered[f] > 0
    BY DEF TurnInv, History, With
  <2>5. QED
    BY <1>1, <1>3, <2>1, <2>2, <2>3, <2>4 DEF TurnInv, History
<1>11. QED
  BY <1>4, <1>6, <1>7, <1>8, <1>9, <1>10 DEF TurnInv

\* Without a session the file has failed.
LEMMA Refused ==
  ASSUME TurnInv, ~Connected, NEW q, QueueOk(q), q.toSend = <<>>, q.status = tq.status,
         NEW f \in With(q, "SEND"), tq' \in Finished(q, f, "FAILED"),
         manageQ' = Append(manageQ, "FINISHED"),
         task' \in Tasks, ~task'.stopSet, ~task'.marking, ~task'.resend,
         task.resend => manageQ = <<>>,
         UNCHANGED <<cdh, callback, reported, events, delivered, unsure>>
  PROVE  TurnInv'
<1>1. manageQ \in Seq(TurnMessages) /\ "FINISHED" \in TurnMessages
      /\ task.resend \in BOOLEAN
  BY DEF TurnInv, TurnTypes, TurnMessages, Tasks
<1>2. /\ manageQ' \in Seq(TurnMessages)
      /\ \A S : Holds(manageQ', S) <=> Holds(manageQ, S) \/ "FINISHED" \in S
      /\ \E j \in DOMAIN manageQ' : Settles(manageQ', j)
      /\ Reopens(manageQ, FALSE) => Reopens(manageQ', FALSE)
  BY <1>1, MessageAppended
<1>3. TurnTypes'
  BY <1>2 DEF TurnInv, TurnTypes
<1>4. cdh'.requests = {}
  BY DEF TurnInv, OneRequest
<1>5. f \in Files /\ delivered \in [Files -> Nat]
  BY DEF With, TurnInv, TurnTypes
<1>6. QueueOk(tq)' /\ Carried' /\ ~InHands' /\ OneRequest' /\ Fresh' /\ History'
  <2>0. AtCdh' = AtCdh /\ Recorded'
    BY DEF AtCdh, TurnInv, History, Recorded
  <2>1. f \notin unsure => delivered'[f] <= 1 /\ (f \in AtCdh' => delivered'[f] = 0)
    BY <1>5, <2>0 DEF TurnInv, History, Known
  <2>2. delivered'[f] \in Nat /\ delivered'[f] >= delivered[f] /\ "FAILED" # "DELETE"
        /\ "FAILED" \in {"DELETE", "FAILED"} /\ AtCdh' \subseteq AtCdh
    BY <1>5, <2>0
  <2>3. \A g \in Files : g # f => delivered'[g] = delivered[g]
    OBVIOUS
  <2>4. QED
    BY <1>4, <2>0, <2>1, <2>2, <2>3, Concluded
<1>7. RetryKnown'
  BY <1>2 DEF RetryKnown, Connected
<1>8. Session'
  <2>1. Reopens(manageQ, task.resend) => ~task.resend
    <3>1. manageQ = <<>> => DOMAIN manageQ = {}
      OBVIOUS
    <3>2. QED
      BY <3>1 DEF Reopens
  <2>2. task'.resend = FALSE /\ (task.resend = TRUE \/ task.resend = FALSE)
    BY <1>1 DEF Tasks
  <2>3. Reopens(manageQ, task.resend) => Reopens(manageQ', task'.resend)
    BY <1>2, <2>1, <2>2
  <2>4. QED
    BY <1>2, <2>3 DEF TurnInv, Session
<1>9. QED
  BY <1>3, <1>6, <1>7, <1>8 DEF TurnInv

\* The only file queued is the one in SEND.
Taken == [tq EXCEPT !.toSend = Tail(@),
                    !.status = IF Present(tq, Head(tq.toSend).f) /\ ~task.stopSet
                               THEN [@ EXCEPT ![Head(tq.toSend).f] = "SEND"] ELSE @]
LEMMA TakenInTurn ==
  ASSUME TurnInv, tq.toSend # <<>>, NEW item, item = Head(tq.toSend)
  PROVE  /\ item \in Item /\ Carrier = item /\ item.f \in With(Taken, "SEND")
         /\ QueueOk(Taken) /\ Taken.toSend = <<>> /\ Taken.status = tq.status
         /\ Taken.older = tq.older /\ With(Taken, "SEND") = With(tq, "SEND")
<1>1. QueueOk(tq) /\ task.stopSet = FALSE
  BY DEF TurnInv, TurnTypes, Tasks
<1>2. item \in Item /\ item.f \in With(tq, "SEND") /\ Tail(tq.toSend) = <<>> /\ Carrier = item
  <2>1. PICK x \in Item : tq.toSend = <<x>> /\ x.f \in With(tq, "SEND")
    BY <1>1 DEF QueueOk, Rotation
  <2>2. Head(<<x>>) = x /\ Tail(<<x>>) = <<>>
    OBVIOUS
  <2>3. QED
    BY <2>1, <2>2 DEF Carrier
<1>3. /\ Taken \in Queues /\ Taken.toSend = <<>> /\ Taken.older = tq.older
      /\ Taken.status = tq.status /\ Taken.last = tq.last /\ Taken.next = tq.next
      /\ Taken.transferFile = tq.transferFile
  <2>1. tq \in Queues /\ <<>> \in Seq(Item) /\ item.f \in Files /\ tq.status[item.f] = "SEND"
    BY <1>1, <1>2, EmptySeq DEF QueueOk, With
  <2>2. (IF Present(tq, item.f) /\ ~task.stopSet
         THEN [tq.status EXCEPT ![item.f] = "SEND"] ELSE tq.status) = tq.status
    BY <2>1 DEF Queues
  <2>3. QED
    BY <1>2, <2>1, <2>2 DEF Queues, Taken
<1>4. Ordered(Taken) /\ \A state : With(Taken, state) = With(tq, state)
  BY <1>1, <1>3 DEF QueueOk, Ordered, Older, Present, With
<1>5. Rotation(Taken)
  BY <1>1, <1>3, <1>4 DEF QueueOk, Rotation, Older, Present
<1>6. QED
  BY <1>2, <1>3, <1>4, <1>5 DEF QueueOk

LEMMA TakeFileStep ==
  ASSUME TurnInv, TakeFile
  PROVE  TurnInv'
<1> DEFINE item == Head(tq.toSend)
<1>1. /\ ~task.inTransfer /\ ~task.resend /\ tq.toSend # <<>> /\ QueueOk(tq)
      /\ SendFileToCdh(Taken, item)
      /\ task' = [task EXCEPT !.current = item, !.inTransfer = ~task.stopSet,
                              !.marking = task.stopSet,
                              !.retries = IF Connected THEN @ ELSE 0]
      /\ UNCHANGED <<callback, reported, events, delivered, unsure>>
      /\ task \in Tasks /\ task.stopSet = FALSE
  BY DEF TakeFile, Taken, TurnInv, TurnTypes, counters, history, Tasks
<1>2. /\ item \in Item /\ Carrier = item /\ item.f \in With(Taken, "SEND")
      /\ QueueOk(Taken) /\ Taken.toSend = <<>> /\ Taken.status = tq.status
      /\ With(Taken, "SEND") = With(tq, "SEND")
  BY <1>1, TakenInTurn
<1>3. /\ task' \in Tasks /\ ~task'.stopSet /\ ~task'.marking /\ task'.current = item
      /\ task'.inTransfer /\ ~task'.resend
  <2>1. task \in Tasks /\ item \in Item /\ task.stopSet = FALSE /\ ~task.resend
    BY <1>1, <1>2
  <2> HIDE DEF item
  <2>2. CASE Connected
    BY <1>1, <2>1, <2>2 DEF Tasks
  <2>3. CASE ~Connected
    <3>1. task' = [task EXCEPT !.current = item, !.inTransfer = TRUE,
                               !.marking = FALSE, !.retries = 0]
      BY <1>1, <2>1, <2>3
    <3>2. 0 \in 0..SendRetries
      BY BoundsAssumption
    <3>3. QED
      BY <2>1, <3>1, <3>2 DEF Tasks
  <2>4. QED
    BY <2>2, <2>3
<1> HIDE DEF item
<1>4. cdh.requests = {}
  BY <1>1 DEF TurnInv, OneRequest
<1>5. CASE Connected
  <2>1. /\ cdh' = [cdh EXCEPT !.requests = @ \cup {[f |-> item.f, kind |-> Kind(item)]},
                              !.tasks = IF Kind(item) = "task" THEN Append(@, item.f) ELSE @]
        /\ tq' = Taken /\ manageQ' = manageQ
    BY <1>1, <1>5 DEF SendFileToCdh
  <2>2. ~Holds(manageQ, {"RETRY"})
    BY <1>1, <1>5 DEF TurnInv, RetryKnown, Retrying
  <2>3. QueueOk(tq') /\ tq'.toSend = <<>> /\ tq'.status = tq.status
    BY <1>2, <2>1
  <2>4. QED
    BY <1>1, <1>2, <1>3, <1>4, <1>5, <2>1, <2>2, <2>3, Requested
<1>6. CASE ~Connected
  <2>1. tq' \in Finished(Taken, item.f, "FAILED") /\ manageQ' = Append(manageQ, "FINISHED")
        /\ cdh' = cdh
    BY <1>1, <1>6 DEF SendFileToCdh
  <2>2. QED
    BY <1>1, <1>2, <1>3, <1>6, <2>1, Refused
<1>7. QED
  BY <1>5, <1>6

\* With no message left a retry is for the file under way.
LEMMA RetryIsCurrent ==
  ASSUME TurnInv, task.inTransfer, task.resend, manageQ = <<>>
  PROVE  /\ task.current = Carrier /\ task.current.f \in With(tq, "SEND")
         /\ tq.toSend = <<>> /\ cdh.requests = {} /\ ~Holds(manageQ, {"RETRY"})
<1>1. DOMAIN manageQ = {}
  BY EmptySeq
<1>2. InHands /\ cdh.requests = {} /\ ~Holds(manageQ, {"RETRY"})
  BY <1>1 DEF TurnInv, RetryKnown, Retrying, Holds
<1>3. QED
  BY <1>2 DEF InHands, CurrentSent, Carrier

LEMMA RetryNowStep ==
  ASSUME TurnInv, RetryNow
  PROVE  TurnInv'
<1>1. /\ task.inTransfer /\ task.resend /\ manageQ = <<>> /\ QueueOk(tq)
      /\ SendFileToCdh(tq, task.current)
      /\ task' = [task EXCEPT !.resend = FALSE, !.retries = IF Connected THEN @ ELSE 0]
      /\ UNCHANGED <<callback, reported, events, delivered, unsure>>
      /\ task \in Tasks /\ ~task.stopSet /\ ~task.marking
  BY DEF RetryNow, TurnInv, TurnTypes, counters, history
<1>2. /\ task' \in Tasks /\ ~task'.stopSet /\ ~task'.marking /\ task'.current = task.current
      /\ task'.inTransfer /\ ~task'.resend /\ task.current \in Item
  <2>1. CASE Connected
    BY <1>1, <2>1 DEF Tasks
  <2>2. CASE ~Connected
    <3>1. task' = [task EXCEPT !.resend = FALSE, !.retries = 0] /\ task \in Tasks
      BY <1>1, <2>2
    <3>2. 0 \in 0..SendRetries
      BY BoundsAssumption
    <3>3. task' \in Tasks /\ task'.current = task.current /\ task'.resend = FALSE
          /\ task'.stopSet = task.stopSet /\ task'.marking = task.marking
          /\ task'.inTransfer = task.inTransfer /\ task.current \in Item
      BY <3>1, <3>2 DEF Tasks
    <3>4. QED
      BY <1>1, <3>3
  <2>3. QED
    BY <2>1, <2>2
<1>3. /\ task.current = Carrier /\ task.current.f \in With(tq, "SEND")
      /\ tq.toSend = <<>> /\ cdh.requests = {} /\ ~Holds(manageQ, {"RETRY"})
  BY <1>1, RetryIsCurrent
<1>4. CASE Connected
  <2>1. /\ cdh' = [cdh EXCEPT !.requests =
                     @ \cup {[f |-> task.current.f, kind |-> Kind(task.current)]},
                              !.tasks = IF Kind(task.current) = "task"
                                        THEN Append(@, task.current.f) ELSE @]
        /\ tq' = tq /\ manageQ' = manageQ
    BY <1>1, <1>4 DEF SendFileToCdh
  <2>2. QED
    BY <1>1, <1>2, <1>3, <1>4, <2>1, Requested
<1>5. CASE ~Connected
  <2>1. tq' \in Finished(tq, task.current.f, "FAILED")
        /\ manageQ' = Append(manageQ, "FINISHED") /\ cdh' = cdh
    BY <1>1, <1>5 DEF SendFileToCdh
  <2>2. QED
    BY <1>1, <1>2, <1>3, <1>5, <2>1, Refused
<1>6. QED
  BY <1>4, <1>5

\* AFP is restarted: the file under way is sent again, with the mark.
LEMMA CrashStep ==
  ASSUME TurnInv, ~outOfTurn', Crash
  PROVE  TurnInv'
<1>1. /\ tq.next = None /\ tq' = Restarted(tq) /\ task' = IdleTask /\ callback' = "none"
      /\ manageQ' = (IF cdh.up THEN <<>> ELSE <<"REOPEN">>)
      /\ cdh' = [cdh EXCEPT !.session = IF cdh.up THEN "open" ELSE "closed",
                            !.requests = {}]
      /\ UNCHANGED <<reported, delivered, unsure>>
      /\ cdh \in CdhStates /\ QueueOk(tq)
  BY DEF Crash, TurnInv, TurnTypes
<1>0. events' \in 0..MaxEvents
  BY BoundsAssumption DEF Crash, Event, TurnInv, TurnTypes
<1>2. /\ QueueOk(tq') /\ tq'.status = tq.status
      /\ With(tq, "SEND") = {} => tq'.toSend = <<>>
      /\ \A f \in With(tq, "SEND") : tq'.toSend = <<[f |-> f, again |-> TRUE]>>
  BY <1>1, RestartedInTurn
<1>3. With(tq', "SEND") = With(tq, "SEND") /\ With(tq', "DELETE") = With(tq, "DELETE")
  BY <1>2 DEF With
<1>4. /\ cdh' \in CdhStates /\ cdh'.up = cdh.up /\ cdh'.requests = {}
      /\ cdh'.tasks = cdh.tasks /\ cdh'.sent = cdh.sent /\ cdh'.written = cdh.written
      /\ cdh'.session = (IF cdh.up THEN "open" ELSE "closed")
  BY <1>1 DEF CdhStates
<1>5. AtCdh' = AtCdh /\ Recorded'
  BY <1>1, <1>4 DEF AtCdh, TurnInv, History, Recorded
<1>6. /\ task' \in Tasks /\ ~task'.stopSet /\ ~task'.marking /\ ~task'.resend
      /\ ~task'.inTransfer
  BY <1>1, BoundsAssumption DEF IdleTask, NoItem, Tasks, Item
<1>7. manageQ' \in Seq(TurnMessages)
  <2>1. <<>> \in Seq(TurnMessages) /\ <<"REOPEN">> \in Seq(TurnMessages)
    BY EmptySeq DEF TurnMessages
  <2>2. QED
    BY <1>1, <2>1
<1>8. TurnTypes'
  BY <1>0, <1>1, <1>4, <1>6, <1>7 DEF TurnInv, TurnTypes
<1>9. \A f \in With(tq', "SEND") : Carrier' = [f |-> f, again |-> TRUE] /\ tq'.toSend # <<>>
  <2>1. ASSUME NEW f \in With(tq, "SEND")
        PROVE  tq'.toSend # <<>> /\ Head(tq'.toSend) = [f |-> f, again |-> TRUE]
    BY <1>2
  <2>2. QED
    BY <1>3, <2>1 DEF Carrier
<1>10. Carried'
  BY <1>9 DEF Carried, InHands, CurrentSent
<1>11. OneRequest'
  BY <1>4 DEF OneRequest
<1>12. ~Holds(manageQ', {"RETRY"}) /\ ~Retrying'
  BY <1>1, <1>6 DEF Holds, Retrying
<1>13. RetryKnown'
  BY <1>12 DEF RetryKnown
<1>14. Session'
  <2>1. CASE cdh.up
    BY <1>1, <1>4, <2>1 DEF Session, Holds
  <2>2. CASE ~cdh.up
    <3>1. 1 \in DOMAIN manageQ' /\ manageQ'[1] = "REOPEN" /\ \A i \in DOMAIN manageQ' : i = 1
      BY <1>1, <2>2
    <3>2. Reopens(manageQ', task'.resend)
      BY <1>6, <1>12, <3>1 DEF Reopens
    <3>3. QED
      BY <1>4, <2>2, <3>2 DEF Session
  <2>3. QED
    BY <2>1, <2>2
<1>15. Fresh'
  BY <1>1, <1>2, <1>5 DEF TurnInv, Fresh
<1>16. History'
  <2>1. ASSUME NEW f \in Files \ unsure
        PROVE  Known(f)'
    <3>1. tq.status[f] = "SEND" => Carrier'.again
      BY <1>3, <1>9 DEF With
    <3>2. Known(f)
      BY <2>1 DEF TurnInv, History
    <3>3. QED
      BY <1>1, <1>2, <1>4, <1>5, <3>1, <3>2 DEF Known
  <2>2. \A f \in With(tq', "DELETE") : delivered[f] > 0
    BY <1>3 DEF TurnInv, History
  <2>3. QED
    BY <1>1, <1>2, <1>4, <1>5, <2>1, <2>2 DEF History
<1>17. QED
  BY <1>2, <1>8, <1>10, <1>11, <1>13, <1>14, <1>15, <1>16 DEF TurnInv

-----------------------------------------------------------------------------
(* Every step.                                                             *)

LEMMA OnceOutOfTurn == [Next]_vars /\ ~outOfTurn' => ~outOfTurn
<1> SUFFICES ASSUME [Next]_vars, ~outOfTurn' PROVE ~outOfTurn
  OBVIOUS
<1>1. CASE ThreadStep
  BY <1>1 DEF ThreadStep, TakeFile, Mark, RetryNow, HandleFinished, HandleRetry, HandleReopen,
              HandleReattach, HandleResend, HandleStopAll, HandleStopFile, history
<1>2. CASE CdhStep
  BY <1>2 DEF CdhStep, EventOk, EventFailed, EventRetry, Answered, OrphanDone, FinishEvent,
              EventNoServer, history
<1>3. CASE \/ \E before \in SUBSET {f \in Files : Present(tq, f)} : Report(before)
           \/ TransferFailed \/ StopSendAll
           \/ \E f \in Files : TransferFailedFile(f) \/ RemoveFile(f)
           \/ \E S \in SUBSET With(tq, "DELETE") : DeleteFiles(S)
  BY <1>3 DEF Report, TransferFailed, StopSendAll, TransferFailedFile, RemoveFile, DeleteFiles,
              history
<1>4. CASE \/ \E S \in SUBSET AtCdh : \E line \in {None, cdh.written} \cup S : CdhCrash(S, line)
           \/ CdhRestart \/ Crash
  BY <1>4 DEF CdhCrash, CdhRestart, Crash, history
<1>5. CASE UNCHANGED vars
  BY <1>5 DEF vars, history
<1>6. QED
  BY <1>1, <1>2, <1>3, <1>4, <1>5 DEF Next

\* In turn the thread gets no command.
LEMMA NoCommand == TurnInv => ~Mark /\ ~HandleStopAll /\ ~HandleStopFile
<1> SUFFICES ASSUME TurnInv PROVE ~Mark /\ ~HandleStopAll /\ ~HandleStopFile
  OBVIOUS
<1>1. ~Mark
  BY DEF Mark, TurnInv, TurnTypes
<1>2. manageQ # <<>> => Head(manageQ) \in TurnMessages
  BY MessageTaken DEF TurnInv, TurnTypes
<1>3. QED
  BY <1>1, <1>2 DEF HandleStopAll, HandleStopFile, Takes, TurnMessages

LEMMA NextInTurn == IInv /\ [Next]_vars => IInv'
<1> SUFFICES ASSUME IInv, [Next]_vars, ~outOfTurn' PROVE TurnInv'
  BY DEF IInv
<1>0. TurnInv
  BY OnceOutOfTurn DEF IInv
<1>1. CASE ThreadStep
  <2>1. CASE TakeFile
    BY <1>0, <2>1, TakeFileStep
  <2>2. CASE RetryNow
    BY <1>0, <2>2, RetryNowStep
  <2>3. CASE HandleFinished
    BY <1>0, <2>3, HandleFinishedStep
  <2>4. CASE HandleRetry
    BY <1>0, <2>4, HandleRetryStep
  <2>5. CASE HandleReopen
    BY <1>0, <2>5, HandleReopenStep
  <2>6. CASE HandleReattach
    BY <1>0, <2>6, HandleReattachStep
  <2>7. CASE HandleResend
    BY <1>0, <2>7, HandleResendStep
  <2>8. QED
    BY <1>0, <1>1, <2>1, <2>2, <2>3, <2>4, <2>5, <2>6, <2>7, NoCommand DEF ThreadStep
<1>2. CASE CdhStep
  <2>1. ASSUME NEW r \in cdh.requests, EventOk(r) \/ EventFailed(r) \/ EventRetry(r)
        PROVE  TurnInv'
    BY <1>0, <2>1, EventOkStep, EventFailedStep, EventRetryStep
  <2>2. CASE FinishEvent
    BY <1>0, <2>2, FinishEventStep
  <2>3. CASE EventNoServer
    BY <1>0, <2>3, EventNoServerStep
  <2>4. ASSUME NEW ok \in BOOLEAN, OrphanDone(ok)
        PROVE  TurnInv'
    BY <1>0, <2>4, OrphanDoneStep
  <2>5. QED
    BY <1>2, <2>1, <2>2, <2>3, <2>4 DEF CdhStep
<1>3. ASSUME NEW before \in SUBSET {f \in Files : Present(tq, f)}, Report(before)
      PROVE  TurnInv'
  <2>1. before \in SUBSET Files
    OBVIOUS
  <2>2. QED
    BY <1>0, <1>3, <2>1, ReportStep
<1>4. CASE TransferFailed
  BY <1>0, <1>4, TransferFailedStep
<1>5. CASE StopSendAll
  BY <1>5 DEF StopSendAll
<1>6. ASSUME NEW f \in Files, TransferFailedFile(f) \/ RemoveFile(f)
      PROVE  TurnInv'
  BY <1>0, <1>6, TransferFailedFileStep, RemoveFileStep
<1>7. ASSUME NEW S \in SUBSET With(tq, "DELETE"), DeleteFiles(S)
      PROVE  TurnInv'
  BY <1>0, <1>7, DeleteFilesStep
<1>8. ASSUME NEW S \in SUBSET AtCdh, NEW line, CdhCrash(S, line)
      PROVE  TurnInv'
  BY <1>0, <1>8, CdhCrashStep
<1>9. CASE CdhRestart
  BY <1>0, <1>9, CdhRestartStep
<1>10. CASE Crash
  BY <1>0, <1>10, CrashStep
<1>11. CASE UNCHANGED vars
  <2>1. TurnTypes' /\ QueueOk(tq)' /\ Carried' /\ OneRequest' /\ Fresh' /\ History'
    <3>1. AtCdh' = AtCdh /\ Orphans' = Orphans /\ Carrier' = Carrier
      BY <1>11 DEF vars, AtCdh, Orphans, Carrier
    <3>2. Fresh' /\ History'
      BY <1>0, <1>11, <3>1
         DEF vars, counters, history, TurnInv, Fresh, History, Recorded, Known
    <3>3. TurnTypes' /\ QueueOk(tq)' /\ Carried' /\ OneRequest'
      BY <1>0, <1>11, <3>1 DEF vars, counters, history, TurnInv, TurnTypes, Carried, InHands,
           CurrentSent, OneRequest, Retrying, Connected
    <3>4. QED
      BY <3>2, <3>3
  <2>2. RetryKnown' /\ Session'
    BY <1>0, <1>11 DEF vars, TurnInv, RetryKnown, Retrying, InHands, CurrentSent, Connected,
         Session
  <2>3. QED
    BY <2>1, <2>2 DEF TurnInv
<1>12. QED
  BY <1>1, <1>2, <1>3, <1>4, <1>5, <1>6, <1>7, <1>8, <1>9, <1>10, <1>11 DEF Next

(* In turn one file is under way at a time, with one request, retry or     *)
(* reconnection to finish it; a lost session's messages end its transfer   *)
(* before they open a new one.                                             *)
THEOREM InTurn == Spec => []IInv
<1>1. QED
  BY InitInTurn, NextInTurn, PTL DEF Spec

(* A file is marked for deletion only after a destination has taken it:    *)
(* the answer that eventSendFile applies to the current file is the answer *)
(* to the request for that file.                                           *)
THEOREM DeletedCorrect == Spec => []DeletedWereDelivered
<1>1. IInv => DeletedWereDelivered
  BY DEF IInv, TurnInv, History, DeletedWereDelivered
<1>2. QED
  BY <1>1, InTurn, PTL

(* A file waits in READY only while another one is under way, whose answer *)
(* sends the next (changeFileStatus).                                      *)
THEOREM ReadyWaits == Spec => []ReadyWaitsForSend
<1>1. IInv => ReadyWaitsForSend
  BY DEF IInv, TurnInv, QueueOk, Rotation, ReadyWaitsForSend
<1>2. QED
  BY <1>1, InTurn, PTL

(* A file in SEND is never lost from sight: it is queued, with CDH, to be  *)
(* retried, or in the hands of a reconnection.                             *)
THEOREM SendUnderWay == Spec => []SendIsUnderWay
<1>1. IInv => SendIsUnderWay
  <2> SUFFICES ASSUME TurnInv, NEW f \in With(tq, "SEND") PROVE UnderWay(f)
    BY DEF IInv, SendIsUnderWay
  <2>1. Carrier.f = f
    BY DEF TurnInv, Carried
  <2>2. CASE tq.toSend # <<>>
    <3>1. PICK item \in Item : tq.toSend = <<item>>
      BY <2>2 DEF TurnInv, QueueOk, Rotation
    <3>2. 1 \in DOMAIN tq.toSend /\ tq.toSend[1] = item /\ Head(tq.toSend) = item
      BY <3>1
    <3>3. QED
      BY <2>1, <2>2, <3>2 DEF Carrier, UnderWay
  <2>3. CASE tq.toSend = <<>>
    <3>1. task.current.f = f /\ InHands
      BY <2>1, <2>3 DEF Carrier, InHands, CurrentSent
    <3>2. \A r \in cdh.requests : r.f = f
      BY <3>1 DEF TurnInv, OneRequest
    <3>3. \A m : (\E i \in DOMAIN manageQ : manageQ[i] = m) => m \in ToSet(manageQ)
      BY DEF ToSet
    <3>4. Holds(manageQ, {"RETRY", "REOPEN", "REATTACH", "RESEND"}) =>
             \/ "RETRY" \in ToSet(manageQ)
             \/ {"REOPEN", "REATTACH", "RESEND"} \cap ToSet(manageQ) # {}
      BY <3>3 DEF Holds
    <3>5. QED
      BY <3>1, <3>2, <3>4 DEF TurnInv, Carried, UnderWay
  <2>4. QED
    BY <2>2, <2>3
<1>2. QED
  BY <1>1, InTurn, PTL

(* A file is delivered twice only if its outcome was in doubt: CDH crashed *)
(* with it or lost its record of it, or the operator asked for it.  A      *)
(* restart of AFP sends it with the mark that has CDH look for it, and it  *)
(* is then what CDH has delivered last, the one it has a record of.        *)
THEOREM DeliveredTwice == Spec => []DeliveredTwiceIfUnsure
<1>1. IInv => DeliveredTwiceIfUnsure
  <2> SUFFICES ASSUME TurnInv, NEW f \in Files, delivered[f] > 1, f \notin unsure PROVE FALSE
    BY DEF IInv, DeliveredTwiceIfUnsure
  <2>1. delivered[f] <= 1 /\ delivered[f] \in Nat
    BY DEF TurnInv, TurnTypes, History, Known
  <2>2. QED
    BY <2>1
<1>2. QED
  BY <1>1, InTurn, PTL

-----------------------------------------------------------------------------
(* The oldest first.                                                       *)

\* Of two steps of the queue: whatever becomes SEND was the oldest in READY.
InOrder(q, r) ==
  \A f \in Files : q.status[f] = "READY" /\ r.status[f] = "SEND"
                   => \A g \in With(q, "READY") : ~Older(q, g, f)

LEMMA FinishedInOrder ==
  ASSUME NEW q, QueueOk(q), q.toSend = <<>>, NEW f \in With(q, "SEND"),
         NEW state \in {"DELETE", "FAILED"}, NEW r \in Finished(q, f, state)
  PROVE  InOrder(q, r)
<1>1. NoneSent(q, r, f, state) \/ NextSent(q, r, f, state)
  BY FinishedSendsOldest
<1>2. f \in Files /\ q.status[f] = "SEND" /\ q.status \in [Files -> States] /\ Ordered(q)
  BY DEF QueueOk, Queues, With
<1>3. CASE NoneSent(q, r, f, state)
  <2>1. \A h \in Files : h # f => r.status[h] = q.status[h]
    BY <1>2, <1>3 DEF NoneSent
  <2>2. QED
    BY <1>2, <2>1 DEF InOrder
<1>4. CASE NextSent(q, r, f, state)
  <2>1. PICK g \in With(q, "READY") :
          /\ r.status = [[q.status EXCEPT ![f] = state] EXCEPT ![g] = "SEND"]
          /\ \A h \in With(q, "READY") \ {g} : Older(q, g, h)
    BY <1>4 DEF NextSent
  <2>2. g \in Files /\ \A h \in Files : h \notin {f, g} => r.status[h] = q.status[h]
    BY <1>2, <2>1 DEF With
  <2>3. \A h \in With(q, "READY") : ~Older(q, h, g)
    BY <1>2, <2>1, <2>2 DEF Ordered, With
  <2>4. QED
    BY <1>2, <2>2, <2>3 DEF InOrder
<1>5. QED
  BY <1>1, <1>3, <1>4

LEMMA InsertedStatus ==
  ASSUME NEW q, QueueOk(q), NEW f \in Files, ~Present(q, f), NEW before \in SUBSET Files,
         \A g \in before : Present(q, g) /\ (\A h \in Files : Older(q, h, g) => h \in before),
         NEW r, r = Inserted(q, f, before), ~(r.next # f /\ Older(r, f, r.next))
  PROVE  r.status = [q.status EXCEPT ![f] = "READY"] \/ r.status = [q.status EXCEPT ![f] = "SEND"]
  BY InsertedInTurn, ZenonT(60)

LEMMA StepInOrder ==
  ASSUME TurnInv, ~outOfTurn', [Next]_vars
  PROVE  InOrder(tq, tq')
<1>1. QueueOk(tq) /\ tq \in Queues
  BY DEF TurnInv, QueueOk
<1>2. ASSUME \A f \in Files : tq.status[f] = "READY" => tq'.status[f] # "SEND"
      PROVE  InOrder(tq, tq')
  BY <1>2 DEF InOrder
<1>3. ASSUME tq'.status = tq.status
      PROVE  InOrder(tq, tq')
  BY <1>2, <1>3
<1>4. CASE ThreadStep
  <2>1. CASE TakeFile
    <3> DEFINE item == Head(tq.toSend)
    <3>1. tq.toSend # <<>> /\ SendFileToCdh(Taken, item)
      BY <2>1 DEF TakeFile, Taken
    <3>2. /\ item.f \in With(Taken, "SEND") /\ QueueOk(Taken) /\ Taken.toSend = <<>>
          /\ Taken.status = tq.status /\ Taken.older = tq.older
      BY <3>1, TakenInTurn
    <3> HIDE DEF item
    <3>3. CASE Connected
      BY <1>3, <3>1, <3>2, <3>3 DEF SendFileToCdh
    <3>4. CASE ~Connected
      <4>1. tq' \in Finished(Taken, item.f, "FAILED") /\ "FAILED" \in {"DELETE", "FAILED"}
        BY <3>1, <3>4 DEF SendFileToCdh
      <4>2. InOrder(Taken, tq')
        BY <3>2, <4>1, FinishedInOrder
      <4>3. QED
        BY <3>2, <4>2 DEF InOrder, With, Older
    <3>5. QED
      BY <3>3, <3>4
  <2>2. CASE RetryNow
    <3>1. task.inTransfer /\ task.resend /\ manageQ = <<>> /\ SendFileToCdh(tq, task.current)
      BY <2>2 DEF RetryNow
    <3>2. task.current.f \in With(tq, "SEND") /\ tq.toSend = <<>>
      BY <3>1, RetryIsCurrent
    <3>3. CASE Connected
      BY <1>3, <3>1, <3>3 DEF SendFileToCdh
    <3>4. CASE ~Connected
      <4>1. tq' \in Finished(tq, task.current.f, "FAILED") /\ "FAILED" \in {"DELETE", "FAILED"}
        BY <3>1, <3>4 DEF SendFileToCdh
      <4>2. QED
        BY <1>1, <3>2, <4>1, FinishedInOrder
    <3>5. QED
      BY <3>3, <3>4
  <2>3. CASE HandleFinished \/ HandleRetry \/ HandleReopen \/ HandleReattach
    BY <1>3, <2>3 DEF HandleFinished, HandleRetry, HandleReopen, HandleReattach
  <2>4. CASE HandleResend
    <3>1. tq'.status = tq.status
      BY <1>1, <2>4 DEF HandleResend, Queues
    <3>2. QED
      BY <1>3, <3>1
  <2>5. QED
    BY <1>4, <2>1, <2>2, <2>3, <2>4, NoCommand DEF ThreadStep
<1>5. CASE CdhStep
  <2>1. ASSUME NEW r \in cdh.requests, NEW state \in {"DELETE", "FAILED"}, Answered(state)
        PROVE  InOrder(tq, tq')
    <3>1. tq' \in Finished(tq, task.current.f, state)
      BY <2>1 DEF Answered
    <3>2. task.current.f \in With(tq, "SEND") /\ tq.toSend = <<>>
      BY DEF TurnInv, OneRequest, InHands, CurrentSent
    <3>3. QED
      BY <1>1, <3>1, <3>2, FinishedInOrder
  <2>2. ASSUME NEW r \in cdh.requests, EventOk(r) \/ EventFailed(r)
        PROVE  InOrder(tq, tq')
    BY <2>1, <2>2 DEF EventOk, EventFailed, ErrorState
  <2>3. CASE \/ FinishEvent \/ EventNoServer \/ \E r \in cdh.requests : EventRetry(r)
             \/ \E ok \in BOOLEAN : OrphanDone(ok)
    BY <1>3, <2>3 DEF FinishEvent, EventNoServer, EventRetry, OrphanDone
  <2>4. QED
    BY <1>5, <2>2, <2>3 DEF CdhStep
<1>6. ASSUME NEW before \in SUBSET {f \in Files : Present(tq, f)}, Report(before)
      PROVE  InOrder(tq, tq')
  <2> DEFINE f == reported + 1
  <2>1. /\ f \in Files /\ tq.status[f] = "none" /\ reported' = f
    BY <1>6, BoundsAssumption DEF TurnInv, TurnTypes, Fresh, Report, Files
  <2>2. /\ before \in SUBSET Files /\ tq' = Inserted(tq, f, before)
        /\ ~(tq'.next # f /\ Older(tq', f, tq'.next))
        /\ \A g \in before : Present(tq, g) /\ (\A h \in Files : Older(tq, h, g) => h \in before)
    BY <1>6, <2>1 DEF Report
  <2> HIDE DEF f
  <2>3. ~Present(tq, f)
    BY <2>1 DEF Present
  <2>4. \/ tq'.status = [tq.status EXCEPT ![f] = "READY"]
        \/ tq'.status = [tq.status EXCEPT ![f] = "SEND"]
    BY <1>1, <2>1, <2>2, <2>3, InsertedStatus
  <2>5. QED
    BY <1>1, <1>2, <2>1, <2>4 DEF Queues
<1>7. CASE TransferFailed
  <2>1. /\ With(tq, "FAILED") # {} /\ tq.next = None /\ tq' = FailedAgain(tq)
        /\ \A g \in With(tq, "READY") : ~Older(tq, g, Oldest(tq, With(tq, "FAILED")))
    BY <1>7 DEF TransferFailed
  <2>2. FailedWait(tq, tq') \/ FailedSent(tq, tq')
    BY <1>1, <2>1, FailedAgainInTurn
  <2>3. QED
    BY <1>2, <2>2 DEF FailedWait, FailedSent, With
<1>8. ASSUME NEW f \in Files, TransferFailedFile(f)
      PROVE  InOrder(tq, tq')
  <2>1. tq.status[f] = "FAILED" /\ tq'.status = [tq.status EXCEPT ![f] = "SEND"]
    BY <1>1, <1>8 DEF TransferFailedFile, SendToCdh, With, Queues
  <2>2. QED
    BY <1>1, <1>2, <2>1 DEF Queues
<1>9. ASSUME NEW S, tq' = Erased(tq, S)
      PROVE  InOrder(tq, tq')
  <2>1. tq'.status = [f \in Files |-> IF f \in S THEN "none" ELSE tq.status[f]]
    BY <1>1, <1>9 DEF Erased, Queues
  <2>2. QED
    BY <1>2, <2>1
<1>10. ASSUME NEW f \in Files, RemoveFile(f)
       PROVE  InOrder(tq, tq')
  BY <1>9, <1>10 DEF RemoveFile
<1>11. ASSUME NEW S \in SUBSET With(tq, "DELETE"), DeleteFiles(S)
       PROVE  InOrder(tq, tq')
  BY <1>9, <1>11 DEF DeleteFiles
<1>12. CASE StopSendAll
  BY <1>12 DEF StopSendAll
<1>13. CASE \/ \E S \in SUBSET AtCdh : \E line \in {None, cdh.written} \cup S : CdhCrash(S, line)
            \/ CdhRestart
  BY <1>3, <1>13 DEF CdhCrash, CdhRestart
<1>14. CASE Crash
  <2>1. tq.next = None /\ tq' = Restarted(tq)
    BY <1>14 DEF Crash
  <2>2. tq'.status = tq.status
    BY <1>1, <2>1, RestartedInTurn
  <2>3. QED
    BY <1>3, <2>2
<1>15. CASE UNCHANGED vars
  BY <1>3, <1>15 DEF vars
<1>16. QED
  BY <1>4, <1>5, <1>6, <1>7, <1>8, <1>10, <1>11, <1>12, <1>13, <1>14, <1>15 DEF Next

(* One file at a time, the oldest first: a file that becomes SEND was the  *)
(* oldest of those READY, whoever sends it (changeFileStatus, insertFile,  *)
(* transferFailed, a restart).                                             *)
THEOREM OldestIsSentFirst == Spec => OldestFirst
<1>1. ASSUME IInv, [Next]_vars
      PROVE  [ \A f \in Files :
                 /\ ~outOfTurn'
                 /\ tq.status[f] = "READY" /\ tq'.status[f] = "SEND"
                 => \A g \in With(tq, "READY") : ~Older(tq, g, f) ]_vars
  <2> SUFFICES ASSUME ~outOfTurn' PROVE InOrder(tq, tq')
    BY DEF InOrder
  <2>1. TurnInv
    BY <1>1, OnceOutOfTurn DEF IInv
  <2>2. QED
    BY <1>1, <2>1, StepInOrder
<1>2. QED
  BY <1>1, InTurn, PTL DEF Spec, OldestFirst

-----------------------------------------------------------------------------
(* Types, in turn or not.                                                  *)

TypedQueue(q) ==
  q \in Queues /\ Ordered(q) /\ q.toSend \in Seq([f : Files, again : BOOLEAN])
SameFiles(q, r) == \A f \in Files : Present(r, f) <=> Present(q, f)

LEMMA SameFilesTyped ==
  ASSUME NEW q, TypedQueue(q), NEW r \in Queues, r.older = q.older, SameFiles(q, r),
         r.toSend = q.toSend
  PROVE  TypedQueue(r)
  BY DEF TypedQueue, SameFiles, Ordered, Older

LEMMA SentTyped ==
  ASSUME NEW q, TypedQueue(q), NEW f \in Files, Present(q, f), NEW again \in BOOLEAN
  PROVE  TypedQueue(SendToCdh(q, f, again)) /\ SameFiles(q, SendToCdh(q, f, again))
<1> DEFINE s == SendToCdh(q, f, again)
           item == [f |-> f, again |-> again]
           items == [f : Files, again : BOOLEAN]
<1>1. q \in Queues /\ q.toSend \in Seq(items) /\ item \in items
  BY DEF TypedQueue
<1>2. /\ s \in Queues /\ s.older = q.older /\ s.status = [q.status EXCEPT ![f] = "SEND"]
      /\ s.toSend = Append(q.toSend, item)
  BY <1>1, SentParts
<1> HIDE DEF s
<1>3. s.toSend \in Seq(items)
  <2> HIDE DEF item, items
  <2>1. QED
    BY <1>1, <1>2, AppendProperties
<1>4. SameFiles(q, s)
  BY <1>1, <1>2 DEF SameFiles, Present, Queues, States
<1>5. Ordered(s)
  BY <1>2, <1>4 DEF TypedQueue, SameFiles, Ordered, Older
<1>6. QED
  BY <1>2, <1>3, <1>4, <1>5 DEF TypedQueue, s

LEMMA OldestSentTyped ==
  ASSUME NEW q, TypedQueue(q), NEW S, S \subseteq Files, S # {}, \A f \in S : Present(q, f)
  PROVE  /\ TypedQueue(SendToCdh(q, Oldest(q, S), FALSE))
         /\ SameFiles(q, SendToCdh(q, Oldest(q, S), FALSE))
<1>1. Oldest(q, S) \in S /\ FALSE \in BOOLEAN
  BY OldestIsFirst DEF TypedQueue
<1>2. Oldest(q, S) \in Files /\ Present(q, Oldest(q, S))
  BY <1>1
<1>3. QED
  BY <1>1, <1>2, SentTyped

LEMMA SendOldestTyped ==
  ASSUME NEW q, TypedQueue(q)
  PROVE  TypedQueue(SendOldest(q)) /\ SameFiles(q, SendOldest(q))
<1>1. SameFiles(q, q)
  BY DEF SameFiles
<1>2. With(q, "READY") \subseteq Files /\ \A f \in With(q, "READY") : Present(q, f)
  BY DEF With, Present
<1>3. QED
  BY <1>1, <1>2, OldestSentTyped DEF SendOldest

LEMMA SameFilesTwice ==
  ASSUME NEW p, NEW q, NEW r, SameFiles(p, q), SameFiles(q, r)
  PROVE  SameFiles(p, r)
  BY DEF SameFiles

LEMMA FinishedTyped ==
  ASSUME NEW q, TypedQueue(q), NEW f \in Files \cup {None}, NEW state \in {"DELETE", "FAILED"},
         NEW r \in Finished(q, f, state)
  PROVE  TypedQueue(r) /\ SameFiles(q, r)
<1>1. CASE ~Present(q, f)
  <2>1. r = SendOldest(q)
    BY <1>1 DEF Finished
  <2>2. QED
    BY <2>1, SendOldestTyped
<1>2. CASE Present(q, f)
  <2> DEFINE c == [q EXCEPT !.status[f] = state]
  <2>1. f \in Files /\ q.status[f] # "none" /\ q \in Queues
    BY <1>2 DEF Present, TypedQueue
  <2>2. c \in Queues /\ c.older = q.older /\ c.toSend = q.toSend
        /\ c.status = [q.status EXCEPT ![f] = state] /\ c.next = q.next
    BY <2>1 DEF Queues, States
  <2>3. \E busy \in BOOLEAN :
           r = IF NextWaits(c) /\ ~busy THEN SendToCdh(c, c.next, FALSE) ELSE Scan(c, f)
    BY <1>2 DEF Finished, LastUnderWay
  <2> HIDE DEF c
  <2>4. SameFiles(q, c)
    BY <2>1, <2>2 DEF SameFiles, Present, Queues
  <2>5. TypedQueue(c)
    BY <2>2, <2>4, SameFilesTyped
  <2>6. CASE NextWaits(c) /\ r = SendToCdh(c, c.next, FALSE)
    <3>1. c.next \in Files /\ Present(c, c.next) /\ FALSE \in BOOLEAN
      BY <2>2, <2>6 DEF NextWaits, Queues, Present
    <3>2. TypedQueue(r) /\ SameFiles(c, r)
      BY <2>5, <2>6, <3>1, SentTyped
    <3>3. QED
      BY <2>4, <3>2, SameFilesTwice
  <2>7. CASE r = Scan(c, f)
    <3> DEFINE later == {g \in With(c, "READY") : Older(c, f, g)}
    <3>1. later \subseteq Files /\ \A g \in later : Present(c, g)
      BY DEF With, Present
    <3>2. CASE later # {} /\ r = SendToCdh(c, Oldest(c, later), FALSE)
      <4> HIDE DEF later
      <4>1. TypedQueue(r) /\ SameFiles(c, r)
        BY <2>5, <3>1, <3>2, OldestSentTyped
      <4>2. QED
        BY <2>4, <4>1, SameFilesTwice
    <3>3. CASE r = [c EXCEPT !.transferFile = None]
      <4>1. r \in Queues /\ r.older = c.older /\ r.toSend = c.toSend /\ r.status = c.status
        BY <2>2, <3>3 DEF Queues
      <4>2. SameFiles(c, r) /\ SameFiles(q, r)
        BY <2>4, <4>1 DEF SameFiles, Present
      <4>3. QED
        BY <2>5, <4>1, <4>2, SameFilesTyped
    <3>4. QED
      BY <2>7, <3>2, <3>3 DEF Scan
  <2>8. QED
    BY <2>3, <2>6, <2>7
<1>3. QED
  BY <1>1, <1>2

LEMMA InsertedTyped ==
  ASSUME NEW q, TypedQueue(q), NEW f \in Files, ~Present(q, f), NEW before \in SUBSET Files,
         \A g \in before : Present(q, g) /\ (\A h \in Files : Older(q, h, g) => h \in before),
         NEW r, r = Inserted(q, f, before)
  PROVE  TypedQueue(r) /\ \A g \in Files : Present(r, g) => Present(q, g) \/ g = f
<1> DEFINE queued == Queued(q, f, before)
<1>1. q \in Queues /\ Ordered(q)
  BY DEF TypedQueue
<1>2. /\ queued \in Queues /\ queued.toSend = q.toSend /\ Ordered(queued)
      /\ queued.status = [q.status EXCEPT ![f] = "READY"]
  BY <1>1, QueuedInPlace
<1>3. r = queued \/ r = SendToCdh(queued, f, FALSE)
  BY DEF Inserted, Queued, Placed
<1> HIDE DEF queued
<1>4. TypedQueue(queued)
  BY <1>2 DEF TypedQueue
<1>5. \A g \in Files : Present(queued, g) <=> Present(q, g) \/ g = f
  BY <1>1, <1>2 DEF Present, Queues, States
<1>6. TypedQueue(r) /\ SameFiles(queued, r)
  <2>1. SameFiles(queued, queued) /\ FALSE \in BOOLEAN
    BY DEF SameFiles
  <2>2. QED
    BY <1>3, <1>4, <1>5, <2>1, SentTyped
<1>7. QED
  BY <1>5, <1>6 DEF SameFiles

LEMMA FailedAgainTyped ==
  ASSUME NEW q, TypedQueue(q), With(q, "FAILED") # {}, NEW r, r = FailedAgain(q)
  PROVE  TypedQueue(r) /\ SameFiles(q, r)
<1> DEFINE first == Oldest(q, With(q, "FAILED"))
           ready == [q EXCEPT !.status[first] = "READY"]
           waits == [ready EXCEPT !.next = first]
           sent == SendToCdh(ready, first, FALSE)
<1>1. q \in Queues /\ first \in Files /\ q.status[first] = "FAILED"
  <2>1. With(q, "FAILED") \subseteq Files /\ \A f \in With(q, "FAILED") : Present(q, f)
    BY DEF With, Present
  <2>2. first \in With(q, "FAILED")
    BY <2>1, OldestIsFirst DEF TypedQueue
  <2>3. QED
    BY <2>2 DEF TypedQueue, With
<1> HIDE DEF first
<1>2. /\ ready \in Queues /\ ready.older = q.older /\ ready.toSend = q.toSend
      /\ ready.status = [q.status EXCEPT ![first] = "READY"]
  BY <1>1 DEF Queues, States
<1>3. \E x \in {waits, sent} :
         r = [x EXCEPT !.status =
                [f \in Files |-> IF @[f] = "FAILED" THEN "READY" ELSE @[f]]]
  <2>1. CASE q.last # None /\ ready.status[q.last] = "SEND"
    <3>1. r = [waits EXCEPT !.status =
                 [f \in Files |-> IF @[f] = "FAILED" THEN "READY" ELSE @[f]]]
      BY <2>1 DEF FailedAgain, first
    <3> HIDE DEF waits, sent
    <3>2. QED
      BY <3>1
  <2>2. CASE ~(q.last # None /\ ready.status[q.last] = "SEND")
    <3>1. r = [sent EXCEPT !.status =
                 [f \in Files |-> IF @[f] = "FAILED" THEN "READY" ELSE @[f]]]
      BY <2>2 DEF FailedAgain, first
    <3> HIDE DEF waits, sent
    <3>2. QED
      BY <3>1
  <2>3. QED
    BY <2>1, <2>2
<1> HIDE DEF ready
<1>4. SameFiles(q, ready) /\ Present(ready, first) /\ TypedQueue(ready)
  <2>1. SameFiles(q, ready) /\ Present(ready, first)
    BY <1>1, <1>2 DEF SameFiles, Present, Queues
  <2>2. QED
    BY <1>2, <2>1, SameFilesTyped
<1>5. TypedQueue(waits) /\ SameFiles(ready, waits)
  <2>1. waits \in Queues /\ waits.older = ready.older /\ waits.toSend = ready.toSend
        /\ waits.status = ready.status
    BY <1>1, <1>2 DEF Queues
  <2>2. SameFiles(ready, waits)
    BY <2>1 DEF SameFiles, Present
  <2> HIDE DEF waits
  <2>3. QED
    BY <1>4, <2>1, <2>2, SameFilesTyped
<1>6. TypedQueue(sent) /\ SameFiles(ready, sent)
  <2>1. FALSE \in BOOLEAN
    OBVIOUS
  <2>2. QED
    BY <1>1, <1>4, <2>1, SentTyped
<1> HIDE DEF waits, sent
<1>7. PICK x \in {waits, sent} :
         r = [x EXCEPT !.status =
                [f \in Files |-> IF @[f] = "FAILED" THEN "READY" ELSE @[f]]]
  BY <1>3
<1>8. TypedQueue(x) /\ SameFiles(ready, x) /\ x \in Queues
  BY <1>5, <1>6 DEF TypedQueue
<1>9. /\ r \in Queues /\ r.older = x.older /\ r.toSend = x.toSend
      /\ r.status = [f \in Files |-> IF x.status[f] = "FAILED" THEN "READY" ELSE x.status[f]]
  BY <1>7, <1>8 DEF Queues, States
<1>10. SameFiles(x, r)
  BY <1>9 DEF SameFiles, Present
<1>11. TypedQueue(r) /\ SameFiles(ready, r)
  BY <1>8, <1>9, <1>10, SameFilesTyped, SameFilesTwice
<1>12. QED
  BY <1>4, <1>11, SameFilesTwice

LEMMA ErasedTyped ==
  ASSUME NEW q, TypedQueue(q), NEW S, NEW r, r = Erased(q, S)
  PROVE  TypedQueue(r) /\ \A f \in Files : Present(r, f) => Present(q, f)
<1>1. q \in Queues /\ Ordered(q) /\ q.toSend \in Seq([f : Files, again : BOOLEAN])
  BY DEF TypedQueue
<1>2. /\ r \in Queues /\ r.toSend = q.toSend
      /\ r.status = [f \in Files |-> IF f \in S THEN "none" ELSE q.status[f]]
  BY <1>1 DEF Erased, Queues, States
<1>3. \A f, g \in Files : Older(r, f, g) <=> Older(q, f, g) /\ f \notin S /\ g \notin S
  BY <1>1 DEF Erased, Queues, Older
<1>4. \A f \in Files : Present(r, f) <=> Present(q, f) /\ f \notin S
  BY <1>2 DEF Present
<1>5. Ordered(r)
  BY <1>1, <1>3, <1>4 DEF Ordered
<1>6. QED
  BY <1>1, <1>2, <1>4, <1>5 DEF TypedQueue

\* The order of creation the other way round.
LEMMA NewestIsLast ==
  ASSUME NEW q \in Queues, Ordered(q), NEW S, S \subseteq Files, S # {}, \A f \in S : Present(q, f)
  PROVE  Newest(q, S) \in S
<1> DEFINE back == [q EXCEPT !.older = {<<p[2], p[1]>> : p \in @}]
<1>1. back.older = {<<p[2], p[1]>> : p \in q.older} /\ back.status = q.status
      /\ q.older \subseteq Files \X Files
  BY DEF Queues
<1>2. \A f, g \in Files : Older(back, f, g) <=> Older(q, g, f)
  <2>1. ASSUME NEW f \in Files, NEW g \in Files, <<g, f>> \in q.older
        PROVE  <<f, g>> \in back.older
    <3>1. <<f, g>> = <<(<<g, f>>)[2], (<<g, f>>)[1]>>
      OBVIOUS
    <3>2. QED
      BY <1>1, <2>1, <3>1
  <2>2. ASSUME NEW f \in Files, NEW g \in Files, <<f, g>> \in back.older
        PROVE  <<g, f>> \in q.older
    <3>1. PICK p \in q.older : <<f, g>> = <<p[2], p[1]>>
      BY <1>1, <2>2
    <3>2. p = <<p[1], p[2]>> /\ f = p[2] /\ g = p[1]
      BY <1>1, <3>1
    <3>3. QED
      BY <3>1, <3>2
  <2>3. QED
    BY <2>1, <2>2 DEF Older
<1> HIDE DEF back
<1>3. \A f \in Files : Present(back, f) <=> Present(q, f)
  BY <1>1 DEF Present
<1>4. Ordered(back)
  BY <1>2, <1>3 DEF Ordered
<1>5. \E f \in S : \A g \in S \ {f} : Older(back, f, g)
  <2>1. \A f \in S : Present(back, f)
    BY <1>3
  <2>2. Oldest(back, S) \in S /\ \A g \in S \ {Oldest(back, S)} : Older(back, Oldest(back, S), g)
    BY <1>4, <2>1, OldestIsFirst
  <2>3. QED
    BY <2>2
<1>6. \E f \in S : \A g \in S \ {f} : Older(q, g, f)
  BY <1>2, <1>5
<1>7. QED
  BY <1>6 DEF Newest

LEMMA ReadyAgainTyped ==
  ASSUME NEW q, TypedQueue(q), NEW f \in Files, Present(q, f)
  PROVE  TypedQueue(ReadyAgain(q, f)) /\ SameFiles(q, ReadyAgain(q, f))
<1> DEFINE ready == [q EXCEPT !.status[f] = "READY"]
<1>1. /\ ready \in Queues /\ ready.older = q.older /\ ready.toSend = q.toSend
      /\ ready.status = [q.status EXCEPT ![f] = "READY"] /\ q \in Queues
  BY DEF TypedQueue, Queues, States
<1>2. ReadyAgain(q, f) = ready \/ ReadyAgain(q, f) = SendToCdh(ready, f, FALSE)
  BY DEF ReadyAgain
<1> HIDE DEF ready
<1>3. SameFiles(q, ready) /\ Present(ready, f) /\ FALSE \in BOOLEAN
  BY <1>1 DEF SameFiles, Present, Queues
<1>4. TypedQueue(ready)
  BY <1>1, <1>3, SameFilesTyped
<1>5. TypedQueue(SendToCdh(ready, f, FALSE)) /\ SameFiles(ready, SendToCdh(ready, f, FALSE))
  BY <1>3, <1>4, SentTyped
<1>6. SameFiles(q, SendToCdh(ready, f, FALSE))
  BY <1>3, <1>5, SameFilesTwice
<1>7. QED
  BY <1>2, <1>3, <1>4, <1>5, <1>6

\* The recursion over the files of S ends: one file less in every step.
LEMMA AllReadyAgainTyped ==
  ASSUME NEW q, TypedQueue(q), NEW S \in SUBSET Files, \A f \in S : Present(q, f)
  PROVE  TypedQueue(AllReadyAgain(q, S)) /\ SameFiles(q, AllReadyAgain(q, S))
<1> DEFINE Body(g, T) == IF T = {} THEN q
                         ELSE LET f == Newest(q, T) IN ReadyAgain(g[T \ {f}], f)
           Level(n) == {T \in SUBSET S : Cardinality(T) <= n}
           Exists(n) == \E g : g = [T \in Level(n) |-> Body(g, T)]
           readied == CHOOSE g : g = [T \in SUBSET S |-> Body(g, T)]
<1>1. IsFiniteSet(S) /\ \A T \in SUBSET S : IsFiniteSet(T) /\ Cardinality(T) \in Nat
                                            /\ Cardinality(T) <= Cardinality(S)
  <2>1. IsFiniteSet(Files)
    BY BoundsAssumption, FS_Interval DEF Files
  <2>2. IsFiniteSet(S)
    BY <2>1, FS_Subset
  <2>3. QED
    BY <2>2, FS_Subset, FS_CardinalityType
<1>2. ASSUME NEW T \in SUBSET S, T # {}
      PROVE  /\ Newest(q, T) \in T /\ T \ {Newest(q, T)} \in SUBSET S
             /\ Cardinality(T \ {Newest(q, T)}) = Cardinality(T) - 1
             /\ Cardinality(T) \in Nat \ {0}
  <2>1. q \in Queues /\ Ordered(q) /\ T \subseteq Files /\ \A f \in T : Present(q, f)
    BY DEF TypedQueue
  <2>2. Newest(q, T) \in T
    BY <1>2, <2>1, NewestIsLast
  <2>3. Cardinality(T) \in Nat /\ Cardinality(T) # 0 /\ IsFiniteSet(T)
    BY <1>1, <1>2, FS_EmptySet
  <2>4. Cardinality(T \ {Newest(q, T)}) = Cardinality(T) - 1
    BY <2>2, <2>3, FS_RemoveElement
  <2>5. QED
    BY <2>2, <2>3, <2>4
<1>3. \A n \in Nat : Exists(n)
  <2> DEFINE Bad == {n \in Nat : ~Exists(n)}
  <2> SUFFICES ASSUME Bad # {} PROVE FALSE
    OBVIOUS
  <2>1. PICK n \in Bad : \A m \in Bad : n <= m
    BY LeastNatural
  <2>2. n \in Nat /\ ~Exists(n)
    BY <2>1
  <2>3. n # 0 => n - 1 \in Nat /\ Exists(n - 1)
    <3>1. n # 0 => n - 1 \in Nat /\ ~(n <= n - 1)
      BY <2>2
    <3> HIDE DEF Exists
    <3>2. QED
      BY <2>1, <3>1
  <2>4. PICK g : n # 0 => g = [T \in Level(n - 1) |-> Body(g, T)]
    BY <2>3
  <2> DEFINE h == [T \in Level(n) |-> Body(g, T)]
  <2>5. ASSUME NEW T \in Level(n)
        PROVE  Body(g, T) = Body(h, T)
    <3>1. CASE T = {}
      BY <3>1
    <3>2. CASE T # {}
      <4> DEFINE U == T \ {Newest(q, T)}
      <4>1. U \in SUBSET S /\ Cardinality(U) <= n - 1 /\ n # 0
        BY <1>2, <2>2, <2>5, <3>2
      <4>2. U \in Level(n - 1) /\ U \in Level(n)
        BY <2>2, <1>1, <4>1
      <4>3. g[U] = Body(g, U) /\ h[U] = Body(g, U)
        BY <2>4, <4>1, <4>2
      <4>4. QED
        BY <3>2, <4>3
    <3>3. QED
      BY <3>1, <3>2
  <2>6. h = [T \in Level(n) |-> Body(h, T)]
    <3> HIDE DEF Body, Level
    <3>1. QED
      BY <2>5
  <2>7. QED
    BY <2>2, <2>6
<1>4. readied = [T \in SUBSET S |-> Body(readied, T)]
  <2>1. Level(Cardinality(S)) = SUBSET S /\ Cardinality(S) \in Nat
    BY <1>1
  <2>2. Exists(Cardinality(S))
    BY <1>3, <2>1
  <2>3. \E g : g = [T \in SUBSET S |-> Body(g, T)]
    BY <2>1, <2>2
  <2>4. QED
    BY <2>3
<1>5. AllReadyAgain(q, S) = readied[S]
  BY DEF AllReadyAgain
<1> HIDE DEF readied
<1>6. \A T \in SUBSET S : readied[T] = Body(readied, T)
  BY <1>4
<1>7. \A T \in SUBSET S : TypedQueue(readied[T]) /\ SameFiles(q, readied[T])
  <2> DEFINE Typed(T) == TypedQueue(readied[T]) /\ SameFiles(q, readied[T])
             Bad == {n \in Nat : \E T \in SUBSET S : Cardinality(T) = n /\ ~Typed(T)}
  <2>1. Bad = {}
    <3> SUFFICES ASSUME Bad # {} PROVE FALSE
      OBVIOUS
    <3>1. PICK n \in Bad : \A m \in Bad : n <= m
      BY LeastNatural
    <3>2. PICK T \in SUBSET S : Cardinality(T) = n /\ ~Typed(T)
      BY <3>1
    <3>3. T # {}
      <4>1. readied[{}] = q
        BY <1>6
      <4>2. Typed({})
        BY <4>1 DEF SameFiles
      <4>3. QED
        BY <3>2, <4>2
    <3> DEFINE f == Newest(q, T)
               U == T \ {f}
    <3>4. f \in T /\ U \in SUBSET S /\ Cardinality(U) = n - 1 /\ n - 1 \in Nat /\ n \in Nat
      BY <1>2, <3>2, <3>3
    <3>5. Typed(U)
      <4>1. ~(n <= n - 1)
        BY <3>4
      <4>2. n - 1 \notin Bad
        BY <3>1, <4>1
      <4> HIDE DEF Typed, U
      <4>3. QED
        BY <3>4, <4>2
    <3>6. readied[T] = ReadyAgain(readied[U], f)
      BY <1>6, <3>3
    <3> HIDE DEF f, U
    <3>7. f \in Files /\ Present(readied[U], f)
      BY <3>4, <3>5 DEF SameFiles
    <3>8. Typed(T)
      BY <3>5, <3>6, <3>7, ReadyAgainTyped, SameFilesTwice
    <3>9. QED
      BY <3>2, <3>8
  <2> HIDE DEF Typed
  <2>2. \A T \in SUBSET S : Typed(T)
    BY <1>1, <2>1
  <2>3. QED
    BY <2>2 DEF Typed
<1>8. QED
  BY <1>5, <1>7

LEMMA RestartedTyped ==
  ASSUME NEW q, TypedQueue(q), NEW r, r = Restarted(q)
  PROVE  TypedQueue(r) /\ SameFiles(q, r)
<1> DEFINE read == [q EXCEPT !.transferFile = None, !.last = None, !.next = None, !.toSend = <<>>]
           sent == With(read, "SEND")
           first == Oldest(read, sent)
           readied == AllReadyAgain(read, sent \ {first})
<1>1. r = IF sent = {} THEN SendOldest(read) ELSE SendToCdh(readied, first, TRUE)
  BY DEF Restarted, Marked
<1>2. /\ read \in Queues /\ read.older = q.older /\ read.status = q.status /\ read.toSend = <<>>
  <2>1. <<>> \in Seq(Item)
    BY EmptySeq
  <2>2. QED
    BY <2>1 DEF TypedQueue, Queues
<1> HIDE DEF read
<1>3. TypedQueue(read) /\ SameFiles(q, read)
  <2>1. SameFiles(q, read) /\ <<>> \in Seq([f : Files, again : BOOLEAN])
    BY <1>2, EmptySeq DEF SameFiles, Present
  <2>2. Ordered(read)
    BY <1>2, <2>1 DEF TypedQueue, SameFiles, Ordered, Older
  <2>3. QED
    BY <1>2, <2>1, <2>2 DEF TypedQueue
<1>4. CASE sent = {}
  BY <1>1, <1>3, <1>4, SendOldestTyped, SameFilesTwice
<1>5. CASE sent # {}
  <2>1. sent \in SUBSET Files /\ \A f \in sent : Present(read, f)
    BY DEF With, Present
  <2> HIDE DEF sent
  <2>2. first \in sent /\ first \in Files /\ Present(read, first)
    BY <1>3, <1>5, <2>1, OldestIsFirst DEF TypedQueue
  <2>3. sent \ {first} \in SUBSET Files /\ \A f \in sent \ {first} : Present(read, f)
    BY <2>1
  <2> HIDE DEF first
  <2>4. TypedQueue(readied) /\ SameFiles(read, readied)
    BY <1>3, <2>3, AllReadyAgainTyped
  <2> HIDE DEF readied
  <2>5. Present(readied, first) /\ TRUE \in BOOLEAN
    BY <2>2, <2>4 DEF SameFiles
  <2>6. TypedQueue(r) /\ SameFiles(readied, r)
    BY <1>1, <1>5, <2>2, <2>4, <2>5, SentTyped
  <2>7. QED
    BY <1>3, <2>4, <2>6, SameFilesTwice
<1>6. QED
  BY <1>4, <1>5

LEMMA SendFileTyped ==
  ASSUME TypeOK, NEW q, TypedQueue(q), NEW item \in Item, item.f \in Files,
         SendFileToCdh(q, item)
  PROVE  /\ TypedQueue(tq') /\ SameFiles(q, tq')
         /\ manageQ' \in Seq(Messages) /\ cdh' \in CdhStates
<1>1. manageQ \in Seq(Messages) /\ cdh \in CdhStates /\ "FINISHED" \in Messages
  BY DEF TypeOK, Messages
<1>2. CASE Connected
  <2>1. [f |-> item.f, kind |-> Kind(item)] \in Requests
    BY DEF Kind, Requests
  <2>2. cdh' = [cdh EXCEPT !.requests = @ \cup {[f |-> item.f, kind |-> Kind(item)]},
                           !.tasks = IF Kind(item) = "task" THEN Append(@, item.f) ELSE @]
        /\ tq' = q /\ manageQ' = manageQ
    BY <1>2 DEF SendFileToCdh
  <2>3. cdh' \in CdhStates
    <3>1. cdh.tasks \in Seq(Files) /\ Append(cdh.tasks, item.f) \in Seq(Files)
      BY <1>1, AppendProperties DEF CdhStates
    <3>2. QED
      BY <1>1, <2>1, <2>2, <3>1 DEF CdhStates
  <2>4. SameFiles(q, tq')
    BY <2>2 DEF SameFiles
  <2>5. QED
    BY <1>1, <2>2, <2>3, <2>4
<1>3. CASE ~Connected
  <2>1. tq' \in Finished(q, item.f, "FAILED") /\ manageQ' = Append(manageQ, "FINISHED")
        /\ cdh' = cdh
    BY <1>3 DEF SendFileToCdh
  <2>2. "FAILED" \in {"DELETE", "FAILED"} /\ item.f \in Files \cup {None}
    OBVIOUS
  <2>3. TypedQueue(tq') /\ SameFiles(q, tq')
    BY <2>1, <2>2, FinishedTyped
  <2>4. manageQ' \in Seq(Messages)
    BY <1>1, <2>1, AppendProperties
  <2>5. QED
    BY <1>1, <2>1, <2>3, <2>4
<1>4. QED
  BY <1>2, <1>3

(* What the types of the queue rest on: only files are queued and in       *)
(* transfer, and a file not yet reported is not in the queue.              *)
TypeInv ==
  /\ TypeOK
  /\ TypedQueue(tq)
  /\ task.inTransfer \/ task.marking => task.current.f \in Files
  /\ \A f \in Files : f > reported => ~Present(tq, f)

LEMMA TypeInvFrom ==
  ASSUME TypeInv, TypedQueue(tq'), task' \in Tasks, manageQ' \in Seq(Messages),
         cdh' \in CdhStates, callback' \in {"none", "finish"}, reported' = reported,
         events' \in 0..MaxEvents, delivered' \in [Files -> Nat], unsure' \subseteq Files,
         outOfTurn' \in BOOLEAN,
         task'.inTransfer \/ task'.marking => task'.current.f \in Files,
         \A f \in Files : Present(tq', f) => Present(tq, f)
  PROVE  TypeInv'
<1>1. tq' \in Queues
  BY DEF TypedQueue
<1>2. TypeOK'
  BY <1>1 DEF TypeOK, TypeInv
<1>3. \A f \in Files : f > reported' => ~Present(tq', f)
  BY DEF TypeInv
<1>4. QED
  BY <1>2, <1>3 DEF TypeInv

LEMMA TypeInvParts ==
  ASSUME TypeInv
  PROVE  /\ TypedQueue(tq) /\ tq \in Queues /\ task \in Tasks /\ manageQ \in Seq(Messages)
         /\ cdh \in CdhStates /\ callback \in {"none", "finish"} /\ reported \in 0..MaxFile
         /\ events \in 0..MaxEvents /\ delivered \in [Files -> Nat] /\ unsure \subseteq Files
         /\ outOfTurn \in BOOLEAN
         /\ task.current \in Item /\ task.current.f \in Files \cup {None}
         /\ task.inTransfer \in BOOLEAN /\ task.marking \in BOOLEAN
         /\ task.retries \in 0..SendRetries /\ 0 \in 0..SendRetries
         /\ MaxFile \in Nat /\ MaxEvents \in Nat /\ SendRetries \in Nat
  BY BoundsAssumption DEF TypeInv, TypeOK, Tasks, Item

LEMMA MessagesTyped ==
  ASSUME NEW q \in Seq(Messages)
  PROVE  /\ \A m \in Messages : Append(q, m) \in Seq(Messages) /\ <<m>> \o q \in Seq(Messages)
         /\ q # <<>> => Tail(q) \in Seq(Messages)
  <1>1. \A m \in Messages : Append(q, m) \in Seq(Messages)
    BY AppendProperties
  <1>2. \A m \in Messages : <<m>> \o q \in Seq(Messages)
    <2> TAKE m \in Messages
    <2>1. <<m>> \in Seq(Messages)
      OBVIOUS
    <2>2. QED
      BY <2>1, ConcatProperties
  <1>3. q # <<>> => Tail(q) \in Seq(Messages)
    BY HeadTailProperties
  <1>4. QED
    BY <1>1, <1>2, <1>3

LEMMA TypeEventOkStep ==
  ASSUME TypeInv, NEW r \in cdh.requests, EventOk(r)
  PROVE  TypeInv'
<1>1. /\ tq' \in Finished(tq, task.current.f, "DELETE")
      /\ Answers(r, TRUE) /\ callback' = "finish" /\ task' = task
      /\ manageQ' = manageQ /\ reported' = reported /\ events' = events /\ unsure' = unsure
      /\ outOfTurn' = outOfTurn
      /\ delivered' = [delivered EXCEPT ![r.f] = IF r.kind = "task" THEN @ + 1 ELSE @]
  BY DEF EventOk, Answered, counters
<1>2. "DELETE" \in {"DELETE", "FAILED"} /\ task.current.f \in Files \cup {None} /\ TypedQueue(tq)
  BY TypeInvParts
<1>3. TypedQueue(tq') /\ SameFiles(tq, tq')
  BY <1>1, <1>2, FinishedTyped
<1>4. cdh' \in CdhStates
  BY <1>1, TypeInvParts, AnswersTyped
<1>5. delivered' \in [Files -> Nat]
  <2>1. \A f \in Files : delivered[f] \in Nat /\ delivered[f] + 1 \in Nat
    BY TypeInvParts
  <2>2. \A f \in Files : delivered'[f] \in Nat
    BY <1>1, <2>1, TypeInvParts
  <2>3. QED
    BY <1>1, <2>2, TypeInvParts
<1>6. QED
  BY <1>1, <1>3, <1>4, <1>5, TypeInvParts, TypeInvFrom DEF TypeInv, SameFiles

LEMMA TypeEventFailedStep ==
  ASSUME TypeInv, NEW r \in cdh.requests, EventFailed(r)
  PROVE  TypeInv'
<1>1. /\ tq' \in Finished(tq, task.current.f, "FAILED")
      /\ Answers(r, FALSE) /\ callback' = "finish" /\ task' = task
      /\ manageQ' = manageQ /\ reported' = reported /\ events' = events /\ unsure' = unsure
      /\ outOfTurn' = outOfTurn /\ delivered' = delivered
  BY DEF EventFailed, Answered, counters, ErrorState
<1>2. "FAILED" \in {"DELETE", "FAILED"} /\ task.current.f \in Files \cup {None} /\ TypedQueue(tq)
  BY TypeInvParts
<1>3. TypedQueue(tq') /\ SameFiles(tq, tq')
  BY <1>1, <1>2, FinishedTyped
<1>4. cdh' \in CdhStates
  BY <1>1, TypeInvParts, AnswersTyped
<1>5. QED
  BY <1>1, <1>3, <1>4, TypeInvParts, TypeInvFrom DEF TypeInv, SameFiles

LEMMA TypeEventRetryStep ==
  ASSUME TypeInv, NEW r \in cdh.requests, EventRetry(r)
  PROVE  TypeInv'
<1>1. /\ task.retries < SendRetries /\ task' = [task EXCEPT !.retries = @ + 1]
      /\ manageQ' = Append(manageQ, "RETRY") /\ Answers(r, FALSE)
      /\ UNCHANGED <<tq, callback, counters, history>>
  BY DEF EventRetry
<1>2. task' \in Tasks /\ task'.inTransfer = task.inTransfer /\ task'.marking = task.marking
      /\ task'.current = task.current
  <2>1. task.retries + 1 \in 0..SendRetries
    BY <1>1, TypeInvParts
  <2>2. QED
    BY <1>1, <2>1, TypeInvParts DEF Tasks
<1>3. manageQ' \in Seq(Messages) /\ cdh' \in CdhStates
  <2>1. cdh' \in CdhStates
    BY <1>1, TypeInvParts, AnswersTyped
  <2>2. QED
    BY <1>1, <2>1, TypeInvParts, MessagesTyped DEF Messages
<1>4. QED
  BY <1>1, <1>2, <1>3, TypeInvParts, TypeInvFrom DEF TypeInv, counters, history

\* Of the queue, the counters and the histories nothing changes.
LEMMA TypeInvSame ==
  ASSUME TypeInv, UNCHANGED <<tq, counters, delivered, unsure>>, task' \in Tasks,
         manageQ' \in Seq(Messages), cdh' \in CdhStates, callback' \in {"none", "finish"},
         outOfTurn' \in BOOLEAN,
         task'.inTransfer \/ task'.marking => task'.current.f \in Files
  PROVE  TypeInv'
  BY TypeInvParts, TypeInvFrom DEF TypeInv, counters

LEMMA TypeFinishEventStep == TypeInv /\ FinishEvent => TypeInv'
<1> SUFFICES ASSUME TypeInv, FinishEvent PROVE TypeInv'
  OBVIOUS
<1>1. task' = [task EXCEPT !.retries = 0] /\ manageQ' = Append(manageQ, "FINISHED")
      /\ callback' = "none" /\ UNCHANGED <<tq, cdh, counters, history>>
  BY DEF FinishEvent
<1>2. task' \in Tasks /\ task'.inTransfer = task.inTransfer /\ task'.marking = task.marking
      /\ task'.current = task.current
  BY <1>1, TypeInvParts DEF Tasks
<1>3. manageQ' \in Seq(Messages)
  BY <1>1, TypeInvParts, MessagesTyped DEF Messages
<1>4. QED
  BY <1>1, <1>2, <1>3, TypeInvParts, TypeInvSame DEF TypeInv, history

LEMMA TypeEventNoServerStep == TypeInv /\ EventNoServer => TypeInv'
<1> SUFFICES ASSUME TypeInv, EventNoServer PROVE TypeInv'
  OBVIOUS
<1>1. task' = [task EXCEPT !.retries = 0] /\ manageQ' = manageQ \o <<"FINISHED", "REOPEN">>
      /\ cdh' = [cdh EXCEPT !.session = "closed"] /\ UNCHANGED <<tq, callback, counters, history>>
  BY DEF EventNoServer
<1>2. task' \in Tasks /\ task'.inTransfer = task.inTransfer /\ task'.marking = task.marking
      /\ task'.current = task.current
  BY <1>1, TypeInvParts DEF Tasks
<1>3. manageQ' \in Seq(Messages)
  <2>1. <<"FINISHED", "REOPEN">> \in Seq(Messages)
    BY DEF Messages
  <2>2. QED
    BY <1>1, <2>1, TypeInvParts, ConcatProperties
<1>4. cdh' \in CdhStates
  BY <1>1, TypeInvParts DEF CdhStates
<1>5. QED
  BY <1>1, <1>2, <1>3, <1>4, TypeInvParts, TypeInvSame DEF TypeInv, history

LEMMA TypeTakeFileStep == TypeInv /\ TakeFile => TypeInv'
<1> SUFFICES ASSUME TypeInv, TakeFile PROVE TypeInv'
  OBVIOUS
<1> DEFINE item == Head(tq.toSend)
           taken == [tq EXCEPT !.toSend = Tail(@),
                       !.status = IF Present(tq, item.f) /\ ~task.stopSet
                                  THEN [@ EXCEPT ![item.f] = "SEND"] ELSE @]
<1>1. /\ tq.toSend # <<>> /\ SendFileToCdh(taken, item)
      /\ task' = [task EXCEPT !.current = item, !.inTransfer = ~task.stopSet,
                              !.marking = task.stopSet,
                              !.retries = IF Connected THEN @ ELSE 0]
      /\ UNCHANGED <<callback, counters, history>>
  BY DEF TakeFile
<1>2. item \in [f : Files, again : BOOLEAN] /\ Tail(tq.toSend) \in Seq([f : Files, again : BOOLEAN])
  <2>1. tq.toSend \in Seq([f : Files, again : BOOLEAN])
    BY TypeInvParts DEF TypedQueue
  <2>2. QED
    BY <1>1, <2>1, HeadTailProperties
<1>3. Tail(tq.toSend) \in Seq(Item)
  <2>1. tq.toSend \in Seq(Item)
    BY TypeInvParts DEF Queues
  <2>2. QED
    BY <1>1, <2>1, HeadTailProperties
<1>4. item \in Item /\ item.f \in Files
  BY <1>2 DEF Item
<1>5. /\ taken \in Queues /\ taken.older = tq.older /\ taken.toSend = Tail(tq.toSend)
      /\ taken.status = IF Present(tq, item.f) /\ ~task.stopSet
                        THEN [tq.status EXCEPT ![item.f] = "SEND"] ELSE tq.status
  <2> HIDE DEF item
  <2>1. QED
    BY <1>3, <1>4, TypeInvParts DEF Queues, States
<1> HIDE DEF item, taken
<1>6. SameFiles(tq, taken)
  BY <1>4, <1>5, TypeInvParts DEF SameFiles, Present, Queues
<1>7. TypedQueue(taken)
  <2>1. Ordered(taken)
    BY <1>5, <1>6, TypeInvParts DEF TypedQueue, SameFiles, Ordered, Older
  <2>2. QED
    BY <1>2, <1>5, <2>1 DEF TypedQueue
<1>8. /\ TypedQueue(tq') /\ SameFiles(taken, tq')
      /\ manageQ' \in Seq(Messages) /\ cdh' \in CdhStates
  BY <1>1, <1>4, <1>7, SendFileTyped DEF TypeInv
<1>9. task' \in Tasks /\ task'.current = item
  BY <1>1, <1>4, TypeInvParts DEF Tasks
<1>10. \A f \in Files : Present(tq', f) => Present(tq, f)
  BY <1>6, <1>8 DEF SameFiles
<1>11. QED
  BY <1>1, <1>4, <1>8, <1>9, <1>10, TypeInvParts, TypeInvFrom DEF counters, history

LEMMA TypeMarkStep == TypeInv /\ Mark => TypeInv'
<1> SUFFICES ASSUME TypeInv, Mark PROVE TypeInv'
  OBVIOUS
<1>1. /\ task.marking /\ task' = [task EXCEPT !.marking = FALSE, !.inTransfer = TRUE]
      /\ tq' = IF Present(tq, task.current.f)
               THEN [tq EXCEPT !.status[task.current.f] = "SEND"] ELSE tq
      /\ UNCHANGED <<manageQ, cdh, callback, counters, history>>
  BY DEF Mark
<1>2. task.current.f \in Files
  BY <1>1 DEF TypeInv
<1>3. task' \in Tasks /\ task'.current = task.current
  BY <1>1, TypeInvParts DEF Tasks
<1>4. /\ tq' \in Queues /\ tq'.older = tq.older /\ tq'.toSend = tq.toSend
      /\ tq'.status = IF Present(tq, task.current.f)
                      THEN [tq.status EXCEPT ![task.current.f] = "SEND"] ELSE tq.status
  BY <1>1, <1>2, TypeInvParts DEF Queues, States
<1>5. SameFiles(tq, tq')
  BY <1>2, <1>4, TypeInvParts DEF SameFiles, Present, Queues
<1>6. TypedQueue(tq')
  BY <1>4, <1>5, TypeInvParts, SameFilesTyped
<1>7. QED
  BY <1>1, <1>2, <1>3, <1>5, <1>6, TypeInvParts, TypeInvFrom DEF SameFiles, counters, history

LEMMA TypeRetryNowStep == TypeInv /\ RetryNow => TypeInv'
<1> SUFFICES ASSUME TypeInv, RetryNow PROVE TypeInv'
  OBVIOUS
<1>1. /\ task.inTransfer /\ SendFileToCdh(tq, task.current)
      /\ task' = [task EXCEPT !.resend = FALSE, !.retries = IF Connected THEN @ ELSE 0]
      /\ UNCHANGED <<callback, counters, history>>
  BY DEF RetryNow
<1>2. task.current.f \in Files
  BY <1>1 DEF TypeInv
<1>3. task' \in Tasks /\ task'.current = task.current
  BY <1>1, TypeInvParts DEF Tasks
<1>4. /\ TypedQueue(tq') /\ SameFiles(tq, tq')
      /\ manageQ' \in Seq(Messages) /\ cdh' \in CdhStates
  BY <1>1, <1>2, TypeInvParts, SendFileTyped DEF TypeInv
<1>5. QED
  BY <1>1, <1>2, <1>3, <1>4, TypeInvParts, TypeInvFrom DEF SameFiles, counters, history

LEMMA TypeHandleStep ==
  TypeInv /\ (HandleFinished \/ HandleRetry \/ HandleReopen \/ HandleReattach \/ HandleStopFile)
  => TypeInv'
<1> SUFFICES ASSUME TypeInv,
                    HandleFinished \/ HandleRetry \/ HandleReopen \/ HandleReattach \/ HandleStopFile
             PROVE  TypeInv'
  OBVIOUS
<1>1. manageQ # <<>> /\ ~task.marking
  BY DEF HandleFinished, HandleRetry, HandleReopen, HandleReattach, HandleStopFile, Takes
<1>2. /\ Tail(manageQ) \in Seq(Messages)
      /\ \A m \in Messages : Append(Tail(manageQ), m) \in Seq(Messages)
  BY <1>1, TypeInvParts, MessagesTyped
<1>3. CASE HandleFinished
  <2>1. /\ task' = [task EXCEPT !.inTransfer = FALSE, !.resend = FALSE] /\ manageQ' = Tail(manageQ)
        /\ outOfTurn' = (outOfTurn \/ CurrentAtCdh)
        /\ UNCHANGED <<tq, cdh, callback, counters, delivered, unsure>>
    BY <1>3 DEF HandleFinished
  <2>2. task' \in Tasks /\ ~task'.inTransfer /\ ~task'.marking
    BY <1>1, <2>1, TypeInvParts DEF Tasks
  <2>3. outOfTurn' \in BOOLEAN
    BY <2>1
  <2>4. QED
    BY <1>2, <2>1, <2>2, <2>3, TypeInvParts, TypeInvSame
<1>4. CASE HandleRetry
  <2>1. task' = [task EXCEPT !.resend = TRUE] /\ manageQ' = Tail(manageQ)
        /\ UNCHANGED <<tq, cdh, callback, counters, history>>
    BY <1>4 DEF HandleRetry
  <2>2. task' \in Tasks /\ task'.inTransfer = task.inTransfer /\ task'.marking = task.marking
        /\ task'.current = task.current
    BY <2>1, TypeInvParts DEF Tasks
  <2>3. QED
    BY <1>2, <2>1, <2>2, TypeInvParts, TypeInvSame DEF TypeInv, history
<1>5. CASE HandleReopen
  <2>1. manageQ' = Append(Tail(manageQ), NextTry)
        /\ cdh' = [cdh EXCEPT !.session = IF cdh.up THEN "open" ELSE "closed"]
        /\ UNCHANGED <<tq, task, callback, counters, history>>
    BY <1>5 DEF HandleReopen
  <2>2. NextTry \in Messages
    BY DEF NextTry, Messages
  <2>3. manageQ' \in Seq(Messages) /\ cdh' \in CdhStates
    BY <1>2, <2>1, <2>2, TypeInvParts DEF CdhStates
  <2>4. QED
    BY <2>1, <2>3, TypeInvParts, TypeInvSame DEF TypeInv, history
<1>6. CASE HandleReattach
  <2>1. manageQ' = Append(Tail(manageQ), IF Connected THEN "RESEND" ELSE "REATTACH")
        /\ UNCHANGED <<tq, task, cdh, callback, counters, history>>
    BY <1>6 DEF HandleReattach
  <2>2. manageQ' \in Seq(Messages)
    BY <1>2, <2>1 DEF Messages
  <2>3. QED
    BY <2>1, <2>2, TypeInvParts, TypeInvSame DEF TypeInv, history
<1>7. CASE HandleStopFile
  <2>1. task' = [task EXCEPT !.stopSet = TRUE] /\ manageQ' = Tail(manageQ)
        /\ UNCHANGED <<tq, cdh, callback, counters, history>>
    BY <1>7 DEF HandleStopFile
  <2>2. task' \in Tasks /\ task'.inTransfer = task.inTransfer /\ task'.marking = task.marking
        /\ task'.current = task.current
    BY <2>1, TypeInvParts DEF Tasks
  <2>3. QED
    BY <1>2, <2>1, <2>2, TypeInvParts, TypeInvSame DEF TypeInv, history
<1>8. QED
  BY <1>3, <1>4, <1>5, <1>6, <1>7

LEMMA TypeHandleResendStep == TypeInv /\ HandleResend => TypeInv'
<1> SUFFICES ASSUME TypeInv, HandleResend PROVE TypeInv'
  OBVIOUS
<1>1. /\ manageQ # <<>> /\ manageQ' = Tail(manageQ)
      /\ tq' = IF CurrentIsSent THEN [tq EXCEPT !.toSend = <<task.current>> \o @] ELSE tq
      /\ outOfTurn' = (outOfTurn \/ task.inTransfer
                       \/ \E i \in DOMAIN tq.toSend : tq.toSend[i].f = task.current.f)
      /\ UNCHANGED <<task, cdh, callback, counters, delivered, unsure>>
  BY DEF HandleResend, Takes, ResentFirst
<1>2. manageQ' \in Seq(Messages) /\ outOfTurn' \in BOOLEAN
  BY <1>1, TypeInvParts, MessagesTyped
<1>3. TypedQueue(tq') /\ SameFiles(tq, tq')
  <2>1. CASE CurrentIsSent
    <3> DEFINE items == [f : Files, again : BOOLEAN]
    <3>1. task.current \in items /\ task.current \in Item
      BY <2>1, TypeInvParts DEF CurrentIsSent, Present, Item
    <3>2. tq.toSend \in Seq(items) /\ tq.toSend \in Seq(Item)
      BY TypeInvParts DEF TypedQueue, Queues
    <3>3. <<task.current>> \in Seq(items) /\ <<task.current>> \in Seq(Item)
      <4> HIDE DEF items
      <4>1. QED
        BY <3>1
    <3>4. <<task.current>> \o tq.toSend \in Seq(items) /\ <<task.current>> \o tq.toSend \in Seq(Item)
      <4> HIDE DEF items
      <4>1. QED
        BY <3>2, <3>3, ConcatProperties
    <3>5. /\ tq' \in Queues /\ tq'.older = tq.older /\ tq'.status = tq.status
          /\ tq'.toSend = <<task.current>> \o tq.toSend
      BY <1>1, <2>1, <3>4, TypeInvParts DEF Queues
    <3>6. SameFiles(tq, tq')
      BY <3>5 DEF SameFiles, Present
    <3>7. Ordered(tq')
      BY <3>5, <3>6, TypeInvParts DEF TypedQueue, SameFiles, Ordered, Older
    <3>8. QED
      BY <3>4, <3>5, <3>6, <3>7 DEF TypedQueue
  <2>2. CASE ~CurrentIsSent
    BY <1>1, <2>2, TypeInvParts DEF SameFiles
  <2>3. QED
    BY <2>1, <2>2
<1>4. QED
  BY <1>1, <1>2, <1>3, TypeInvParts, TypeInvFrom DEF TypeInv, SameFiles, counters

LEMMA TypeHandleStopAllStep == TypeInv /\ HandleStopAll => TypeInv'
<1> SUFFICES ASSUME TypeInv, HandleStopAll PROVE TypeInv'
  OBVIOUS
<1>1. manageQ # <<>> /\ tq' = [tq EXCEPT !.toSend = <<>>]
      /\ UNCHANGED <<callback, counters, history>>
  BY DEF HandleStopAll, Takes
<1>2. /\ Tail(manageQ) \in Seq(Messages)
      /\ \A m \in Messages : Append(Tail(manageQ), m) \in Seq(Messages)
  BY <1>1, TypeInvParts, MessagesTyped
<1>3. /\ manageQ' \in Seq(Messages) /\ cdh' \in CdhStates /\ task' \in Tasks
      /\ task'.inTransfer = task.inTransfer /\ task'.marking = task.marking
      /\ task'.current = task.current
  <2>1. CASE task.inTransfer
    <3>1. StopFileTransfer /\ task' = [task EXCEPT !.retries = 0]
      BY <2>1 DEF HandleStopAll
    <3>2. manageQ' = Append(Tail(manageQ), "FINISHED")
          /\ (cdh' = cdh \/ cdh' = [cdh EXCEPT !.requests = {r \in @ : r.f # task.current.f}])
      BY <3>1 DEF StopFileTransfer
    <3>3. manageQ' \in Seq(Messages)
      BY <1>2, <3>2 DEF Messages
    <3>4. cdh' \in CdhStates
      BY <3>2, TypeInvParts DEF CdhStates
    <3>5. QED
      BY <3>1, <3>3, <3>4, TypeInvParts DEF Tasks
  <2>2. CASE ~task.inTransfer
    BY <1>2, <2>2, TypeInvParts DEF HandleStopAll
  <2>3. QED
    BY <2>1, <2>2
<1>4. /\ tq' \in Queues /\ tq'.older = tq.older /\ tq'.status = tq.status /\ tq'.toSend = <<>>
  <2>1. <<>> \in Seq(Item)
    BY EmptySeq
  <2>2. QED
    BY <1>1, <2>1, TypeInvParts DEF Queues
<1>5. TypedQueue(tq') /\ SameFiles(tq, tq')
  <2>1. SameFiles(tq, tq') /\ <<>> \in Seq([f : Files, again : BOOLEAN])
    BY <1>4, EmptySeq DEF SameFiles, Present
  <2>2. Ordered(tq')
    BY <1>4, <2>1, TypeInvParts DEF TypedQueue, SameFiles, Ordered, Older
  <2>3. QED
    BY <1>4, <2>1, <2>2 DEF TypedQueue
<1>6. QED
  BY <1>1, <1>3, <1>5, TypeInvParts, TypeInvFrom DEF TypeInv, SameFiles, counters, history

LEMMA TypeReportStep ==
  ASSUME TypeInv, NEW before \in SUBSET {f \in Files : Present(tq, f)}, Report(before)
  PROVE  TypeInv'
<1>1. /\ reported < MaxFile /\ reported' = reported + 1
      /\ \A g \in before : Present(tq, g) /\ (\A h \in Files : Older(tq, h, g) => h \in before)
      /\ tq' = Inserted(tq, reported', before)
      /\ outOfTurn' = (outOfTurn \/ (tq'.next # reported' /\ Older(tq', reported', tq'.next)))
      /\ UNCHANGED <<task, manageQ, cdh, callback, delivered, unsure>>
  BY DEF Report
<1>2. events' \in 0..MaxEvents
  <2>1. events' = events \/ Event
    BY DEF Report
  <2>2. QED
    BY <2>1, TypeInvParts DEF Event
<1>3. reported' \in Files /\ reported' \in 0..MaxFile /\ reported' > reported
  BY <1>1, TypeInvParts DEF Files
<1>4. ~Present(tq, reported') /\ before \in SUBSET Files
  BY <1>3 DEF TypeInv
<1>5. TypedQueue(tq') /\ \A g \in Files : Present(tq', g) => Present(tq, g) \/ g = reported'
  BY <1>1, <1>3, <1>4, TypeInvParts, InsertedTyped
<1>6. outOfTurn' \in BOOLEAN
  BY <1>1, TypeInvParts DEF Older
<1>7. \A f \in Files : f > reported' => ~Present(tq', f)
  <2>1. \A f \in Files : f > reported' => f > reported /\ f # reported'
    BY <1>3, TypeInvParts DEF Files
  <2>2. QED
    BY <1>5, <2>1 DEF TypeInv
<1>8. TypeOK'
  BY <1>1, <1>2, <1>3, <1>5, <1>6, TypeInvParts DEF TypeOK, TypedQueue
<1>9. task'.inTransfer \/ task'.marking => task'.current.f \in Files
  BY <1>1 DEF TypeInv
<1>10. QED
  BY <1>5, <1>7, <1>8, <1>9 DEF TypeInv

\* Of the thread and of CDH nothing changes; a command is counted.
LEMMA TypeInvCommand ==
  ASSUME TypeInv, Event, UNCHANGED <<task, cdh, callback, reported, delivered>>,
         TypedQueue(tq'), \A f \in Files : Present(tq', f) => Present(tq, f),
         manageQ' \in Seq(Messages), unsure' \subseteq Files, outOfTurn' \in BOOLEAN
  PROVE  TypeInv'
<1>1. events' \in 0..MaxEvents
  BY TypeInvParts DEF Event
<1>2. QED
  BY <1>1, TypeInvParts, TypeInvFrom DEF TypeInv

LEMMA TypeTransferFailedStep == TypeInv /\ TransferFailed => TypeInv'
<1> SUFFICES ASSUME TypeInv, TransferFailed PROVE TypeInv'
  OBVIOUS
<1>1. /\ Event /\ With(tq, "FAILED") # {} /\ tq' = FailedAgain(tq)
      /\ unsure' = unsure \cup With(tq, "FAILED")
      /\ outOfTurn' = (outOfTurn \/ tq.next # None
           \/ \E g \in With(tq, "READY") : Older(tq, g, Oldest(tq, With(tq, "FAILED"))))
      /\ UNCHANGED <<task, manageQ, cdh, callback, reported, delivered>>
  BY DEF TransferFailed
<1>2. TypedQueue(tq') /\ SameFiles(tq, tq')
  BY <1>1, TypeInvParts, FailedAgainTyped
<1>3. unsure' \subseteq Files /\ outOfTurn' \in BOOLEAN
  BY <1>1, TypeInvParts DEF With
<1>4. QED
  BY <1>1, <1>2, <1>3, TypeInvParts, TypeInvCommand DEF SameFiles

LEMMA TypeTransferFailedFileStep ==
  ASSUME TypeInv, NEW f \in Files, TransferFailedFile(f)
  PROVE  TypeInv'
<1>1. /\ Event /\ f \in With(tq, "FAILED") /\ tq' = SendToCdh(tq, f, FALSE)
      /\ unsure' = unsure \cup {f} /\ outOfTurn' = (outOfTurn \/ With(tq, "SEND") # {})
      /\ UNCHANGED <<task, manageQ, cdh, callback, reported, delivered>>
  BY DEF TransferFailedFile
<1>2. Present(tq, f) /\ FALSE \in BOOLEAN
  BY <1>1 DEF With, Present
<1>3. TypedQueue(tq') /\ SameFiles(tq, tq')
  BY <1>1, <1>2, TypeInvParts, SentTyped
<1>4. unsure' \subseteq Files /\ outOfTurn' \in BOOLEAN
  BY <1>1, TypeInvParts
<1>5. QED
  BY <1>1, <1>3, <1>4, TypeInvParts, TypeInvCommand DEF SameFiles

LEMMA TypeRemoveFileStep ==
  ASSUME TypeInv, NEW f \in Files, RemoveFile(f)
  PROVE  TypeInv'
<1>1. /\ Event /\ tq' = Erased(tq, {f})
      /\ manageQ' = IF tq.status[f] = "SEND" THEN <<"STOPFILE">> \o manageQ ELSE manageQ
      /\ outOfTurn' = (outOfTurn \/ tq.status[f] = "SEND" \/ f = tq.next)
      /\ UNCHANGED <<task, cdh, callback, reported, delivered, unsure>>
  BY DEF RemoveFile
<1>2. TypedQueue(tq') /\ \A g \in Files : Present(tq', g) => Present(tq, g)
  BY <1>1, TypeInvParts, ErasedTyped
<1>3. manageQ' \in Seq(Messages)
  <2>1. "STOPFILE" \in Messages
    BY DEF Messages
  <2>2. QED
    BY <1>1, <2>1, TypeInvParts, MessagesTyped
<1>4. unsure' \subseteq Files /\ outOfTurn' \in BOOLEAN
  BY <1>1, TypeInvParts
<1>5. QED
  BY <1>1, <1>2, <1>3, <1>4, TypeInvParts, TypeInvCommand

LEMMA TypeStopSendAllStep == TypeInv /\ StopSendAll => TypeInv'
<1> SUFFICES ASSUME TypeInv, StopSendAll PROVE TypeInv'
  OBVIOUS
<1>1. /\ Event /\ manageQ' = <<"STOPALL">> \o manageQ /\ outOfTurn' = TRUE
      /\ UNCHANGED <<tq, task, cdh, callback, reported, delivered, unsure>>
  BY DEF StopSendAll
<1>2. manageQ' \in Seq(Messages)
  <2>1. "STOPALL" \in Messages
    BY DEF Messages
  <2>2. QED
    BY <1>1, <2>1, TypeInvParts, MessagesTyped
<1>3. TypedQueue(tq') /\ SameFiles(tq, tq')
  BY <1>1, TypeInvParts DEF SameFiles
<1>4. QED
  BY <1>1, <1>2, <1>3, TypeInvParts, TypeInvCommand DEF SameFiles

LEMMA TypeDeleteFilesStep ==
  ASSUME TypeInv, NEW S \in SUBSET With(tq, "DELETE"), DeleteFiles(S)
  PROVE  TypeInv'
<1>1. tq' = Erased(tq, S) /\ UNCHANGED <<task, manageQ, cdh, callback, counters, history>>
  BY DEF DeleteFiles
<1>2. TypedQueue(tq') /\ \A g \in Files : Present(tq', g) => Present(tq, g)
  BY <1>1, TypeInvParts, ErasedTyped
<1>3. QED
  BY <1>1, <1>2, TypeInvParts, TypeInvFrom DEF TypeInv, counters, history

LEMMA DeliveredTyped ==
  ASSUME TypeInv, NEW S, Delivered(S)
  PROVE  delivered' \in [Files -> Nat]
<1>1. \A f \in Files : delivered[f] + (IF f \in S THEN 1 ELSE 0) \in Nat
  BY TypeInvParts
<1>2. QED
  BY <1>1 DEF Delivered

LEMMA TypeCdhCrashStep ==
  ASSUME TypeInv, NEW S \in SUBSET AtCdh, NEW line, CdhCrash(S, line)
  PROVE  TypeInv'
<1>1. /\ Event /\ Delivered(S) /\ line \in {None, cdh.written} \cup S
      /\ unsure' = unsure \cup AtCdh \cup ({cdh.sent} \ {line, None})
      /\ cdh' = [up |-> FALSE,
                 session |-> IF cdh.session = "open" THEN "broken" ELSE cdh.session,
                 requests |-> {}, tasks |-> <<>>, sent |-> line, written |-> line]
      /\ UNCHANGED <<tq, task, manageQ, callback, reported, outOfTurn>>
  BY DEF CdhCrash
<1>2. cdh' \in CdhStates /\ delivered' \in [Files -> Nat] /\ unsure' \subseteq Files
  <2>1. AtCdh \subseteq Files /\ cdh \in CdhStates
    BY TypeInvParts, AtCdhTyped
  <2>2. /\ cdh.sent \in Files \cup {None} /\ cdh.written \in Files \cup {None}
        /\ <<>> \in Seq(Files)
    BY <2>1, EmptySeq DEF CdhStates
  <2>3. line \in Files \cup {None} /\ unsure' \subseteq Files
    BY <1>1, <2>1, <2>2, TypeInvParts
  <2>4. cdh' \in CdhStates
    BY <1>1, <2>1, <2>2, <2>3 DEF CdhStates
  <2>5. QED
    BY <1>1, <2>3, <2>4, DeliveredTyped
<1>3. events' \in 0..MaxEvents
  BY <1>1, TypeInvParts DEF Event
<1>4. QED
  BY <1>1, <1>2, <1>3, TypeInvParts, TypeInvFrom DEF TypeInv

LEMMA TypeCdhRestartStep == TypeInv /\ CdhRestart => TypeInv'
<1> SUFFICES ASSUME TypeInv, CdhRestart PROVE TypeInv'
  OBVIOUS
<1>1. cdh' = [cdh EXCEPT !.up = TRUE] /\ UNCHANGED <<tq, task, manageQ, callback, counters, history>>
  BY DEF CdhRestart
<1>2. cdh' \in CdhStates
  BY <1>1, TypeInvParts DEF CdhStates
<1>3. QED
  BY <1>1, <1>2, TypeInvParts, TypeInvSame DEF TypeInv, history

LEMMA TypeOrphanDoneStep ==
  ASSUME TypeInv, NEW ok \in BOOLEAN, OrphanDone(ok)
  PROVE  TypeInv'
<1>1. /\ cdh.tasks # <<>> /\ cdh' = Done(cdh, ok)
      /\ Delivered(IF ok THEN {Head(cdh.tasks)} ELSE {})
      /\ UNCHANGED <<tq, task, manageQ, callback, counters, unsure, outOfTurn>>
  BY DEF OrphanDone
<1>2. cdh' \in CdhStates /\ delivered' \in [Files -> Nat]
  BY <1>1, TypeInvParts, DeliveredTyped, DoneTyped
<1>3. QED
  BY <1>1, <1>2, TypeInvParts, TypeInvFrom DEF TypeInv, counters

LEMMA TypeCrashStep == TypeInv /\ Crash => TypeInv'
<1> SUFFICES ASSUME TypeInv, Crash PROVE TypeInv'
  OBVIOUS
<1>1. /\ Event /\ tq' = Restarted(tq) /\ task' = IdleTask
      /\ manageQ' = IF cdh.up THEN <<>> ELSE <<"REOPEN">>
      /\ callback' = "none"
      /\ cdh' = [cdh EXCEPT !.session = IF cdh.up THEN "open" ELSE "closed",
                            !.requests = {}]
      /\ outOfTurn' = (outOfTurn \/ tq.next # None)
      /\ UNCHANGED <<reported, delivered, unsure>>
  BY DEF Crash
<1>2. TypedQueue(tq') /\ SameFiles(tq, tq')
  BY <1>1, TypeInvParts, RestartedTyped
<1>3. task' \in Tasks /\ ~task'.inTransfer /\ ~task'.marking
  BY <1>1, TypeInvParts DEF IdleTask, NoItem, Item, Tasks
<1>4. manageQ' \in Seq(Messages)
  <2>1. <<>> \in Seq(Messages) /\ <<"REOPEN">> \in Seq(Messages)
    BY EmptySeq DEF Messages
  <2>2. QED
    BY <1>1, <2>1
<1>5. cdh' \in CdhStates
  BY <1>1, TypeInvParts DEF CdhStates
<1>6. events' \in 0..MaxEvents
  BY <1>1, TypeInvParts DEF Event
<1>7. outOfTurn' \in BOOLEAN
  BY <1>1, TypeInvParts
<1>8. QED
  BY <1>1, <1>2, <1>3, <1>4, <1>5, <1>6, <1>7, TypeInvParts, TypeInvFrom DEF SameFiles

LEMMA TypeInit == Init => TypeInv
<1> SUFFICES ASSUME Init PROVE TypeInv
  OBVIOUS
<1>1. /\ tq = [older |-> {}, status |-> [f \in Files |-> "none"], transferFile |-> None,
               last |-> None, next |-> None, toSend |-> <<>>]
      /\ task = IdleTask /\ manageQ = <<>>
      /\ cdh = [up |-> TRUE, session |-> "open", requests |-> {}, tasks |-> <<>>,
               sent |-> None, written |-> None]
      /\ callback = "none" /\ reported = 0 /\ events = 0
      /\ delivered = [f \in Files |-> 0] /\ unsure = {} /\ outOfTurn = FALSE
  BY DEF Init
<1>2. <<>> \in Seq(Item) /\ <<>> \in Seq([f : Files, again : BOOLEAN]) /\ <<>> \in Seq(Messages)
  BY EmptySeq
<1>3. tq \in Queues /\ tq.toSend = <<>> /\ \A f, g \in Files : ~Present(tq, f) /\ ~Older(tq, f, g)
  BY <1>1, <1>2 DEF Queues, States, Present, Older
<1>4. TypedQueue(tq)
  BY <1>2, <1>3 DEF TypedQueue, Ordered
<1>5. task \in Tasks /\ ~task.inTransfer /\ ~task.marking
  BY <1>1, BoundsAssumption DEF IdleTask, NoItem, Item, Tasks
<1>6. cdh \in CdhStates
  <2>1. <<>> \in Seq(Files)
    BY EmptySeq
  <2>2. QED
    BY <1>1, <2>1 DEF CdhStates
<1>7. reported \in 0..MaxFile /\ events \in 0..MaxEvents /\ delivered \in [Files -> Nat]
  BY <1>1, BoundsAssumption
<1>8. TypeOK
  BY <1>1, <1>2, <1>3, <1>5, <1>6, <1>7 DEF TypeOK
<1>9. QED
  BY <1>3, <1>4, <1>5, <1>8 DEF TypeInv

LEMMA TypeNext == TypeInv /\ [Next]_vars => TypeInv'
<1> SUFFICES ASSUME TypeInv, [Next]_vars PROVE TypeInv'
  OBVIOUS
<1>1. CASE ThreadStep
  BY <1>1, TypeTakeFileStep, TypeMarkStep, TypeRetryNowStep, TypeHandleStep,
     TypeHandleResendStep, TypeHandleStopAllStep DEF ThreadStep
<1>2. CASE CdhStep
  BY <1>2, TypeEventOkStep, TypeEventFailedStep, TypeEventRetryStep, TypeFinishEventStep,
     TypeEventNoServerStep, TypeOrphanDoneStep DEF CdhStep
<1>3. CASE \E before \in SUBSET {f \in Files : Present(tq, f)} : Report(before)
  BY <1>3, TypeReportStep
<1>4. CASE TransferFailed \/ StopSendAll
  BY <1>4, TypeTransferFailedStep, TypeStopSendAllStep
<1>5. CASE \E f \in Files : TransferFailedFile(f) \/ RemoveFile(f)
  BY <1>5, TypeTransferFailedFileStep, TypeRemoveFileStep
<1>6. CASE \E S \in SUBSET With(tq, "DELETE") : DeleteFiles(S)
  BY <1>6, TypeDeleteFilesStep
<1>7. CASE \E S \in SUBSET AtCdh : \E line \in {None, cdh.written} \cup S : CdhCrash(S, line)
  BY <1>7, TypeCdhCrashStep
<1>8. CASE CdhRestart \/ Crash
  BY <1>8, TypeCdhRestartStep, TypeCrashStep
<1>9. CASE UNCHANGED vars
  BY <1>9, TypeInvParts, TypeInvSame DEF vars, counters, history, TypeInv
<1>10. QED
  BY <1>1, <1>2, <1>3, <1>4, <1>5, <1>6, <1>7, <1>8, <1>9 DEF Next

(* Every variable has its type in every state, in turn or not; the dates   *)
(* of creation order the files in the queue (timeSortedMap_), and no other. *)
THEOREM TypeCorrect == Spec => [](TypeOK /\ Ordered(tq))
<1>1. TypeInv => TypeOK /\ Ordered(tq)
  BY DEF TypeInv, TypedQueue
<1>2. QED
  BY <1>1, TypeInit, TypeNext, PTL DEF Spec

=============================================================================
