--------------------------- MODULE GngSession_proofs ---------------------------
(***************************************************************************)
(* Proofs about GngSession: the ring of mean errors holds the newest ones  *)
(* in their order, for every Capacity, and R is never told anything else.  *)
(***************************************************************************)
EXTENDS GngSession, TLAPS

(* The subscript of the n-th element, from 0. *)
Subscript(head, n) == IF head + n < Capacity THEN head + n ELSE head + n - Capacity

Rings ==
  [array : [0..(Capacity - 1) -> Nat], head : 0..(Capacity - 1),
   tail : 0..(Capacity - 1), contents : 0..Capacity]

RingType ==
  /\ ring \in Rings
  /\ latest \in Seq(Nat) /\ Len(latest) <= Capacity
  /\ stat_lock \in BOOLEAN

(* The lock is held from the decision to report to the end of push_back. *)
LockShape == stat_lock <=> wpc \in {"store", "tail"}

(* Between its two halves push_back has stored an element which contents    *)
(* does not count yet.                                                      *)
CountShape ==
  Len(latest) = IF wpc = "tail" THEN ring.contents + 1 ELSE ring.contents

RingShape ==
  /\ next_tail = Subscript(ring.head, ring.contents)
  /\ \A i \in 1..Len(latest) : ring.array[Subscript(ring.head, i - 1)] = latest[i]

RingInv == RingType /\ LockShape /\ CountShape /\ RingShape

-----------------------------------------------------------------------------
(* Arithmetic of subscripts *)

LEMMA CapacityIsPositive == Capacity \in Nat \ {0} /\ Capacity >= 2 /\ Means \subseteq Nat
  BY SessionAssumption, SMT

LEMMA Wraps ==
  ASSUME NEW C \in Nat \ {0}, NEW x \in Nat, x < 2 * C
  PROVE  x % C = IF x < C THEN x ELSE x - C
  BY SMTT(30)

LEMMA SubscriptWraps ==
  ASSUME NEW h \in 0..(Capacity - 1), NEW n \in 0..Capacity
  PROVE  (h + n) % Capacity = Subscript(h, n) /\ Subscript(h, n) \in 0..(Capacity - 1)
<1> DEFINE x == h + n
<1>1. x \in Nat /\ x < 2 * Capacity /\ Capacity \in Nat \ {0}
  BY CapacityIsPositive
<1>2. x % Capacity = IF x < Capacity THEN x ELSE x - Capacity
  <2> HIDE DEF x
  <2> QED BY <1>1, Wraps
<1> QED BY <1>2, CapacityIsPositive DEF Subscript

LEMMA SubscriptsDiffer ==
  ASSUME NEW h \in 0..(Capacity - 1), NEW n \in 0..(Capacity - 1), NEW k \in 0..(n - 1)
  PROVE  Subscript(h, k) # Subscript(h, n) /\ Subscript(h, k) \in 0..(Capacity - 1)
  BY CapacityIsPositive DEF Subscript

LEMMA SubscriptOfNextHead ==
  ASSUME NEW h \in 0..(Capacity - 1), NEW i \in 1..Capacity
  PROVE  Subscript(Subscript(h, 1), i - 1) = Subscript(h, i)
  BY CapacityIsPositive DEF Subscript

LEMMA HeadIsApart ==
  ASSUME NEW h \in 0..(Capacity - 1), NEW n \in 1..(Capacity - 1)
  PROVE  Subscript(h, n) # h /\ Subscript(h, n) \in 0..(Capacity - 1)
  BY CapacityIsPositive DEF Subscript

(* One further from a head; all the way round. *)
LEMMA SubscriptNext ==
  ASSUME NEW h \in 0..(Capacity - 1), NEW n \in 0..(Capacity - 1)
  PROVE  /\ Subscript(h, n + 1) =
              IF Subscript(h, n) + 1 = Capacity THEN 0 ELSE Subscript(h, n) + 1
         /\ Subscript(h, 0) = h /\ Subscript(h, Capacity) = h
         /\ Subscript(h, 1) \in 0..(Capacity - 1)
  BY CapacityIsPositive DEF Subscript

-----------------------------------------------------------------------------
LEMMA RingInvInit == Init => RingInv
<1> SUFFICES ASSUME Init PROVE RingInv
  OBVIOUS
<1>1. RingType
  <2>1. [i \in 0..(Capacity - 1) |-> 0] \in [0..(Capacity - 1) -> Nat]
    OBVIOUS
  <2>2. ring \in Rings
    BY <2>1, CapacityIsPositive DEF Init, Rings
  <2>3. stat_lock \in BOOLEAN
    BY DEF Init
  <2>4. latest \in Seq(Nat) /\ Len(latest) <= Capacity
    BY CapacityIsPositive DEF Init
  <2> QED BY <2>2, <2>3, <2>4 DEF RingType
<1>2. LockShape /\ CountShape
  BY DEF Init, LockShape, CountShape
<1>3. next_tail = Subscript(ring.head, ring.contents)
  BY CapacityIsPositive DEF Init, next_tail, Subscript
<1>4. Len(latest) = 0
  BY DEF Init
<1> QED BY <1>1, <1>2, <1>3, <1>4 DEF RingInv, RingShape

(* Steps that leave the ring alone and do not enter or leave a report. *)
LEMMA RingInvKept ==
  ASSUME RingInv, UNCHANGED <<ring, latest, stat_lock>>,
         wpc' = wpc \/ {wpc, wpc'} \cap {"store", "tail"} = {}
  PROVE  RingInv'
<1>1. RingType'
  BY DEF RingInv, RingType
<1>2. LockShape' /\ CountShape'
  BY DEF RingInv, LockShape, CountShape
<1>3. RingShape'
  BY DEF RingInv, RingShape, next_tail
<1> QED BY <1>1, <1>2, <1>3 DEF RingInv

LEMMA ReportKeepsRing == RingInv /\ Report => RingInv'
  BY DEF RingInv, RingType, LockShape, CountShape, RingShape, next_tail, Report, Go

(* The second half of push_back counts the element that is there. *)
LEMMA IncrementKeepsRing == RingInv /\ increment_tail => RingInv'
<1> SUFFICES ASSUME RingInv, increment_tail PROVE RingInv'
  OBVIOUS
<1> USE CapacityIsPositive
<1>1. /\ ring.contents + 1 = Len(latest) /\ ring.contents + 1 <= Capacity
      /\ ring.contents \in Nat /\ ring.head \in 0..(Capacity - 1)
  BY DEF RingInv, RingType, Rings, CountShape, increment_tail, Go
<1>2. /\ ring' = [ring EXCEPT !.contents = @ + 1, !.tail = next_tail]
      /\ latest' = latest /\ stat_lock' = FALSE /\ wpc' = "grow"
  BY DEF increment_tail, Go
<1>3. next_tail \in 0..(Capacity - 1)
  BY DEF RingInv, RingType, Rings, next_tail
<1>4. RingType'
  <2>1. ring.contents + 1 \in 0..Capacity
    BY <1>1
  <2>2. ring' \in Rings
    BY <1>2, <1>3, <2>1 DEF RingInv, RingType, Rings
  <2> QED BY <1>2, <2>2 DEF RingInv, RingType
<1>5. LockShape' /\ CountShape'
  BY <1>1, <1>2, <1>4 DEF LockShape, CountShape, RingType, Rings, RingInv
<1>6. /\ ring'.head = ring.head /\ ring'.array = ring.array
      /\ ring'.contents = ring.contents + 1 /\ ring'.tail = next_tail
  BY <1>2 DEF RingInv, RingType, Rings
<1>7. next_tail' = Subscript(ring'.head, ring'.contents)
  <2>1. next_tail = Subscript(ring.head, ring.contents)
    BY DEF RingInv, RingShape
  <2>2. next_tail' = IF next_tail + 1 = Capacity THEN 0 ELSE next_tail + 1
    BY <1>6 DEF next_tail
  <2>3. ring.contents \in 0..(Capacity - 1)
    BY <1>1
  <2>4. Subscript(ring.head, ring.contents + 1) = IF next_tail + 1 = Capacity THEN 0 ELSE next_tail + 1
    BY <1>1, <2>1, <2>3, SubscriptNext
  <2> QED BY <1>6, <2>2, <2>4
<1>8. RingShape'
  BY <1>2, <1>6, <1>7 DEF RingInv, RingShape
<1> QED BY <1>4, <1>5, <1>8 DEF RingInv

(* The first half writes after the newest, and over the oldest if it must.  *)
LEMMA StoreKeepsRing == ASSUME NEW m \in Means, RingInv, Store(m) PROVE RingInv'
<1> USE CapacityIsPositive
<1>0. /\ wpc = "store" /\ wpc' = "tail" /\ stat_lock' = stat_lock
      /\ Len(latest) = ring.contents /\ m \in Nat
      /\ ring.contents \in 0..Capacity /\ ring.head \in 0..(Capacity - 1)
      /\ latest \in Seq(Nat)
      /\ next_tail = Subscript(ring.head, ring.contents)
      /\ \A i \in 1..Len(latest) : ring.array[Subscript(ring.head, i - 1)] = latest[i]
      /\ ring.array \in [0..(Capacity - 1) -> Nat]
  BY DEF RingInv, RingType, Rings, CountShape, RingShape, Store, Go
<1>1. next_tail \in 0..(Capacity - 1)
  BY DEF RingInv, RingType, Rings, next_tail
<1>2. LockShape'
  BY <1>0 DEF RingInv, LockShape
<1>3. CASE ring.contents < Capacity
  <2>1. ring' = [ring EXCEPT !.array[next_tail] = m]
    <3>1. ring.contents # Capacity
      BY <1>0, <1>3
    <3>2. ring' = [ring EXCEPT !.array[next_tail] = m,
                     !.head = ring.head, !.contents = ring.contents]
      BY <3>1 DEF Store
    <3> QED BY <3>2 DEF RingInv, RingType, Rings
  <2>2. latest' = Append(latest, m)
    <3>1. Len(Append(latest, m)) <= Capacity
      BY <1>0, <1>3
    <3> QED BY <3>1 DEF Store
  <2>3. /\ ring'.head = ring.head /\ ring'.contents = ring.contents
        /\ ring'.array = [ring.array EXCEPT ![next_tail] = m]
        /\ ring'.tail = ring.tail
    BY <2>1 DEF RingInv, RingType, Rings
  <2>4. /\ latest' \in Seq(Nat) /\ Len(latest') = ring.contents + 1
        /\ latest'[ring.contents + 1] = m
        /\ \A i \in 1..Len(latest) : latest'[i] = latest[i]
    BY <1>0, <2>2
  <2>5. RingType' /\ CountShape'
    <3>1. ring' \in Rings
      BY <1>0, <1>1, <2>1 DEF RingInv, RingType, Rings
    <3> QED BY <1>0, <1>3, <2>3, <2>4, <3>1 DEF RingInv, RingType, CountShape
  <2>6. ASSUME NEW i \in 1..Len(latest')
        PROVE  ring'.array[Subscript(ring'.head, i - 1)] = latest'[i]
    <3>1. CASE i = ring.contents + 1
      <4>1. i - 1 = ring.contents
        BY <1>0, <3>1
      <4> QED BY <1>0, <1>1, <2>3, <2>4, <3>1, <4>1
    <3>2. CASE i # ring.contents + 1
      <4>1. i \in 1..Len(latest)
        BY <1>0, <2>4, <3>2
      <4>2. i - 1 \in 0..(ring.contents - 1) /\ ring.contents \in 0..(Capacity - 1)
        BY <1>0, <1>3, <4>1
      <4>3. /\ Subscript(ring.head, i - 1) # next_tail
            /\ Subscript(ring.head, i - 1) \in 0..(Capacity - 1)
        BY <1>0, <4>2, SubscriptsDiffer
      <4> QED BY <1>0, <2>3, <2>4, <4>1, <4>3
    <3> QED BY <3>1, <3>2
  <2>7. next_tail' = next_tail
    BY <2>3 DEF next_tail
  <2>8. RingShape'
    BY <1>0, <2>3, <2>6, <2>7 DEF RingShape
  <2> QED BY <1>2, <2>5, <2>8 DEF RingInv
<1>4. CASE ring.contents = Capacity
  <2>0. (ring.head + 1) % Capacity = Subscript(ring.head, 1)
    <3>1. 1 \in 0..Capacity
      BY CapacityIsPositive
    <3> QED BY <1>0, <3>1, SubscriptWraps
  <2>1. ring' = [ring EXCEPT !.array[next_tail] = m, !.head = Subscript(ring.head, 1),
                   !.contents = Capacity - 1]
    BY <1>4, <2>0 DEF Store
  <2>2. latest' = Tail(Append(latest, m))
    <3>1. Len(Append(latest, m)) > Capacity
      BY <1>0, <1>4
    <3> QED BY <3>1 DEF Store
  <2>3. /\ Subscript(ring.head, 1) \in 0..(Capacity - 1)
        /\ next_tail = ring.head
    <3>1. 0 \in 0..(Capacity - 1)
      BY CapacityIsPositive
    <3> QED BY <1>0, <1>4, <3>1, SubscriptNext
  <2>4. /\ ring'.head = Subscript(ring.head, 1) /\ ring'.contents = Capacity - 1
        /\ ring'.array = [ring.array EXCEPT ![next_tail] = m]
        /\ ring'.tail = ring.tail
    BY <2>1 DEF RingInv, RingType, Rings
  <2>5. /\ latest' \in Seq(Nat) /\ Len(latest') = Capacity
        /\ latest'[Capacity] = m
        /\ \A i \in 1..(Capacity - 1) : latest'[i] = latest[i + 1]
    <3>1. /\ Append(latest, m) \in Seq(Nat) /\ Len(Append(latest, m)) = Capacity + 1
          /\ Append(latest, m)[Capacity + 1] = m
          /\ \A i \in 1..Capacity : Append(latest, m)[i] = latest[i]
      BY <1>0, <1>4
    <3>2. /\ latest' \in Seq(Nat) /\ Len(latest') = Capacity
          /\ \A i \in 1..Capacity : latest'[i] = Append(latest, m)[i + 1]
      <4> DEFINE s == Append(latest, m)
      <4>1. s \in Seq(Nat) /\ Len(s) = Capacity + 1 /\ s # <<>>
        BY <3>1
      <4> HIDE DEF s
      <4>2. /\ Tail(s) \in Seq(Nat) /\ Len(Tail(s)) = Capacity
            /\ \A i \in 1..Capacity : Tail(s)[i] = s[i + 1]
        BY <4>1
      <4> QED BY <2>2, <4>2 DEF s
    <3>3. Capacity \in 1..Capacity /\ \A i \in 1..(Capacity - 1) : i \in 1..Capacity /\ i + 1 \in 1..Capacity
      BY CapacityIsPositive
    <3> QED BY <3>1, <3>2, <3>3
  <2>6. RingType' /\ CountShape'
    <3>0. Capacity - 1 \in 0..Capacity
      BY CapacityIsPositive
    <3>1. ring' \in Rings
      BY <1>0, <1>1, <2>1, <2>3, <3>0 DEF RingInv, RingType, Rings
    <3> QED BY <1>0, <2>4, <2>5, <3>1 DEF RingInv, RingType, CountShape
  <2>7. ASSUME NEW i \in 1..Len(latest')
        PROVE  ring'.array[Subscript(ring'.head, i - 1)] = latest'[i]
    <3>1. Subscript(Subscript(ring.head, 1), i - 1) = Subscript(ring.head, i)
      <4>1. i \in 1..Capacity
        BY <2>5
      <4> QED BY <1>0, <4>1, SubscriptOfNextHead
    <3>2. CASE i = Capacity
      <4>1. Subscript(ring.head, i) = ring.head
        <5>1. 0 \in 0..(Capacity - 1)
          BY CapacityIsPositive
        <5> QED BY <1>0, <3>2, <5>1, SubscriptNext
      <4> QED BY <1>0, <2>3, <2>4, <2>5, <3>1, <3>2, <4>1
    <3>3. CASE i # Capacity
      <4>1. i \in 1..(Capacity - 1) /\ i + 1 \in 1..Len(latest)
        BY <1>0, <1>4, <2>5, <3>3
      <4>2. /\ Subscript(ring.head, i) # ring.head
            /\ Subscript(ring.head, i) \in 0..(Capacity - 1)
        BY <1>0, <4>1, HeadIsApart
      <4>3. ring.array[Subscript(ring.head, i)] = latest[i + 1]
        <5>1. (i + 1) - 1 = i
          BY <4>1
        <5> QED BY <1>0, <4>1, <5>1
      <4> QED BY <1>0, <2>3, <2>4, <2>5, <3>1, <4>1, <4>2, <4>3
    <3> QED BY <3>2, <3>3
  <2>8. next_tail' = Subscript(ring'.head, ring'.contents)
    <3>1. next_tail' = next_tail
      BY <2>4 DEF next_tail
    <3>2. Capacity \in 1..Capacity /\ 0 \in 0..(Capacity - 1)
      BY CapacityIsPositive
    <3>3. Subscript(Subscript(ring.head, 1), Capacity - 1) = ring.head
      <4>1. Subscript(Subscript(ring.head, 1), Capacity - 1) = Subscript(ring.head, Capacity)
        BY <1>0, <3>2, SubscriptOfNextHead
      <4> QED BY <1>0, <3>2, <4>1, SubscriptNext
    <3> QED BY <2>3, <2>4, <3>1, <3>3
  <2>9. RingShape'
    BY <2>7, <2>8 DEF RingShape
  <2> QED BY <1>2, <2>6, <2>9 DEF RingInv
<1> QED BY <1>0, <1>3, <1>4

-----------------------------------------------------------------------------
LEMMA WorkerKeepsRing == RingInv /\ Worker => RingInv'
<1> SUFFICES ASSUME RingInv, Worker PROVE RingInv'
  OBVIOUS
<1>1. CASE Start \/ Await \/ Seed \/ Halt \/ Finish
  BY <1>1, RingInvKept DEF Start, Await, Seed, Halt, Finish, Go, worker
<1>2. CASE Batch \/ NoReport \/ Grow
  BY <1>2, RingInvKept DEF Batch, NoReport, Grow, Go
<1>3. CASE Report
  BY <1>3, ReportKeepsRing
<1>4. CASE increment_tail
  BY <1>4, IncrementKeepsRing
<1>5. CASE \E m \in Means : Store(m)
  BY <1>5, StoreKeepsRing
<1> QED BY <1>1, <1>2, <1>3, <1>4, <1>5 DEF Worker

(* What R does never touches the ring; a run may start the worker. *)
SessionStep ==
  Offline \/ InsertMore \/ Ask \/ AskIndex \/ Told \/ Convert \/ Paused \/ ReadGraph \/ Resume

LEMMA SessionKeepsRing == RingInv /\ SessionStep => RingInv'
<1> SUFFICES ASSUME RingInv, SessionStep PROVE RingInv'
  OBVIOUS
<1>1. CASE Configure \/ RunWait \/ Startup \/ LoopTop \/ LoopErrors \/ Leave
  BY <1>1, RingInvKept
     DEF Configure, RunWait, Startup, LoopTop, LoopErrors, Leave, worker
<1>2. CASE InsertFirst \/ InsertMore
  BY <1>2, RingInvKept DEF InsertFirst, InsertMore, Insert, Run
<1>3. CASE RunServer \/ Resume
  BY <1>3, RingInvKept DEF RunServer, Resume, RunCall, Run
<1>4. CASE Ask \/ AskIndex \/ Told \/ Convert \/ Paused \/ ReadGraph
  BY <1>4, RingInvKept DEF Ask, AskIndex, Told, Convert, Paused, ReadGraph, worker
<1> QED BY <1>1, <1>2, <1>3, <1>4 DEF SessionStep, Offline

(* The ring holds the last Capacity means in their order, but for the one   *)
(* that is being stored, and the lock is held while it is.                  *)
THEOREM RingHoldsLatest == Spec => []RingInv
<1>1. RingInv /\ [Next]_vars => RingInv'
  <2> SUFFICES ASSUME RingInv, [Next]_vars PROVE RingInv'
    OBVIOUS
  <2>1. CASE Worker
    BY <2>1, WorkerKeepsRing
  <2>2. CASE SessionStep
    BY <2>2, SessionKeepsRing
  <2>3. CASE UNCHANGED vars
    BY <2>3, RingInvKept DEF vars, worker
  <2> QED BY <2>1, <2>2, <2>3 DEF Next, SessionStep
<1> QED BY <1>1, RingInvInit, PTL DEF Spec

-----------------------------------------------------------------------------
(* What R is told *)

TellsLatest ==
  /\ rpc = "idle" /\ rpc' = "told" => result' = IF latest = <<>> THEN <<Huge>> ELSE latest
  /\ rpc = "idle" /\ rpc' = "told_index" => result'[1] \in {Len(latest) - 1, Len(latest)}

LEMMA AskTellsLatest == RingInv /\ Ask => TellsLatest
<1> SUFFICES ASSUME RingInv, Ask PROVE result' = IF latest = <<>> THEN <<Huge>> ELSE latest
  BY DEF Ask, TellsLatest
<1>1. /\ ~stat_lock /\ wpc # "tail" /\ result' = Statistics
      /\ Len(latest) = ring.contents /\ latest \in Seq(Nat)
  BY DEF Ask, RingInv, RingType, LockShape, CountShape
<1>2. Contents = [i \in 1..Len(latest) |-> latest[i]]
  <2>1. ASSUME NEW i \in 1..Len(latest)
        PROVE  ring.array[(ring.head + i - 1) % Capacity] = latest[i]
    <3>1. i - 1 \in 0..Capacity /\ ring.head + i - 1 = ring.head + (i - 1)
          /\ ring.head \in 0..(Capacity - 1)
      BY CapacityIsPositive DEF RingInv, RingType, Rings
    <3> QED BY <3>1, SubscriptWraps DEF RingInv, RingShape
  <2> QED BY <1>1, <2>1 DEF Contents
<1>3. latest = [i \in 1..Len(latest) |-> latest[i]]
  BY <1>1
<1>4. ring.contents = 0 <=> latest = <<>>
  BY <1>1
<1> QED BY <1>1, <1>2, <1>3, <1>4 DEF Statistics

LEMMA AskIndexTellsLength == RingInv /\ AskIndex => TellsLatest
  BY DEF RingInv, RingType, Rings, CountShape, AskIndex, TellsLatest

(* No other step answers a question. *)
LEMMA NobodyElseTells == Worker \/ SessionStep => Ask \/ AskIndex \/ TellsLatest
<1>1. Worker => TellsLatest
  BY DEF Worker, Start, Await, Seed, Halt, Finish, Batch, NoReport, Report, Store,
         increment_tail, Grow, R, TellsLatest
<1>2. Offline => TellsLatest
  BY DEF Offline, Configure, InsertFirst, Insert, RunServer, RunCall, RunWait, Startup,
         LoopTop, LoopErrors, Leave, At, TellsLatest
<1>3. InsertMore \/ Told \/ Convert \/ Paused \/ ReadGraph \/ Resume => TellsLatest
  BY DEF InsertMore, Insert, Told, Convert, Paused, ReadGraph, Resume, RunCall, At, TellsLatest
<1> QED BY <1>1, <1>2, <1>3 DEF SessionStep

(* However a question of R falls between the worker's writes, the answer is *)
(* the last Capacity means, oldest first; the index is at most one behind.  *)
THEOREM StatisticsAreTrue == Spec => StatisticsAreLatest
<1>1. RingInv /\ [Next]_vars => [TellsLatest]_vars
  BY AskTellsLatest, AskIndexTellsLength, NobodyElseTells DEF Next, SessionStep
<1>2. [TellsLatest]_vars <=>
        [ /\ rpc = "idle" /\ rpc' = "told" => result' = IF latest = <<>> THEN <<Huge>> ELSE latest
          /\ rpc = "idle" /\ rpc' = "told_index" =>
               result'[1] \in {Len(latest) - 1, Len(latest)} ]_vars
  BY DEF TellsLatest
<1> QED BY <1>1, <1>2, RingHoldsLatest, PTL DEF Spec, StatisticsAreLatest
=============================================================================
