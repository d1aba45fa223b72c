----------------------- MODULE SellerDeliveryRestart -----------------------
(***************************************************************************)
(* What the seller's file and counter have to do with the contract's       *)
(* count.  With claims that do not outlive the driver, the file of a deal  *)
(* past its probe keeps accepting the contract's state (RestartSafe), and  *)
(* where moreover no write fails, the seller claims only what it delivered *)
(* (ClaimsAreDelivered).                                                   *)
(*                                                                         *)
(* A leaf is Zenon's unless it names another prover.                       *)
(***************************************************************************)
EXTENDS SellerDeliveryProofs

USE Zenon

-----------------------------------------------------------------------------
(* What a request's step does to the records                               *)

\* What a record says was delivered.
Done(rec) == rec.anchor + rec.local

\* The record moved on by at least g delivered tokens.
Advances(rec, g, new) ==
  new.anchor = rec.anchor /\ new.cap = rec.cap /\ new.local >= rec.local + g

\* A ledger operation that billed n tokens: the counter gains no more than the
\* records in memory and in the file, and where no write can fail nothing is
\* counted that was not billed.
Effect(l, n, w) ==
  /\ w.l \in Ledgers /\ w.gained \in Nat /\ w.l.up = l.up
  /\ Advances(l.rec, w.gained, w.l.rec)
  /\ Advances(l.rec, w.gained, w.l.disk) \/ (w.gained = 0 /\ w.l.disk = l.disk)
  /\ l.faults = 0 =>
       /\ w.gained + w.l.unper <= l.unper + n
       /\ Done(w.l.rec) + w.l.unper <= Done(l.rec) + l.unper + n
       /\ w.l.disk = l.disk \/ Done(w.l.disk) = Done(w.l.rec)

\* How the three changes advance a record.
LEMMA ChangesAdvance ==
  ASSUME NEW rec \in Records, NEW n \in Nat
  PROVE  /\ Advances(rec, 0, rec)
         /\ Advances(rec, 0, Grown(rec, n)) /\ Done(Grown(rec, n)) = Done(rec)
         /\ Advances(rec, n, Split(rec, n)) /\ Done(Split(rec, n)) = Done(rec) + n
         /\ Advances(rec, 0, Split(rec, n))
         /\ Done(Freed(rec, n)) = Done(rec) /\ Done(rec) \in Nat
<1>1. rec.anchor \in Nat /\ rec.local \in Nat
  BY DEF Records
<1>2. /\ Grown(rec, n).cap = rec.cap /\ Grown(rec, n).anchor = rec.anchor
      /\ Grown(rec, n).local = rec.local
      /\ Split(rec, n).cap = rec.cap /\ Split(rec, n).anchor = rec.anchor
      /\ Split(rec, n).local = rec.local + n
      /\ Freed(rec, n).anchor = rec.anchor /\ Freed(rec, n).local = rec.local
  BY RecordChanges
<1> QED
  BY <1>1, <1>2, SMTT(30) DEF Advances, Done

\* A released remainder does not undo what the split moved.
LEMMA FinishAdvances ==
  ASSUME NEW l \in Ledgers, NEW n \in Nat, l.unper <= l.rec.reserved
  PROVE  /\ Moved(l) \in Records
         /\ Advances(l.rec, l.unper, Moved(l)) /\ Advances(l.rec, 0, Moved(l))
         /\ Advances(l.rec, l.unper, Freed(Moved(l), n))
         /\ Advances(l.rec, 0, Freed(Moved(l), n))
         /\ Done(Moved(l)) = Done(l.rec) + l.unper
         /\ Done(Freed(Moved(l), n)) = Done(l.rec) + l.unper
<1>1. l.rec \in Records /\ l.unper \in Nat
  BY LedgerFields
<1>2. /\ Moved(l) \in Records /\ Done(Moved(l)) = Done(l.rec) + l.unper
      /\ Advances(l.rec, l.unper, Moved(l)) /\ Advances(l.rec, 0, Moved(l))
  BY <1>1, RecordChanges, ChangesAdvance DEF Moved
<1>3. /\ Freed(Moved(l), n).cap = Moved(l).cap /\ Freed(Moved(l), n).anchor = Moved(l).anchor
      /\ Freed(Moved(l), n).local = Moved(l).local
      /\ Done(Freed(Moved(l), n)) = Done(Moved(l))
  BY <1>2, RecordChanges, ChangesAdvance
<1> QED
  BY <1>2, <1>3 DEF Advances

\* reserve bills nothing and advances no record.
LEMMA ReserveEffect ==
  ASSUME NEW l \in Ledgers, NEW n \in Nat, NEW w, ReserveResult(l, n, w)
  PROVE  Effect(l, 0, w)
<1>1. /\ l.rec \in Records /\ l.unper \in Nat /\ l.faults \in Nat /\ w.l \in Ledgers
      /\ w.l.up = l.up /\ w.gained = 0
  BY LedgerFields DEF ReserveResult, SameEntry
<1>2. /\ Advances(l.rec, 0, l.rec) /\ Advances(l.rec, 0, Grown(l.rec, n))
      /\ Done(Grown(l.rec, n)) = Done(l.rec) /\ Done(l.rec) \in Nat
  BY <1>1, ChangesAdvance
<1>3. w.l.faults \in Nat /\ w.l.unper \in Nat
  BY <1>1, LedgerFields
<1>4. CASE w.ok = TRUE
  <2>1. /\ w.l.rec = Grown(l.rec, n) /\ w.l.disk = Grown(l.rec, n) /\ w.l.unper = 0
    BY <1>4 DEF ReserveResult
  <2> QED
    BY <1>1, <1>2, <2>1, SMTT(30) DEF Effect
<1>5. CASE w.ok = FALSE
  <2>1. /\ w.l.rec = l.rec /\ w.l.unper = l.unper
        /\ w.l.disk \in {l.disk, Grown(l.rec, n)} /\ w.l.faults < l.faults
    BY <1>5 DEF ReserveResult, WriteFailed
  <2> QED
    BY <1>1, <1>2, <1>3, <2>1, SMTT(30) DEF Effect
<1> QED
  BY <1>4, <1>5 DEF ReserveResult

\* record_delivered (capacity.rs) advances the record by what it bills, or refuses
\* and bills nothing.
LEMMA RecordEffect ==
  ASSUME NEW l \in Ledgers, NEW remaining \in Nat, NEW n \in Nat, NEW w,
         RecordResult(l, remaining, n, w)
  PROVE  \/ w.ok = TRUE /\ Effect(l, n, w)
         \/ w.ok = FALSE /\ Effect(l, 0, w)
<1> DEFINE k == l.unper + n
<1>1. /\ l.rec \in Records /\ l.unper \in Nat /\ l.faults \in Nat /\ w.l \in Ledgers
      /\ w.l.up = l.up /\ k \in Nat
  BY LedgerFields, SMT DEF RecordResult, SameEntry
<1>0. k = l.unper + n
  OBVIOUS
<1> HIDE DEF k
<1>2. /\ Advances(l.rec, 0, l.rec) /\ Advances(l.rec, 0, Split(l.rec, k))
      /\ Advances(l.rec, k, Split(l.rec, k))
      /\ Done(Split(l.rec, k)) = Done(l.rec) + k /\ Done(l.rec) \in Nat
  BY <1>1, ChangesAdvance
<1>3. w.l.faults \in Nat /\ w.l.unper \in Nat
  BY <1>1, LedgerFields
<1>4. CASE w.ok = TRUE
  <2>1. CASE w.gained = 0 /\ w.l.unper = k /\ w.l.rec = l.rec /\ w.l.disk = l.disk
    <3>1. /\ w.l.unper <= l.unper + n
          /\ Done(l.rec) + w.l.unper <= Done(l.rec) + l.unper + n
      BY <1>0, <1>1, <1>2, <2>1, SMTT(30)
    <3>2. w.gained + w.l.unper <= l.unper + n
      BY <1>0, <1>1, <2>1, SMT
    <3>3. w.gained \in Nat /\ Advances(l.rec, w.gained, w.l.rec)
      BY <1>2, <2>1, SMT
    <3>4. Done(w.l.rec) + w.l.unper <= Done(l.rec) + l.unper + n
      BY <2>1, <3>1
    <3> QED
      BY <1>1, <1>4, <2>1, <3>2, <3>3, <3>4 DEF Effect
  <2>2. CASE /\ w.gained = k /\ w.l.unper = 0 /\ w.l.rec = Split(l.rec, k)
             /\ w.l.disk = w.l.rec
    <3>1. Done(w.l.rec) + w.l.unper <= Done(l.rec) + l.unper + n
      BY <1>0, <1>1, <1>2, <2>2, SMTT(30)
    <3>2. w.gained + w.l.unper <= l.unper + n
      BY <1>0, <1>1, <2>2, SMT
    <3>3. w.gained \in Nat /\ Advances(l.rec, w.gained, w.l.rec)
      BY <1>1, <1>2, <2>2
    <3>4. Advances(l.rec, w.gained, w.l.disk) /\ Done(w.l.disk) = Done(w.l.rec)
      BY <2>2, <3>3
    <3> QED
      BY <1>1, <1>4, <3>1, <3>2, <3>3, <3>4 DEF Effect
  <2>3. CASE /\ w.gained = k /\ w.l.unper = 0 /\ w.l.rec = Split(l.rec, k)
             /\ w.l.disk = l.disk /\ w.l.rec = l.rec
    <3>1. k = 0
      BY <1>1, <1>2, <2>3, SMTT(30)
    <3> QED
      BY <1>0, <1>1, <1>2, <1>4, <2>3, <3>1, SMTT(30) DEF Effect
  <2> QED
    BY <1>0, <1>4, <2>1, <2>2, <2>3 DEF RecordResult
<1>5. CASE w.ok = FALSE
  <2>1. CASE w.gained = 0 /\ w.l = l
    BY <1>1, <1>2, <1>5, <2>1, SMTT(30) DEF Effect
  <2>2. CASE /\ w.gained = 0 /\ w.l.unper = k /\ w.l.rec = l.rec /\ w.l.faults < l.faults
             /\ w.l.disk \in {l.disk, Split(l.rec, k)}
    BY <1>1, <1>2, <1>3, <1>5, <2>2, SMTT(30) DEF Effect
  <2> QED
    BY <1>0, <1>5, <2>1, <2>2 DEF RecordResult
<1> QED
  BY <1>4, <1>5 DEF RecordResult

\* flush_delivered writes the split that waits: it bills nothing more.
LEMMA FlushEffect ==
  ASSUME NEW l \in Ledgers, NEW w, FlushResult(l, w)
  PROVE  Effect(l, 0, w)
<1>1. /\ l.rec \in Records /\ l.unper \in Nat /\ l.faults \in Nat /\ w.l \in Ledgers
      /\ w.l.up = l.up
  BY LedgerFields DEF FlushResult, SameEntry
<1>2. /\ Advances(l.rec, 0, l.rec) /\ Done(l.rec) \in Nat
  BY <1>1, ChangesAdvance
<1>3. w.l.faults \in Nat /\ w.l.unper \in Nat
  BY <1>1, LedgerFields
<1>4. CASE w.l = l /\ w.gained = 0
  BY <1>1, <1>2, <1>4, SMT DEF Effect
<1>5. CASE l.unper <= l.rec.reserved
  <2>1. /\ Advances(l.rec, l.unper, Moved(l)) /\ Advances(l.rec, 0, Moved(l))
        /\ Done(Moved(l)) = Done(l.rec) + l.unper
    BY <1>5, FinishAdvances
  <2>2. CASE w.ok = TRUE
    <3>1. /\ w.gained = l.unper /\ w.l.unper = 0 /\ w.l.rec = Moved(l)
          /\ w.l.disk = Moved(l) \/ (l.unper = 0 /\ w.l.disk = l.disk)
      BY <2>2 DEF FlushResult
    <3> QED
      BY <1>1, <1>2, <2>1, <3>1, SMT DEF Effect
  <2>3. CASE w.ok = FALSE /\ WriteFailed(l, w.l, Moved(l)) /\ w.gained = 0
    BY <1>1, <1>2, <1>3, <2>1, <2>3, SMT DEF Effect, WriteFailed
  <2> QED
    BY <1>4, <2>2, <2>3 DEF FlushResult
<1> QED
  BY <1>4, <1>5 DEF FlushResult

\* finish_exact flushes, then frees what the request still held.
LEMMA FinishEffect ==
  ASSUME NEW l \in Ledgers, NEW n \in Nat, NEW w, FinishResult(l, n, w)
  PROVE  Effect(l, 0, w)
<1>1. /\ l.rec \in Records /\ l.unper \in Nat /\ l.faults \in Nat /\ w.l \in Ledgers
      /\ w.l.up = l.up /\ l.rec.reserved \in Nat
  BY LedgerFields DEF FinishResult, SameEntry
<1>2. /\ Advances(l.rec, 0, l.rec) /\ Done(l.rec) \in Nat
  BY <1>1, ChangesAdvance
<1>3. w.l.faults \in Nat /\ w.l.unper \in Nat
  BY <1>1, LedgerFields
<1>4. CASE w.l = l /\ w.gained = 0
  BY <1>1, <1>2, <1>4, SMT DEF Effect
<1>5. CASE l.unper <= l.rec.reserved
  <2>1. /\ Advances(l.rec, l.unper, Moved(l)) /\ Advances(l.rec, 0, Moved(l))
        /\ Advances(l.rec, l.unper, Freed(Moved(l), n))
        /\ Advances(l.rec, 0, Freed(Moved(l), n))
        /\ Done(Moved(l)) = Done(l.rec) + l.unper
        /\ Done(Freed(Moved(l), n)) = Done(l.rec) + l.unper
    BY <1>5, FinishAdvances
  <2>2. CASE /\ w.gained = l.unper /\ w.l.unper = 0
             /\ w.l.rec = Freed(Moved(l), n) /\ w.l.disk = Freed(Moved(l), n)
    BY <1>1, <1>2, <2>1, <2>2, SMTT(30) DEF Effect
  <2>3. CASE WriteFailed(l, w.l, Moved(l)) /\ w.gained = 0
    BY <1>1, <1>2, <1>3, <2>1, <2>3, SMTT(30) DEF Effect, WriteFailed
  <2>4. CASE /\ w.gained = 0 /\ w.l.unper = 0 /\ w.l.rec = Moved(l)
             /\ w.l.disk \in {Moved(l), l.disk, Freed(Moved(l), n)}
    BY <1>1, <1>2, <2>1, <2>4, SMTT(30) DEF Effect
  <2> QED
    BY <1>4, <2>2, <2>3, <2>4 DEF FinishResult
<1>6. l.unper + n <= l.rec.reserved => l.unper <= l.rec.reserved
  BY <1>1, SMT
<1> QED
  BY <1>4, <1>5, <1>6 DEF FinishResult

\* What was shown to the buyer and whose count has not arrived.
Owed == [r \in Requests |-> request[r].owed]

AllOwed == SumFunctionOnSet(Owed, Requests)

\* What the streams still owe an account of is a natural number.
LEMMA OwedNat ==
  ASSUME request \in [Requests -> Slots]
  PROVE  Owed \in [Requests -> Int] /\ AllOwed \in Nat
<1>1. \A r \in Requests : Owed[r] \in Nat
  BY DEF Owed, Slots
<1>2. Finite(Requests)
  BY DeliveryConstants
<1>3. SumFunctionOnSet(Owed, Requests) \in Nat
  BY <1>1, <1>2, SumNat
<1> QED
  BY <1>3, SMT DEF Owed, Slots, AllOwed

\* A change of one slot changes the sum by what the slot owes more.
LEMMA OwedChange ==
  ASSUME request \in [Requests -> Slots], NEW r \in Requests, NEW q \in Slots,
         request' = [request EXCEPT ![r] = q]
  PROVE  /\ AllOwed' = AllOwed + (q.owed - request[r].owed)
         /\ AllOwed \in Nat /\ AllOwed' \in Nat
<1>1. request' \in [Requests -> Slots]
  OBVIOUS
<1>2. Owed \in [Requests -> Int] /\ AllOwed \in Nat
  BY OwedNat
<1>3. Owed' \in [Requests -> Int]
  BY <1>1, SMT DEF Owed, Slots
<1>4. \A s \in Requests : Owed'[s] \in Nat
  BY <1>1 DEF Owed, Slots
<1>5. \A s \in Requests \ {r} : Owed[s] = Owed'[s]
  BY DEF Owed
<1>6. Owed[r] = request[r].owed /\ Owed'[r] = q.owed
  BY DEF Owed
<1>7. Finite(Requests)
  BY DeliveryConstants
<1>8. SumFunctionOnSet(Owed', Requests)
        = SumFunctionOnSet(Owed, Requests) + (Owed'[r] - Owed[r])
  BY <1>2, <1>3, <1>5, <1>7, SumChange, ZenonT(30)
<1>9. SumFunctionOnSet(Owed', Requests) \in Nat
  BY <1>4, <1>7, SumNat
<1> QED
  BY <1>1, <1>2, <1>6, <1>8, <1>9 DEF AllOwed

\* The buyer has been shown all that was billed and all that is still owed.
Shown == hist.billed + AllOwed <= hist.shown

\* One step of a request, as the records, the counter and the bills see it.
StepEffect ==
  /\ \E n \in Nat : \E w : /\ Effect(ledger, n, w) /\ ledger' = w.l
                           /\ count' = count + w.gained /\ hist'.billed = hist.billed + n
  /\ Shown => Shown'

\* The tokens shown, billed and owed by one step.
LEMMA ShownMoves ==
  ASSUME DeliveryInv, NEW r \in Requests, NEW q \in Slots, NEW n \in Nat, NEW m \in Nat,
         request' = [request EXCEPT ![r] = q], hist'.billed = hist.billed + n,
         hist'.shown = hist.shown + m, n + q.owed <= request[r].owed + m
  PROVE  Shown => Shown'
<1>1. /\ request \in [Requests -> Slots] /\ request[r].owed \in Nat /\ q.owed \in Nat
      /\ hist.billed \in Nat /\ hist.shown \in Nat
  BY LiveFacts, HistoryFields DEF Slots
<1>2. AllOwed' = AllOwed + (q.owed - request[r].owed) /\ AllOwed \in Nat /\ AllOwed' \in Nat
  BY <1>1, OwedChange
<1>3. PICK t \in Nat : t = AllOwed'
  BY <1>2
<1>4. hist.billed + AllOwed <= hist.shown => (hist.billed + n) + t <= hist.shown + m
  BY <1>1, <1>2, <1>3, SMT
<1> QED
  BY <1>3, <1>4 DEF Shown

\* A step that leaves the ledger alone.
LEMMA SlotEffect ==
  ASSUME DeliveryInv, UNCHANGED <<ledger, count>>, hist'.billed = hist.billed, Shown => Shown'
  PROVE  StepEffect
<1>1. /\ ledger \in Ledgers /\ ledger.rec \in Records /\ count \in Nat /\ hist.billed \in Nat
      /\ ledger.unper \in Nat
  BY LiveFacts, HistoryFields DEF DeliveryInv, DriverTypes
<1> DEFINE w == [l |-> ledger, ok |-> TRUE, gained |-> 0]
<1>2. Advances(ledger.rec, 0, ledger.rec) /\ Done(ledger.rec) \in Nat
  BY <1>1, ChangesAdvance
<1>3. Effect(ledger, 0, w)
  BY <1>1, <1>2, SMTT(30) DEF Effect
<1>4. ledger' = w.l /\ count' = count + w.gained /\ hist'.billed = hist.billed + 0
  BY <1>1, SMT
<1> HIDE DEF w
<1>5. 0 \in Nat
  OBVIOUS
<1> QED
  BY <1>3, <1>4, <1>5 DEF StepEffect

\* open_stream shows and bills nothing.
LEMMA OpenEffect ==
  ASSUME DeliveryInv, NEW r \in Requests, NEW n \in Asked, open_stream(r, n)
  PROVE  StepEffect
<1> DEFINE a == Available(ledger, n)
           q == [Idle EXCEPT !.phase = "open", !.remaining = a]
<1>1. /\ request \in [Requests -> Slots] /\ ledger \in Ledgers /\ hist \in Histories
      /\ count \in Nat /\ hist.billed \in Nat /\ hist.shown \in Nat
      /\ ledger.rec \in Records
  BY LiveFacts, HistoryFields DEF DeliveryInv, DriverTypes
<1>2. a \in Nat
  BY <1>1, DeliveryConstants, SMT DEF open_stream, Available, Smaller, Committed, Records
<1> HIDE DEF a
<1>3. PICK w \in reserve(ledger, a) :
        /\ ledger' = w.l
        /\ request' = IF ~w.ok THEN request ELSE [request EXCEPT ![r] = q]
        /\ hist' = [hist EXCEPT !.asked = @ + 1, !.clean = @ /\ w.ok /\ ledger.unper = 0]
        /\ count' = count
  BY DEF open_stream, a
<1>4. ReserveResult(ledger, a, w)
  BY <1>1, <1>2, ReserveOutcome
<1>5. Effect(ledger, 0, w) /\ w.gained = 0
  BY <1>1, <1>2, <1>4, ReserveEffect DEF ReserveResult
<1>6. hist'.billed = hist.billed /\ hist'.shown = hist.shown
  BY <1>1, <1>3 DEF Histories
<1>7. q \in Slots /\ q.owed = 0 /\ request[r].owed \in Nat
  BY <1>1, <1>2 DEF Slots, Idle
<1> HIDE DEF q
<1>8. Shown => Shown'
  <2>1. CASE request' = request
    <3>1. AllOwed' = AllOwed
      BY <2>1 DEF AllOwed, Owed
    <3> QED
      BY <1>6, <3>1 DEF Shown
  <2>2. CASE request' = [request EXCEPT ![r] = q]
    <3>1. /\ hist'.billed = hist.billed + 0 /\ hist'.shown = hist.shown + 0
          /\ 0 + q.owed <= request[r].owed + 0 /\ 0 \in Nat
      BY <1>1, <1>6, <1>7, SMT
    <3> QED
      BY <1>7, <2>2, <3>1, ShownMoves
  <2> QED
    BY <1>3, <2>1, <2>2
<1>9. count' = count + w.gained /\ hist'.billed = hist.billed + 0 /\ 0 \in Nat
  BY <1>1, <1>3, <1>5, <1>6, SMT
<1> QED
  BY <1>3, <1>5, <1>8, <1>9 DEF StepEffect

\* A chunk that is recorded is billed by what it showed.
LEMMA RecordStepEffect ==
  ASSUME DeliveryInv, NEW r \in Requests, NEW n \in Nat, NEW m \in Nat,
         NEW broken \in {"exact", "ambiguous"}, NEW done \in Slots,
         done.remaining = request[r].remaining, n + done.owed <= request[r].owed + m,
         Record(r, n, m, broken, done)
  PROVE  StepEffect
<1>1. /\ request \in [Requests -> Slots] /\ ledger \in Ledgers /\ hist \in Histories
      /\ count \in Nat /\ hist.billed \in Nat /\ hist.shown \in Nat /\ hist.clean \in BOOLEAN
  BY LiveFacts, HistoryFields DEF DeliveryInv, DriverTypes
<1>2. PICK w \in record_delivered(ledger, request[r].remaining, n) :
        /\ ledger' = w.l /\ count' = count + w.gained
        /\ request' = [request EXCEPT ![r] = IF w.ok THEN [done EXCEPT !.remaining = @ - n]
                                             ELSE [@ EXCEPT !.phase = broken]]
        /\ hist' = [hist EXCEPT !.billed = IF w.ok THEN @ + n ELSE @,
                                !.shown = IF w.ok THEN @ + m ELSE @,
                                !.clean = @ /\ w.ok]
  BY DEF Record
<1>3. request[r] \in Slots /\ request[r].remaining \in Nat /\ request[r].owed \in Nat
  BY <1>1 DEF Slots
<1>4. RecordResult(ledger, request[r].remaining, n, w)
  BY <1>1, <1>3, RecordOutcome
<1>5. CASE w.ok = TRUE /\ Effect(ledger, n, w)
  <2> DEFINE q == [done EXCEPT !.remaining = @ - n]
  <2>1. q \in Slots /\ q.owed = done.owed
    <3>1. n <= request[r].remaining
      BY <1>4, <1>5 DEF RecordResult
    <3>2. request[r].remaining - n \in Nat
      BY <1>3, <3>1, SMT
    <3> QED
      BY <3>2 DEF Slots
  <2>2. request' = [request EXCEPT ![r] = q]
    BY <1>2, <1>5
  <2>3. hist'.billed = hist.billed + n /\ hist'.shown = hist.shown + m
    <3>1. hist' = [hist EXCEPT !.billed = hist.billed + n, !.shown = hist.shown + m,
                               !.clean = hist.clean]
      BY <1>1, <1>2, <1>5
    <3>2. hist.billed + n \in Nat /\ hist.shown + m \in Nat /\ hist \in Histories
      BY <1>1, SMT
    <3> QED
      BY <3>1, <3>2 DEF Histories
  <2> HIDE DEF q
  <2>4. n + q.owed <= request[r].owed + m
    BY <2>1
  <2>5. Shown => Shown'
    BY <2>1, <2>2, <2>3, <2>4, ShownMoves
  <2> QED
    BY <1>2, <1>5, <2>3, <2>5 DEF StepEffect
<1>6. CASE w.ok = FALSE /\ Effect(ledger, 0, w)
  <2> DEFINE q == [request[r] EXCEPT !.phase = broken]
  <2>1. q \in Slots /\ q.owed = request[r].owed
    BY <1>3 DEF Slots
  <2>2. request' = [request EXCEPT ![r] = q]
    BY <1>2, <1>6
  <2>3. hist'.billed = hist.billed /\ hist'.shown = hist.shown
    <3>1. hist' = [hist EXCEPT !.billed = hist.billed, !.shown = hist.shown, !.clean = FALSE]
      BY <1>2, <1>6
    <3> QED
      BY <1>1, <3>1 DEF Histories
  <2> HIDE DEF q
  <2>4. /\ 0 + q.owed <= request[r].owed + 0 /\ 0 \in Nat
        /\ hist'.billed = hist.billed + 0 /\ hist'.shown = hist.shown + 0
    BY <1>1, <1>3, <2>1, <2>3, SMT
  <2>5. Shown => Shown'
    BY <2>1, <2>2, <2>4, ShownMoves
  <2> QED
    BY <1>2, <1>6, <2>4, <2>5 DEF StepEffect
<1> QED
  BY <1>1, <1>3, <1>4, <1>5, <1>6, RecordEffect

\* The end of a stream bills nothing more.
LEMMA FinishedEffect ==
  ASSUME DeliveryInv, NEW r \in Requests, Finished(r)
  PROVE  StepEffect
<1> DEFINE n == request[r].remaining
<1>1. /\ request \in [Requests -> Slots] /\ ledger \in Ledgers /\ hist \in Histories
      /\ ledger.terminal \in BOOLEAN /\ count \in Nat
      /\ hist.billed \in Nat /\ hist.shown \in Nat
  BY LiveFacts, HistoryFields DEF DeliveryInv, DriverTypes
<1>2. n \in Nat /\ request[r].owed \in Nat /\ Idle \in Slots /\ Idle.owed = 0
  BY <1>1 DEF Slots, Idle
<1>3. PICK w \in IF request[r].phase = "exact" THEN finish_exact(ledger, n)
                 ELSE finish_ambiguous(ledger) :
        /\ ledger' = w.l /\ count' = count + w.gained
        /\ hist' = [hist EXCEPT !.clean = @ /\ w.ok /\ request[r].phase = "exact"]
  BY DEF Finished
<1>4. /\ hist'.billed = hist.billed + 0 /\ hist'.shown = hist.shown + 0 /\ 0 \in Nat
      /\ hist'.billed = hist.billed
  <2>1. hist'.billed = hist.billed /\ hist'.shown = hist.shown
    BY <1>1, <1>3 DEF Histories
  <2> QED
    BY <1>1, <2>1, SMT
<1>5. Shown => Shown'
  <2>1. request' = [request EXCEPT ![r] = Idle]
    BY DEF Finished
  <2>2. 0 + Idle.owed <= request[r].owed + 0
    BY <1>2, SMT
  <2> QED
    BY <1>2, <1>4, <2>1, <2>2, ShownMoves
<1>6. CASE ledger.terminal = TRUE
  <2>1. w.l = ledger /\ w.gained = 0
    BY <1>3, <1>6, SMT DEF finish_exact, finish_ambiguous
  <2>2. UNCHANGED <<ledger, count>>
    BY <1>1, <1>3, <2>1, SMT
  <2> QED
    BY <1>4, <1>5, <2>2, SlotEffect
<1>7. CASE ledger.terminal = FALSE
  <2>1. Effect(ledger, 0, w)
    <3>1. CASE request[r].phase = "exact"
      <4>1. w \in finish_exact(ledger, n)
        BY <1>3, <3>1
      <4> HIDE DEF n
      <4>2. FinishResult(ledger, n, w)
        BY <1>1, <1>2, <1>7, <4>1, FinishOutcome
      <4> QED
        BY <1>1, <1>2, <4>2, FinishEffect
    <3>2. CASE request[r].phase # "exact"
      <4>1. w \in flush_delivered(ledger)
        BY <1>3, <1>7, <3>2 DEF finish_ambiguous
      <4>2. FlushResult(ledger, w)
        BY <1>1, <4>1, FlushOutcome
      <4> QED
        BY <1>1, <4>2, FlushEffect
    <3> QED
      BY <3>1, <3>2
  <2> QED
    BY <1>3, <1>4, <1>5, <2>1 DEF StepEffect
<1> QED
  BY <1>1, <1>6, <1>7

\* Every step of a request, short of a crash, has such an effect.
LEMMA RelayEffect ==
  ASSUME DeliveryInv, NEW r \in Requests, Relay(r), ~CrashInFinish(r)
  PROVE  UNCHANGED <<chain, flights, driver>> /\ StepEffect
<1>1. /\ request[r] \in Slots /\ Counts \subseteq Nat /\ request[r].owed \in Nat
      /\ request[r].charged \in Nat /\ hist \in Histories
      /\ hist.billed \in Nat /\ hist.shown \in Nat
  BY LiveFacts, HistoryFields, DeliveryConstants DEF Slots
<1>2. UNCHANGED <<chain, flights, driver>>
  BY DEF Relay, open_stream, CountedChunk, UncountedChunk, Accounted, EndOfStream, Finished,
     Record
<1>3. CASE \E n \in Asked : open_stream(r, n)
  BY <1>2, <1>3, OpenEffect
<1>4. ASSUME NEW n \in Counts, CountedChunk(r, n)
      PROVE  StepEffect
  <2>1. Record(r, n, n, "exact", request[r]) /\ request[r].owed = 0 /\ n \in Nat
    BY <1>1, <1>4 DEF CountedChunk
  <2>2. n + request[r].owed <= request[r].owed + n
    BY <1>1, <2>1, SMT
  <2> QED
    BY <1>1, <2>1, <2>2, RecordStepEffect
<1>5. CASE Accounted(r)
  <2> DEFINE c == IF request[r].charged < request[r].owed THEN request[r].owed
                  ELSE request[r].charged
             done == [request[r] EXCEPT !.charged = c, !.owed = 0]
  <2>1. c \in Nat
    BY <1>1
  <2>2. Record(r, request[r].owed, 0, "ambiguous", done)
    BY <1>5 DEF Accounted
  <2> HIDE DEF c
  <2>3. done \in Slots /\ done.remaining = request[r].remaining /\ done.owed = 0
    BY <1>1, <2>1 DEF Slots
  <2> HIDE DEF done
  <2>4. request[r].owed + done.owed <= request[r].owed + 0
    BY <1>1, <2>3, SMT
  <2> QED
    BY <1>1, <1>2, <2>2, <2>3, <2>4, RecordStepEffect, SMT
<1>6. ASSUME NEW n \in Counts, UncountedChunk(r, n)
      PROVE  StepEffect
  <2> DEFINE q == [request[r] EXCEPT !.owed = n]
             p == [request[r] EXCEPT !.phase = Ending(request[r])]
  <2>1. /\ q \in Slots /\ q.owed = n /\ p \in Slots /\ p.owed = request[r].owed
        /\ request[r].owed = 0 /\ n \in Nat
    BY <1>1, <1>6 DEF Slots, UncountedChunk, Ending
  <2>2. /\ UNCHANGED <<ledger, count>>
        /\ \/ request' = [request EXCEPT ![r] = q] /\ hist' = [hist EXCEPT !.shown = @ + n]
           \/ request' = [request EXCEPT ![r] = p] /\ hist' = hist
    BY <1>6 DEF UncountedChunk
  <2> HIDE DEF q, p
  <2>3. CASE request' = [request EXCEPT ![r] = q] /\ hist' = [hist EXCEPT !.shown = @ + n]
    <3>1. hist'.billed = hist.billed + 0 /\ hist'.shown = hist.shown + n /\ 0 \in Nat
      BY <1>1, <2>1, <2>3, SMT DEF Histories
    <3>2. 0 + q.owed <= request[r].owed + n /\ hist'.billed = hist.billed
      BY <1>1, <2>1, <3>1, SMT
    <3>3. Shown => Shown'
      BY <2>1, <2>3, <3>1, <3>2, ShownMoves
    <3> QED
      BY <2>2, <3>2, <3>3, SlotEffect
  <2>4. CASE request' = [request EXCEPT ![r] = p] /\ hist' = hist
    <3>1. /\ hist'.billed = hist.billed + 0 /\ hist'.shown = hist.shown + 0 /\ 0 \in Nat
          /\ 0 + p.owed <= request[r].owed + 0 /\ hist'.billed = hist.billed
      BY <1>1, <2>1, <2>4, SMTT(30)
    <3>2. Shown => Shown'
      BY <2>1, <2>4, <3>1, ShownMoves
    <3> QED
      BY <2>2, <3>1, <3>2, SlotEffect
  <2> QED
    BY <2>2, <2>3, <2>4
<1>7. CASE EndOfStream(r)
  <2> DEFINE p == [request[r] EXCEPT !.phase = Ending(request[r])]
  <2>1. p \in Slots /\ p.owed = request[r].owed
    BY <1>1 DEF Slots, Ending
  <2>2. request' = [request EXCEPT ![r] = p] /\ UNCHANGED <<ledger, count, hist>>
    BY <1>7 DEF EndOfStream
  <2> HIDE DEF p
  <2>3. /\ hist'.billed = hist.billed + 0 /\ hist'.shown = hist.shown + 0 /\ 0 \in Nat
        /\ 0 + p.owed <= request[r].owed + 0 /\ hist'.billed = hist.billed
    BY <1>1, <2>1, <2>2, SMTT(30)
  <2>4. Shown => Shown'
    BY <2>1, <2>2, <2>3, ShownMoves
  <2> QED
    BY <1>2, <2>2, <2>3, <2>4, SlotEffect
<1>8. CASE Finished(r)
  BY <1>2, <1>8, FinishedEffect
<1> QED
  BY <1>2, <1>3, <1>4, <1>5, <1>6, <1>7, <1>8 DEF Relay

-----------------------------------------------------------------------------
(* A restart is accepted                                                   *)

\* A record covers contract state c: everything claimed, in flight (sent) or due
\* to be claimed by driver d with counter k is in what the record says was
\* delivered.
Covers(rec, c, k, d, sent) ==
  /\ 0 < rec.anchor /\ rec.anchor <= c.pending /\ c.pending <= Done(rec)
  /\ rec.cap <= Funded
  /\ d.pc \in {"start", "sync"} => c.pending + k <= Done(rec)
  /\ d.pc \in {"claim", "confirm"} => d.base + k <= Done(rec)
  /\ \A n \in sent : n <= Done(rec)

\* In a deal past its probe, the record in memory and the one in the file both
\* cover the contract, and no claim is in flight before the driver submits one.
RestartInv ==
  /\ chain.probe /\ driver.atProbe = 0
  /\ driver.pc \in {"off", "start", "sync"} => flights = {}
  /\ driver.pc = "off" => ~ledger.up
  /\ ~chain.stopped =>
       /\ Covers(ledger.disk, chain, count, driver, flights)
       /\ ledger.up => Covers(ledger.rec, chain, count, driver, flights)
       /\ Serving => ledger.up

\* A record that moved on with the counter still covers.
LEMMA CoversAdvance ==
  ASSUME NEW rec \in Records, NEW new \in Records, NEW c \in Chains, NEW k \in Nat,
         NEW d \in Drivers, NEW sent \in SUBSET Nat, NEW g \in Nat,
         Covers(rec, c, k, d, sent), Advances(rec, g, new)
  PROVE  Covers(new, c, k + g, d, sent)
<1>1. /\ rec.anchor \in Nat /\ rec.local \in Nat /\ new.local \in Nat /\ c.pending \in Nat
      /\ d.base \in Nat /\ rec.cap \in Nat
  BY CapNat DEF Records, Drivers
<1>2. Done(rec) \in Nat /\ Done(new) \in Nat /\ Done(rec) + g <= Done(new)
  BY <1>1, SMT DEF Advances, Done
<1>3. \A n \in sent : n <= Done(new)
  BY <1>2, SMT DEF Covers
<1> QED
  BY <1>1, <1>2, <1>3, SMT DEF Covers, Advances

\* The driver's next state asks for no more, and a new claim was due.
LEMMA CoversDriver ==
  ASSUME NEW rec \in Records, NEW c \in Chains, NEW k \in Nat, NEW d \in Drivers,
         NEW e \in Drivers, NEW sent \in SUBSET Nat, NEW more \in SUBSET Nat,
         Covers(rec, c, k, d, sent),
         e.pc \in {"start", "sync"} => d.pc \in {"start", "sync"},
         e.pc \in {"claim", "confirm"} =>
           \/ d.pc \in {"claim", "confirm"} /\ e.base = d.base
           \/ d.pc \in {"start", "sync"} /\ e.base = c.pending,
         \A n \in more : n \in sent \/ (d.pc \in {"claim", "confirm"} /\ n <= d.base + k)
  PROVE  Covers(rec, c, k, e, more)
<1>1. c.pending \in Nat /\ d.base \in Nat /\ Done(rec) \in Nat
  BY CapNat, ChangesAdvance DEF Drivers
<1>2. \A n \in more : n <= Done(rec)
  <2> SUFFICES ASSUME NEW n \in more
               PROVE  n <= Done(rec)
    OBVIOUS
  <2>1. n \in Nat
    OBVIOUS
  <2>2. CASE n \in sent
    BY <2>2 DEF Covers
  <2>3. CASE d.pc \in {"claim", "confirm"} /\ n <= d.base + k
    <3>1. d.base + k <= Done(rec)
      BY <2>3 DEF Covers
    <3> QED
      BY <1>1, <2>1, <2>3, <3>1, SMT
  <2> QED
    BY <2>2, <2>3
<1> QED
  BY <1>2 DEF Covers

\* Reconciling a record that covers keeps it covering.
LEMMA CoversReconciled ==
  ASSUME NEW rec \in Records, NEW c \in Chains, NEW k \in Nat, NEW d \in Drivers,
         NEW sent \in SUBSET Nat, Covers(rec, c, k, d, sent), Reconcilable(rec, c)
  PROVE  /\ Covers(ReconciledRecord(rec, c), c, k, d, sent)
         /\ Done(ReconciledRecord(rec, c)) = Done(rec)
<1> DEFINE new == ReconciledRecord(rec, c)
<1>1. /\ new \in Records /\ new.anchor = c.pending /\ new.cap <= Funded
      /\ \/ new.anchor + new.local = rec.anchor + rec.local
         \/ c.pending > rec.anchor + rec.local
  BY ReconciledFacts
<1>2. c.pending \in Nat /\ rec.anchor \in Nat /\ Done(rec) \in Nat
  BY CapNat, ChangesAdvance DEF Records
<1> HIDE DEF new
<1>3. c.pending <= rec.anchor + rec.local /\ 0 < rec.anchor /\ rec.anchor <= c.pending
  BY DEF Covers, Done
<1>4. Done(new) = Done(rec)
  BY <1>1, <1>2, <1>3, SMT DEF Done
<1>5. 0 < c.pending /\ c.pending <= c.pending
  BY <1>2, <1>3, SMT
<1>6. Covers(new, c, k, d, sent)
  BY <1>1, <1>4, <1>5 DEF Covers
<1> QED
  BY <1>4, <1>6 DEF new

\* A record that covers a deal that goes on accepts its state.
LEMMA CoveringAccepts ==
  ASSUME NEW rec \in Records, NEW c \in Chains, NEW k, NEW d, NEW sent, NEW t \in Nat,
         c.probe, c.pending <= authoritative_cap(c),
         Covers(rec, c, k, d, sent), Room(rec, c, t)
  PROVE  Reconcilable(rec, c)
<1>1. /\ rec.anchor \in Nat /\ rec.local \in Nat /\ rec.reserved \in Nat /\ rec.cap \in Nat
      /\ c.pending \in Nat /\ authoritative_cap(c) \in Nat
      /\ c.base \in Nat /\ Funded \in Nat
  BY CapNat, QuotaBounds DEF Records
<1>2. /\ 0 < rec.anchor /\ rec.anchor <= c.pending /\ c.pending <= rec.anchor + rec.local
      /\ rec.cap <= Funded
  BY DEF Covers, Done
<1>3. rec.anchor + rec.local + rec.reserved <= rec.cap
  BY DEF Room, Committed
<1>4. rec.cap <= authoritative_cap(c) \/ TermEnded(c)
  BY DEF Room
<1>5. ProbeSeed(rec, c) = 0
  BY <1>1, <1>2, SMT DEF ProbeSeed
<1> DEFINE local == Subtract(rec.local, c.pending - rec.anchor)
           new == ReconciledRecord(rec, c)
<1>6. local \in Nat /\ c.pending + local = rec.anchor + rec.local
  BY <1>1, <1>2, SMT DEF Subtract
<1> HIDE DEF local
<1>7. /\ new.anchor = c.pending /\ new.local = local /\ new.reserved = rec.reserved
      /\ new.cap = IF TermEnded(c) THEN c.pending + local + rec.reserved
                   ELSE authoritative_cap(c)
  BY DEF ReconciledRecord, local
<1> HIDE DEF new
<1>8. ~TermEnded(c) => authoritative_cap(c) <= Funded
  BY <1>1, QuotaBounds, SMT DEF authoritative_cap, Smaller
<1>9. Committed(new) <= new.cap /\ new.cap <= Funded
  <2>1. CASE TermEnded(c)
    BY <1>1, <1>2, <1>3, <1>6, <1>7, <2>1, SMTT(30) DEF Committed
  <2>2. CASE ~TermEnded(c)
    BY <1>1, <1>3, <1>4, <1>6, <1>7, <1>8, <2>2, SMT DEF Committed
  <2> QED
    BY <2>1, <2>2
<1>10. c.pending - rec.anchor - ProbeSeed(rec, c) <= rec.local
  BY <1>1, <1>2, <1>5, SMT
<1> QED
  BY <1>1, <1>2, <1>4, <1>9, <1>10 DEF Reconcilable, validate_record, new

\* A reading of the chain leaves records that cover; one over a fresh entry
\* leaves the file equal to it.
LEMMA ReadingCovers ==
  ASSUME DeliveryInv, RestartInv, ~chain.stopped, NEW w \in reconcile_deal(ledger, chain)
  PROVE  /\ w.l \in Ledgers /\ w.l.up = TRUE
         /\ Covers(w.l.disk, chain, count, driver, flights)
         /\ Covers(w.l.rec, chain, count, driver, flights)
         /\ ledger.up = FALSE /\ w.ok = TRUE =>
              w.l.disk = w.l.rec /\ w.l.rec.anchor = chain.pending
<1> DEFINE e == LoadEntry(ledger, chain)
           new == ReconciledRecord(e.rec, chain)
<1>1. /\ ledger \in Ledgers /\ chain \in Chains /\ ledger.disk \in Records /\ count \in Nat
      /\ driver \in Drivers /\ flights \in SUBSET Nat /\ ledger.up \in BOOLEAN
  BY LiveFacts DEF DeliveryInv, DriverTypes
<1>2. Covers(ledger.disk, chain, count, driver, flights)
  BY DEF RestartInv
<1>3. ledger.disk # NoRecord
  BY <1>2, SMT DEF Covers, NoRecord
<1>4. /\ e \in Ledgers /\ e.up = TRUE /\ e.disk = ledger.disk
      /\ \/ ledger.up = TRUE /\ e = ledger
         \/ ledger.up = FALSE /\ e.rec = ledger.disk
  BY <1>1, <1>3, LoadFacts
<1>5. /\ SameEntry(e, w.l)
      /\ \/ w.ok = FALSE /\ w.l = e
         \/ /\ w.ok = TRUE /\ Reconcilable(e.rec, chain) /\ w.l.rec = new
            /\ \/ w.l.disk = new
               \/ w.l.disk = e.disk /\ e.rec = new
         \/ /\ w.ok = FALSE /\ Reconcilable(e.rec, chain)
            /\ WriteFailed(e, w.l, new)
  BY <1>1, ReconcileOutcome
<1> HIDE DEF e
<1>6. e.rec \in Records
  BY <1>4, LedgerFields
<1>7. Covers(e.rec, chain, count, driver, flights)
  BY <1>2, <1>4 DEF RestartInv
<1>8. Reconcilable(e.rec, chain) =>
        Covers(new, chain, count, driver, flights) /\ new.anchor = chain.pending
  BY <1>1, <1>6, <1>7, CoversReconciled, ReconciledFacts
<1> HIDE DEF new
<1>9. w.l \in Ledgers /\ w.l.up = TRUE
  BY <1>4, <1>5 DEF SameEntry
<1>10. /\ Covers(w.l.disk, chain, count, driver, flights)
       /\ Covers(w.l.rec, chain, count, driver, flights)
  BY <1>2, <1>4, <1>5, <1>7, <1>8 DEF WriteFailed
<1>11. ledger.up = FALSE /\ w.ok = TRUE =>
         w.l.disk = w.l.rec /\ w.l.rec.anchor = chain.pending
  BY <1>4, <1>5, <1>8
<1> QED
  BY <1>9, <1>10, <1>11

\* Requests live over an entry that is up, or in a deal that has stopped.
LEMMA RelayLive ==
  ASSUME DeliveryInv, NEW r \in Requests, Relay(r)
  PROVE  ledger.up \/ chain.stopped
<1>1. request[r].phase # "idle" \/ ledger.up
  BY DEF Relay, open_stream, CountedChunk, UncountedChunk, Accounted, EndOfStream, Finished,
     CrashInFinish
<1> QED
  BY <1>1, SMT DEF DeliveryInv, LedgerInv, EntryInv, AllIdle, Idle

\* A request's step advances the records at least as far as the counter.
LEMMA RestartRelay ==
  ASSUME DeliveryInv, RestartInv, UNCHANGED <<chain, flights, driver>>, StepEffect,
         ledger.up \/ chain.stopped
  PROVE  RestartInv'
<1>1. /\ ledger \in Ledgers /\ chain \in Chains /\ ledger.rec \in Records
      /\ ledger.disk \in Records /\ count \in Nat
      /\ driver \in Drivers /\ flights \in SUBSET Nat /\ ledger.up \in BOOLEAN
  BY LiveFacts DEF DeliveryInv, DriverTypes
<1>0. PICK n \in Nat : \E w : Effect(ledger, n, w) /\ ledger' = w.l /\ count' = count + w.gained
  BY DEF StepEffect
<1>2. PICK w : Effect(ledger, n, w) /\ ledger' = w.l /\ count' = count + w.gained
  BY <1>0
<1>3. /\ ledger' \in Ledgers /\ w.gained \in Nat /\ ledger'.up = ledger.up
      /\ Advances(ledger.rec, w.gained, ledger'.rec)
      /\ Advances(ledger.rec, w.gained, ledger'.disk)
           \/ (w.gained = 0 /\ ledger'.disk = ledger.disk)
  BY <1>2 DEF Effect
<1>4. ledger'.rec \in Records /\ ledger'.disk \in Records
  BY <1>3, LedgerFields
<1>5. ASSUME ~chain.stopped, ledger.up
      PROVE  /\ Covers(ledger'.rec, chain, count', driver, flights)
             /\ Covers(ledger'.disk, chain, count', driver, flights)
  <2>1. /\ Covers(ledger.rec, chain, count, driver, flights)
        /\ Covers(ledger.disk, chain, count, driver, flights)
    BY <1>5 DEF RestartInv
  <2>2. Covers(ledger'.rec, chain, count', driver, flights)
    BY <1>1, <1>2, <1>3, <1>4, <2>1, CoversAdvance
  <2>3. CASE Advances(ledger.rec, w.gained, ledger'.disk)
    <3>1. Covers(ledger'.disk, chain, count', driver, flights)
      BY <1>1, <1>2, <1>3, <1>4, <2>1, <2>3, CoversAdvance
    <3> QED
      BY <2>2, <3>1
  <2>4. CASE w.gained = 0 /\ ledger'.disk = ledger.disk
    <3>1. count' = count
      BY <1>1, <1>2, <2>4, SMT
    <3> QED
      BY <2>1, <2>2, <2>4, <3>1
  <2> QED
    BY <1>3, <2>3, <2>4
<1>6. CASE ledger.up \/ chain.stopped
  BY <1>3, <1>5, <1>6 DEF RestartInv, Serving
<1>7. CASE UNCHANGED <<ledger, count>>
  BY <1>7 DEF RestartInv, Serving
<1> QED
  BY <1>6, <1>7

\* The driver claims no more than the records cover.
LEMMA RestartDriver ==
  ASSUME DeliveryInv, RestartInv, Driver \/ KeeperObserve \/ register_stream
  PROVE  RestartInv'
<1>1. /\ ledger \in Ledgers /\ chain \in Chains /\ ledger.rec \in Records
      /\ ledger.disk \in Records /\ count \in Nat
      /\ driver \in Drivers /\ flights \in SUBSET Nat /\ ledger.up \in BOOLEAN
      /\ driver.base \in Nat /\ driver.atProbe = 0 /\ chain.probe /\ DriverTypes /\ ChainInv
  BY LiveFacts DEF DeliveryInv, DriverTypes, Drivers, RestartInv
<1>2. DriverTypes'
  BY DriverKeeps
<1>3. driver' \in Drivers /\ flights' \in SUBSET Nat
  BY <1>2 DEF DriverTypes
\* What is left to show of a step that leaves contract and counter alone.
<1>4. ASSUME UNCHANGED <<chain, count>>, driver'.atProbe = driver.atProbe,
             driver'.pc # "off",
             driver'.pc \in {"start", "sync"} => driver.pc \in {"start", "sync"} /\ flights' = flights,
             driver'.pc \in {"claim", "confirm"} =>
               \/ driver.pc \in {"claim", "confirm"} /\ driver'.base = driver.base
               \/ driver.pc \in {"start", "sync"} /\ driver'.base = chain.pending,
             \A n \in flights' :
               n \in flights \/ (driver.pc \in {"claim", "confirm"} /\ n <= driver.base + count),
             Serving' => Serving,
             ~chain.stopped =>
               \/ ledger' = ledger
               \/ \E w \in reconcile_deal(ledger, chain) : ledger' = w.l
      PROVE  RestartInv'
  <2>1. ASSUME ~chain.stopped
        PROVE  /\ Covers(ledger'.disk, chain, count, driver', flights')
               /\ ledger'.up => Covers(ledger'.rec, chain, count, driver', flights')
               /\ ledger' \in Ledgers /\ (Serving' => ledger'.up)
    <3>1. /\ ledger' \in Ledgers /\ (Serving' => ledger'.up)
          /\ Covers(ledger'.disk, chain, count, driver, flights)
          /\ ledger'.up => Covers(ledger'.rec, chain, count, driver, flights)
      <4>1. CASE ledger' = ledger
        BY <1>1, <1>4, <2>1, <4>1 DEF RestartInv
      <4>2. ASSUME NEW w \in reconcile_deal(ledger, chain), ledger' = w.l
            PROVE  /\ ledger' \in Ledgers /\ (Serving' => ledger'.up)
                   /\ Covers(ledger'.disk, chain, count, driver, flights)
                   /\ ledger'.up => Covers(ledger'.rec, chain, count, driver, flights)
        BY <2>1, <4>2, ReadingCovers
      <4> QED
        BY <1>4, <2>1, <4>1, <4>2
    <3>2. ledger'.disk \in Records /\ ledger'.rec \in Records
      BY <3>1, LedgerFields
    <3>3. ASSUME NEW rec \in Records, Covers(rec, chain, count, driver, flights)
          PROVE  Covers(rec, chain, count, driver', flights')
      BY <1>1, <1>3, <1>4, <3>3, CoversDriver
    <3> QED
      BY <3>1, <3>2, <3>3
  <2>2. driver'.pc \in {"off", "start", "sync"} => flights' = {}
    BY <1>4 DEF RestartInv
  <2> QED
    BY <1>1, <1>4, <2>1, <2>2 DEF RestartInv
<1>5. CASE register_stream
  <2>1. PICK w \in reconcile_deal(ledger, chain) :
          /\ ledger' = w.l /\ count' = IF w.ok THEN w.l.rec.local ELSE 0
          /\ driver' = [driver EXCEPT !.pc = IF w.ok THEN "start" ELSE "failed"]
          /\ UNCHANGED <<chain, flights>> /\ driver.pc = "off"
    BY <1>5 DEF register_stream
  <2>2. driver'.pc = (IF w.ok THEN "start" ELSE "failed") /\ driver'.atProbe = 0
    BY <1>1, <2>1 DEF Drivers
  <2>3. flights = {}
    BY <2>1 DEF RestartInv
  <2>4. ASSUME ~chain.stopped
        PROVE  /\ Covers(ledger'.disk, chain, count', driver', flights)
               /\ Covers(ledger'.rec, chain, count', driver', flights)
               /\ ledger'.up = TRUE
    <3>1. /\ ledger' \in Ledgers /\ ledger'.up = TRUE
          /\ Covers(ledger'.disk, chain, count, driver, flights)
          /\ Covers(ledger'.rec, chain, count, driver, flights)
          /\ ledger.up = FALSE /\ w.ok = TRUE =>
               ledger'.disk = ledger'.rec /\ ledger'.rec.anchor = chain.pending
      BY <2>1, <2>4, ReadingCovers
    <3>2. CASE w.ok = TRUE
      <4>1. ledger.up = FALSE
        BY <1>1, <2>1 DEF RestartInv
      <4>2. /\ ledger'.disk = ledger'.rec /\ ledger'.rec.anchor = chain.pending
            /\ count' = ledger'.rec.local /\ driver'.pc = "start"
        BY <2>1, <2>2, <3>1, <3>2, <4>1
      <4>3. chain.pending \in Nat /\ ledger'.rec.local \in Nat
        BY <1>1, <3>1, CapNat, LedgerFields
      <4>4. chain.pending + count' <= Done(ledger'.rec)
        BY <4>2, <4>3, SMT DEF Done
      <4>5. Covers(ledger'.rec, chain, count', driver', flights)
        BY <3>1, <4>2, <4>4 DEF Covers
      <4> QED
        BY <3>1, <4>2, <4>5
    <3>3. CASE w.ok # TRUE
      BY <2>2, <3>1, <3>3 DEF Covers
    <3> QED
      BY <3>2, <3>3
  <2>5. chain' = chain /\ flights' = flights /\ driver'.pc # "off"
    BY <2>1, <2>2, SMT
  <2> QED
    BY <1>1, <2>2, <2>3, <2>4, <2>5 DEF RestartInv
<1>6. CASE DriverStart
  <2>1. PICK w \in ObservedLedgers :
          /\ ledger' = w.l /\ UNCHANGED <<chain, count, flights>> /\ driver.pc = "start"
          /\ driver' = [driver EXCEPT !.pc = IF ~w.ok THEN "failed"
                                             ELSE IF chain.probe THEN "sync" ELSE "probe"]
    BY <1>6 DEF DriverStart
  <2>2. driver'.pc \in {"failed", "sync"} /\ driver'.atProbe = driver.atProbe
    BY <1>1, <2>1 DEF Drivers
  <2>3. ledger' = ledger \/ \E v \in reconcile_deal(ledger, chain) : ledger' = v.l
    BY <2>1, SMT DEF ObservedLedgers
  <2>4. Serving
    BY <2>1 DEF Serving
  <2> QED
    BY <1>4, <2>1, <2>2, <2>3, <2>4
<1>7. CASE SyncHighWater
  <2>1. PICK w \in ObservedLedgers :
          /\ ledger' = w.l /\ UNCHANGED <<chain, count, flights>> /\ driver.pc = "sync"
          /\ driver' = IF ~w.ok THEN [driver EXCEPT !.pc = "failed"]
                       ELSE [driver EXCEPT !.pc = "claim", !.claimed = chain.pending,
                                           !.base = chain.pending]
    BY <1>7 DEF SyncHighWater
  <2>2. /\ driver'.pc \in {"failed", "claim"} /\ driver'.atProbe = driver.atProbe
        /\ driver'.pc = "claim" => driver'.base = chain.pending
    BY <1>1, <2>1 DEF Drivers
  <2>3. ledger' = ledger \/ \E v \in reconcile_deal(ledger, chain) : ledger' = v.l
    BY <2>1, SMT DEF ObservedLedgers
  <2>4. Serving
    BY <2>1 DEF Serving
  <2> QED
    BY <1>4, <2>1, <2>2, <2>3, <2>4
<1>8. CASE DecideProbe \/ acceptProbe
  BY <1>1, <1>8 DEF DecideProbe, acceptProbe, ChainInv
<1>9. ASSUME NEW n, NEW target, Confirmed(n, target)
      PROVE  /\ driver'.pc \in {"failed", "claim"} /\ driver'.atProbe = driver.atProbe
             /\ driver'.base = driver.base
  BY <1>1, <1>9 DEF Confirmed, Drivers
<1>10. CASE SubmitClaim \/ ConfirmClaim
  <2>1. /\ UNCHANGED <<chain, count, ledger>> /\ driver.pc \in {"claim", "confirm"} /\ Serving
    BY <1>10 DEF SubmitClaim, ConfirmClaim, Serving
  <2>2. /\ driver'.pc \in {"failed", "claim", "confirm"} /\ driver'.atProbe = driver.atProbe
        /\ driver'.base = driver.base
    BY <1>1, <1>9, <1>10 DEF SubmitClaim, ConfirmClaim, Drivers
  <2>3. NextClaim <= driver.base + count
    <3>1. Subtract(count, driver.atProbe) = count
      BY <1>1, SMT DEF Subtract
    <3>2. /\ driver.claimed \in Nat /\ Funded \in Nat
      BY <1>1, QuotaBounds DEF Drivers
    <3>3. DeliveryTarget \in Nat /\ DeliveryTarget <= driver.base + count
      BY <1>1, <3>1, <3>2, SMT DEF DeliveryTarget, Smaller
    <3> QED
      BY <1>1, <3>2, <3>3, QuotaBounds, SMT DEF NextClaim, Smaller
  <2>4. flights' \subseteq flights \cup {NextClaim}
    BY <1>10 DEF SubmitClaim, ConfirmClaim
  <2>5. \A n \in flights' :
          n \in flights \/ (driver.pc \in {"claim", "confirm"} /\ n <= driver.base + count)
    BY <2>1, <2>3, <2>4
  <2> QED
    BY <1>4, <2>1, <2>2, <2>5
<1>11. CASE ClaimUnconfirmed \/ DriverDone
  <2>1. /\ UNCHANGED <<chain, count, flights>> /\ (ledger' = ledger \/ chain.stopped)
        /\ \E pc \in {"failed", "done"} : driver' = [driver EXCEPT !.pc = pc]
    BY <1>11 DEF ClaimUnconfirmed, DriverDone
  <2>2. driver'.pc \in {"failed", "done"} /\ driver'.atProbe = driver.atProbe
    BY <1>1, <2>1 DEF Drivers
  <2>3. ~Serving'
    BY <2>2 DEF Serving
  <2> QED
    BY <1>4, <2>1, <2>2, <2>3
<1>12. CASE KeeperObserve
  <2>1. /\ UNCHANGED <<chain, count, flights>> /\ Serving
        /\ \E w \in reconcile_deal(ledger, chain) : ledger' = w.l
        /\ \/ driver' = driver
           \/ \E pc \in {"failed", "done"} : driver' = [driver EXCEPT !.pc = pc]
    BY <1>12 DEF KeeperObserve
  <2>2. /\ driver'.pc \in {"failed", "done"} \/ driver' = driver
        /\ driver'.atProbe = driver.atProbe
    BY <1>1, <2>1 DEF Drivers
  <2>3. driver.pc # "off"
    BY <2>1 DEF Serving
  <2> QED
    BY <1>4, <2>1, <2>2, <2>3
<1> QED
  BY <1>5, <1>6, <1>7, <1>8, <1>10, <1>11, <1>12 DEF Driver

\* Every step keeps the file acceptable, where no claim outlives its driver.
LEMMA RestartStep ==
  ASSUME ~LateClaims, DeliveryInv, RestartInv, [Next]_vars
  PROVE  RestartInv'
<1>1. /\ ledger \in Ledgers /\ chain \in Chains /\ ledger.rec \in Records
      /\ ledger.disk \in Records /\ count \in Nat /\ ledger.unper \in Nat
      /\ driver \in Drivers /\ flights \in SUBSET Nat /\ ledger.up \in BOOLEAN
  BY LiveFacts DEF DeliveryInv, DriverTypes
<1>2. CASE Driver \/ KeeperObserve \/ register_stream
  BY <1>2, RestartDriver
<1>3. ASSUME NEW r \in Requests, Relay(r), ~CrashInFinish(r)
      PROVE  RestartInv'
  BY <1>3, RelayEffect, RelayLive, RestartRelay
<1>4. ASSUME NEW disk \in Records, Restarted(disk), NEW k \in Nat,
             ~chain.stopped => Covers(disk, chain, k, driver, flights)
      PROVE  RestartInv'
  <2>1. /\ driver' = Off /\ flights' = {} /\ chain' = chain /\ count' = 0
        /\ ledger' = [ledger EXCEPT !.rec = NoRecord, !.unper = 0, !.up = FALSE,
                                    !.terminal = FALSE, !.disk = disk]
    BY <1>4 DEF Restarted
  <2>2. Off.pc = "off" /\ Off.atProbe = 0
    BY DEF Off
  <2>3. ledger'.up = FALSE /\ ledger'.disk = disk
    BY <1>1, <2>1 DEF Ledgers
  <2>4. ~chain.stopped => Covers(disk, chain, 0, Off, {})
    BY <1>4, <2>2 DEF Covers
  <2> QED
    BY <2>1, <2>2, <2>3, <2>4 DEF RestartInv, Serving
<1>5. CASE Crash
  <2>1. ~chain.stopped => Covers(ledger.disk, chain, count, driver, flights)
    BY DEF RestartInv
  <2> QED
    BY <1>1, <1>4, <1>5, <2>1 DEF Crash
<1>6. ASSUME NEW r \in Requests, CrashInFinish(r)
      PROVE  RestartInv'
  <2>1. PICK f \in flush_delivered(ledger) : f.ok /\ Restarted(f.l.disk)
    BY <1>6 DEF CrashInFinish
  <2>2. Effect(ledger, 0, f)
    BY <1>1, <2>1, FlushOutcome, FlushEffect
  <2>3. /\ f.l.disk \in Records /\ f.gained \in Nat
        /\ \/ Advances(ledger.rec, f.gained, f.l.disk)
           \/ f.l.disk = ledger.disk
    BY <2>2, LedgerFields DEF Effect
  <2>4. ledger.up \/ chain.stopped
    BY <1>6, RelayLive DEF Relay
  <2>5. CASE f.l.disk = ledger.disk
    <3>1. ~chain.stopped => Covers(f.l.disk, chain, count, driver, flights)
      BY <2>5 DEF RestartInv
    <3> QED
      BY <1>1, <1>4, <2>1, <2>3, <3>1
  <2>6. CASE Advances(ledger.rec, f.gained, f.l.disk)
    <3>1. ~chain.stopped => Covers(ledger.rec, chain, count, driver, flights)
      BY <2>4 DEF RestartInv
    <3>2. ~chain.stopped => Covers(f.l.disk, chain, count + f.gained, driver, flights)
      BY <1>1, <2>3, <2>6, <3>1, CoversAdvance
    <3>3. count + f.gained \in Nat
      BY <1>1, <2>3, SMT
    <3> QED
      BY <1>4, <2>1, <2>3, <3>2, <3>3
  <2> QED
    BY <2>3, <2>5, <2>6
<1>7. ASSUME NEW n \in 1..Funded, claimTokens(n)
      PROVE  RestartInv'
  <2>1. /\ n \in flights /\ flights' \subseteq flights
        /\ UNCHANGED <<ledger, count, driver>>
        /\ \/ chain' = chain
           \/ chain' = [chain EXCEPT !.pending = n] /\ n > chain.pending
    BY <1>7 DEF claimTokens
  <2>2. CASE chain' = chain
    <3>1. ASSUME NEW rec, Covers(rec, chain, count, driver, flights)
          PROVE  Covers(rec, chain, count, driver, flights')
      BY <2>1, <3>1 DEF Covers
    <3> QED
      BY <2>1, <2>2, <3>1 DEF RestartInv, Serving
  <2>3. CASE chain' = [chain EXCEPT !.pending = n] /\ n > chain.pending
    <3>1. /\ chain'.pending = n /\ chain'.probe = chain.probe /\ chain'.stopped = chain.stopped
          /\ n \in Nat /\ chain.pending \in Nat
      BY <1>1, <2>3, CapNat, QuotaBounds, SMT DEF Chains
    <3>2. driver.pc \notin {"off", "start", "sync"}
      BY <2>1 DEF RestartInv
    <3>3. ASSUME NEW rec \in Records, Covers(rec, chain, count, driver, flights)
          PROVE  Covers(rec, chain', count, driver, flights')
      <4>1. n <= Done(rec) /\ rec.anchor <= n
        BY <2>1, <2>3, <3>1, <3>3, SMT DEF Covers, Records
      <4> QED
        BY <2>1, <3>1, <3>2, <3>3, <4>1 DEF Covers
    <3> QED
      BY <1>1, <2>1, <3>1, <3>2, <3>3 DEF RestartInv, Serving
  <2> QED
    BY <2>1, <2>2, <2>3
<1>8. CASE settleWeek \/ stop \/ UNCHANGED vars
  <2>1. /\ UNCHANGED <<ledger, count, driver, flights>>
        /\ chain'.pending = chain.pending /\ chain'.probe = chain.probe
        /\ chain.stopped => chain'.stopped
    BY <1>1, <1>8 DEF settleWeek, stop, vars, Chains
  <2>2. ASSUME NEW rec, Covers(rec, chain, count, driver, flights)
        PROVE  Covers(rec, chain', count, driver, flights)
    BY <2>1, <2>2 DEF Covers
  <2> QED
    BY <2>1, <2>2 DEF RestartInv, Serving
<1> QED
  BY <1>2, <1>3, <1>5, <1>6, <1>7, <1>8 DEF Next

\* In a deal past its probe whose claims do not outlive the driver that sent
\* them, a crash at any moment leaves a file that reconcile_deal accepts
\* (capacity.rs), whatever writes failed before.
THEOREM RestartSafe ==
  ASSUME Probed, ~LateClaims
  PROVE  Spec => []RestartAccepted
<1>1. Init => DeliveryInv /\ RestartInv
  <2> SUFFICES ASSUME Init
               PROVE  DeliveryInv /\ RestartInv
    OBVIOUS
  <2>1. DeliveryInv /\ chain \in Chains
    BY DeliveryInit, LiveFacts
  <2>2. /\ chain.probe /\ chain.pending = TICK_SIZE /\ ledger.disk = FreshRecord(chain)
        /\ ledger.up = FALSE /\ driver = Off /\ flights = {} /\ count = 0 /\ chain.week = 0
    BY DEF Init
  <2>3. authoritative_cap(chain) <= Funded
    BY <2>1, <2>2, QuotaBounds, CapNat, SMT DEF authoritative_cap, TermEnded, IsSubscription, Smaller
  <2>4. /\ FreshRecord(chain).anchor = TICK_SIZE /\ FreshRecord(chain).local = 0
        /\ FreshRecord(chain).cap = authoritative_cap(chain)
    BY <2>2 DEF FreshRecord
  <2>5. Covers(ledger.disk, chain, count, driver, flights)
    BY <2>2, <2>3, <2>4, QuotaBounds, SMTT(30) DEF Covers, Done, Off
  <2> QED
    BY <2>1, <2>2, <2>5 DEF RestartInv, Off, Serving
<1>2. DeliveryInv /\ RestartInv /\ [Next]_vars => DeliveryInv' /\ RestartInv'
  BY DeliveryStep, RestartStep
<1>3. DeliveryInv /\ RestartInv => RestartAccepted
  <2> SUFFICES ASSUME DeliveryInv, RestartInv, ~chain.stopped
               PROVE  Reconcilable(ledger.disk, chain)
    BY DEF RestartAccepted
  <2>1. /\ chain \in Chains /\ ledger.disk \in Records /\ Total \in Nat
        /\ Room(ledger.disk, chain, Total)
    BY LiveFacts
  <2>2. /\ Covers(ledger.disk, chain, count, driver, flights) /\ chain.probe
        /\ chain.pending <= authoritative_cap(chain)
    BY DEF RestartInv, DeliveryInv, ChainInv
  <2> QED
    BY <2>1, <2>2, CoveringAccepts
<1> QED
  BY <1>1, <1>2, <1>3, PTL DEF Spec

-----------------------------------------------------------------------------
(* Claims are delivered                                                    *)

Early == {"start", "probe", "accept", "sync"}
Late == {"claim", "confirm"}

\* With the split that waits, everything claimed, in flight or due is within
\* `limit` tokens.
Backed(l, c, k, d, sent, limit) ==
  /\ c.pending + l.unper <= limit
  /\ \A n \in sent : n + l.unper <= limit
  /\ Done(l.rec) + l.unper <= limit /\ Done(l.disk) <= limit
  /\ d.pc \in Early => c.pending + k + l.unper <= limit
  /\ d.pc \in Late => d.base + Subtract(k, d.atProbe) + l.unper <= limit

\* What the probe's acceptance and the bills let the seller claim.
Limit == (IF chain.probe THEN TICK_SIZE ELSE 0) + hist.billed

\* Claims are within what was billed, which was shown; no claim is in flight
\* before the driver submits one.
ClaimInv ==
  /\ Shown
  /\ driver.pc \in Early \cup {"off"} => flights = {}
  /\ Backed(ledger, chain, count, driver, flights, Limit)

\* A request's step raises the limit by what it billed.
LEMMA BackedEffect ==
  ASSUME NEW l \in Ledgers, NEW n \in Nat, NEW w, Effect(l, n, w), l.faults = 0,
         NEW c \in Chains, NEW k \in Nat, NEW d \in Drivers, NEW sent \in SUBSET Nat,
         NEW limit \in Nat, Backed(l, c, k, d, sent, limit)
  PROVE  Backed(w.l, c, k + w.gained, d, sent, limit + n)
<1>1. /\ w.l \in Ledgers /\ w.gained \in Nat
      /\ w.gained + w.l.unper <= l.unper + n
      /\ Done(w.l.rec) + w.l.unper <= Done(l.rec) + l.unper + n
      /\ w.l.disk = l.disk \/ Done(w.l.disk) = Done(w.l.rec)
  BY DEF Effect
<1>2. /\ l.unper \in Nat /\ w.l.unper \in Nat /\ c.pending \in Nat /\ d.base \in Nat
      /\ d.atProbe \in Nat /\ l.rec \in Records /\ w.l.rec \in Records
      /\ l.disk \in Records
  BY <1>1, LedgerFields, CapNat DEF Drivers
<1>3. Done(l.rec) \in Nat /\ Done(w.l.rec) \in Nat /\ Done(l.disk) \in Nat
  BY <1>2, ChangesAdvance
<1>4. w.l.unper <= l.unper + n
  BY <1>1, <1>2, SMTT(30)
<1>5. \A m \in sent : m + w.l.unper <= limit + n
  <2> SUFFICES ASSUME NEW m \in sent
               PROVE  m + w.l.unper <= limit + n
    OBVIOUS
  <2>1. m \in Nat /\ m + l.unper <= limit
    BY DEF Backed
  <2> QED
    BY <1>2, <1>4, <2>1, SMTT(30)
<1>6. /\ c.pending + w.l.unper <= limit + n
      /\ Done(w.l.rec) + w.l.unper <= limit + n
  BY <1>1, <1>2, <1>3, <1>4, SMTT(30) DEF Backed
<1>7. Done(w.l.disk) <= limit + n
  BY <1>1, <1>2, <1>3, <1>6, SMTT(30) DEF Backed
<1>8. d.pc \in Early => c.pending + (k + w.gained) + w.l.unper <= limit + n
  BY <1>1, <1>2, SMTT(30) DEF Backed
<1>9. d.pc \in Late =>
        d.base + Subtract(k + w.gained, d.atProbe) + w.l.unper <= limit + n
  <2> SUFFICES ASSUME d.pc \in Late
               PROVE  d.base + Subtract(k + w.gained, d.atProbe) + w.l.unper <= limit + n
    OBVIOUS
  <2>1. /\ Subtract(k, d.atProbe) \in Nat /\ Subtract(k + w.gained, d.atProbe) \in Nat
        /\ Subtract(k + w.gained, d.atProbe) <= Subtract(k, d.atProbe) + w.gained
    BY <1>1, <1>2, SMTT(30) DEF Subtract
  <2>2. d.base + Subtract(k, d.atProbe) + l.unper <= limit
    BY DEF Backed
  <2> QED
    BY <1>1, <1>2, <2>1, <2>2, SMTT(30)
<1> QED
  BY <1>5, <1>6, <1>7, <1>8, <1>9 DEF Backed

\* The driver's next state asks for no more, and a new claim was due.
LEMMA BackedDriver ==
  ASSUME NEW l \in Ledgers, NEW c \in Chains, NEW k \in Nat, NEW d \in Drivers,
         NEW e \in Drivers, NEW sent \in SUBSET Nat, NEW more \in SUBSET Nat,
         NEW limit \in Nat, Backed(l, c, k, d, sent, limit),
         e.pc \in Early => d.pc \in Early,
         e.pc \in Late =>
           \/ d.pc \in Late /\ e.base = d.base /\ e.atProbe = d.atProbe
           \/ d.pc \in Early /\ e.base = c.pending,
         \A n \in more : n \in sent
                         \/ (d.pc \in Late /\ n <= d.base + Subtract(k, d.atProbe))
  PROVE  Backed(l, c, k, e, more, limit)
<1>1. /\ l.unper \in Nat /\ c.pending \in Nat /\ d.base \in Nat /\ d.atProbe \in Nat
      /\ e.atProbe \in Nat
  BY LedgerFields, CapNat DEF Drivers
<1>2. Subtract(k, d.atProbe) \in Nat /\ Subtract(k, e.atProbe) \in Nat
      /\ Subtract(k, e.atProbe) <= k
  BY <1>1, SMT DEF Subtract
<1>3. \A n \in more : n + l.unper <= limit
  <2> SUFFICES ASSUME NEW n \in more
               PROVE  n + l.unper <= limit
    OBVIOUS
  <2>1. n \in Nat
    OBVIOUS
  <2>2. CASE n \in sent
    BY <2>2 DEF Backed
  <2>3. CASE d.pc \in Late /\ n <= d.base + Subtract(k, d.atProbe)
    <3>1. d.base + Subtract(k, d.atProbe) + l.unper <= limit
      BY <2>3 DEF Backed
    <3> QED
      BY <1>1, <1>2, <2>1, <2>3, <3>1, SMT
  <2> QED
    BY <2>2, <2>3
<1>4. e.pc \in Late => e.base + Subtract(k, e.atProbe) + l.unper <= limit
  <2>1. CASE d.pc \in Late /\ e.base = d.base /\ e.atProbe = d.atProbe
    BY <2>1 DEF Backed
  <2>2. CASE d.pc \in Early /\ e.base = c.pending
    <3>1. c.pending + k + l.unper <= limit
      BY <2>2 DEF Backed
    <3> QED
      BY <1>1, <1>2, <2>2, <3>1, SMT
  <2> QED
    BY <2>1, <2>2
<1>5. e.pc \in Early => c.pending + k + l.unper <= limit
  BY DEF Backed
<1> QED
  BY <1>3, <1>4, <1>5 DEF Backed

\* A reading of the chain, accepted or not, takes nothing from the limit.
LEMMA BackedReading ==
  ASSUME NEW l \in Ledgers, NEW c \in Chains, NEW w \in reconcile_deal(l, c), l.faults = 0,
         NEW k \in Nat, NEW d \in Drivers, NEW sent \in SUBSET Nat,
         NEW limit \in Nat, Backed(l, c, k, d, sent, limit)
  PROVE  /\ Backed(w.l, c, k, d, sent, limit) /\ w.l \in Ledgers
         /\ w.ok = TRUE => w.l.rec.anchor = c.pending
<1>1. /\ l.unper \in Nat /\ c.pending \in Nat /\ d.base \in Nat /\ d.atProbe \in Nat
      /\ l.rec \in Records /\ l.disk \in Records
  BY LedgerFields, CapNat DEF Drivers
<1>2. Done(l.rec) \in Nat /\ Done(l.disk) \in Nat /\ Subtract(k, d.atProbe) \in Nat
  BY <1>1, ChangesAdvance, SMTT(30) DEF Subtract
<1>3. ASSUME NEW m \in Ledgers, m.unper <= l.unper, Done(m.rec) + m.unper <= limit,
             Done(m.disk) <= limit
      PROVE  Backed(m, c, k, d, sent, limit)
  <2>1. m.unper \in Nat
    BY LedgerFields
  <2>2. \A n \in sent : n + m.unper <= limit
    <3> SUFFICES ASSUME NEW n \in sent
                 PROVE  n + m.unper <= limit
      OBVIOUS
    <3>1. n \in Nat /\ n + l.unper <= limit
      BY DEF Backed
    <3> QED
      BY <1>1, <1>3, <2>1, <3>1, SMT
  <2>3. /\ c.pending + m.unper <= limit
        /\ d.pc \in Early => c.pending + k + m.unper <= limit
        /\ d.pc \in Late => d.base + Subtract(k, d.atProbe) + m.unper <= limit
    BY <1>1, <1>2, <1>3, <2>1, SMTT(30) DEF Backed
  <2> QED
    BY <1>3, <2>2, <2>3 DEF Backed
<1>4. CASE c.stopped
  <2>1. w.l = mark_terminal(l) /\ w.ok = FALSE
    BY <1>4, SMT DEF reconcile_deal
  <2>2. w.l \in Ledgers /\ w.l.rec = l.rec /\ w.l.unper = l.unper
    BY <2>1, ClosedFacts
  <2>3. w.l.disk = NoRecord
    BY <2>1 DEF mark_terminal, Ledgers
  <2>4. Done(w.l.disk) = 0
    BY <2>3, SMTT(30) DEF Done, NoRecord
  <2>5. Done(w.l.rec) + w.l.unper <= limit
    BY <2>2 DEF Backed
  <2> QED
    BY <1>1, <1>3, <2>1, <2>2, <2>4, <2>5, SMTT(30)
<1>5. CASE ~c.stopped
  <2> DEFINE e == LoadEntry(l, c)
             new == ReconciledRecord(e.rec, c)
  <2>1. /\ e \in Ledgers /\ e.disk = l.disk /\ e.faults = l.faults
        /\ \/ l.up = TRUE /\ e = l
           \/ /\ e.unper = 0
              /\ e.rec = (IF l.disk = NoRecord THEN FreshRecord(c) ELSE l.disk)
    BY LoadFacts, ZenonT(30)
  <2>2. /\ SameEntry(e, w.l) /\ w.l.unper = e.unper
        /\ \/ w.ok = FALSE /\ w.l = e
           \/ /\ w.ok = TRUE /\ Reconcilable(e.rec, c) /\ w.l.rec = new
              /\ w.l.disk = new \/ w.l.disk = e.disk
           \/ w.ok = FALSE /\ WriteFailed(e, w.l, new)
    BY <1>5, ReconcileOutcome
  <2> HIDE DEF e
  <2>3. e.rec \in Records /\ e.unper \in Nat /\ w.l \in Ledgers /\ w.l.faults \in Nat
    BY <2>1, <2>2, LedgerFields DEF SameEntry
  <2>4. Done(FreshRecord(c)) = c.pending
    BY <1>1, SMTT(30) DEF Done, FreshRecord
  <2>5. e.unper <= l.unper /\ Done(e.rec) + e.unper <= limit /\ Done(e.rec) \in Nat
    <3>1. c.pending <= limit /\ Done(l.disk) <= limit /\ Done(l.rec) + l.unper <= limit
      BY <1>1, SMTT(30) DEF Backed
    <3> QED
      BY <1>1, <1>2, <2>1, <2>4, <3>1, SMTT(30)
  <2>6. Reconcilable(e.rec, c) =>
          new.anchor = c.pending /\ (Done(new) = Done(e.rec) \/ Done(new) = c.pending)
    <3> SUFFICES ASSUME Reconcilable(e.rec, c)
                 PROVE  new.anchor = c.pending /\ (Done(new) = Done(e.rec) \/ Done(new) = c.pending)
      OBVIOUS
    <3>1. /\ new.anchor = c.pending
          /\ new.anchor + new.local = e.rec.anchor + e.rec.local \/ new.local = 0
      BY <2>3, ReconciledFacts
    <3> HIDE DEF new
    <3> QED
      BY <1>1, <3>1, SMTT(30) DEF Done
  <2> HIDE DEF new
  <2>7. ~WriteFailed(e, w.l, new)
    BY <2>1, <2>3, SMTT(30) DEF WriteFailed
  <2>8. c.pending + e.unper <= limit
    BY <1>1, <2>3, <2>5, SMT DEF Backed
  <2>9. Done(w.l.rec) + w.l.unper <= limit
    BY <2>2, <2>5, <2>6, <2>7, <2>8
  <2>10. Done(w.l.disk) <= limit
    <3>1. Done(w.l.disk) = Done(w.l.rec) \/ w.l.disk = l.disk
      BY <2>1, <2>2, <2>7
    <3>2. Done(w.l.rec) \in Nat
      BY <2>3, LedgerFields, ChangesAdvance
    <3>3. CASE Done(w.l.disk) = Done(w.l.rec)
      <4>1. w.l.unper \in Nat
        BY <2>2, <2>3
      <4> QED
        BY <2>9, <3>2, <3>3, <4>1, SMT
    <3>4. CASE w.l.disk = l.disk
      BY <3>4 DEF Backed
    <3> QED
      BY <3>1, <3>3, <3>4
  <2> QED
    BY <1>3, <2>2, <2>3, <2>5, <2>6, <2>9, <2>10
<1> QED
  BY <1>4, <1>5

\* The facts about a state that every case below uses.
LEMMA ClaimFacts ==
  ASSUME MaxFaults = 0, DeliveryInv
  PROVE  /\ ledger \in Ledgers /\ chain \in Chains /\ count \in Nat /\ driver \in Drivers
         /\ flights \in SUBSET Nat /\ Limit \in Nat /\ AllOwed \in Nat
         /\ hist.billed \in Nat /\ hist.shown \in Nat /\ chain.pending \in Nat
         /\ ledger.faults = 0 /\ DriverTypes /\ ChainInv
<1>1. /\ ledger \in Ledgers /\ chain \in Chains /\ chain.pending \in Nat
      /\ hist.billed \in Nat /\ hist.shown \in Nat /\ request \in [Requests -> Slots]
      /\ TICK_SIZE \in Nat /\ DriverTypes /\ ChainInv
  BY CapNat, QuotaBounds DEF DeliveryInv, LedgerInv, LedgerTypes, Histories
<1>2. ledger.faults \in Nat /\ ledger.faults <= MaxFaults
  BY <1>1, LedgerFields DEF DeliveryInv, LedgerInv
<1>3. ledger.faults = 0
  BY <1>2, SMT
<1>4. AllOwed \in Nat
  BY <1>1, OwedNat
<1> QED
  BY <1>1, <1>3, <1>4, SMT DEF Limit, DriverTypes

\* The driver claims no more than was billed.
LEMMA ClaimDriver ==
  ASSUME MaxFaults = 0, DeliveryInv, ClaimInv, Driver \/ KeeperObserve \/ register_stream
  PROVE  ClaimInv'
<1>1. /\ ledger \in Ledgers /\ chain \in Chains /\ count \in Nat /\ driver \in Drivers
      /\ flights \in SUBSET Nat /\ Limit \in Nat /\ ledger.faults = 0
      /\ chain.pending \in Nat /\ ChainInv
      /\ Backed(ledger, chain, count, driver, flights, Limit)
  BY ClaimFacts DEF ClaimInv
<1>2. DriverTypes'
  BY DriverKeeps
<1>3. driver' \in Drivers /\ flights' \in SUBSET Nat /\ count' \in Nat
  BY <1>2 DEF DriverTypes
<1>4. UNCHANGED <<request, hist>>
  BY DEF Driver, DriverStart, DecideProbe, acceptProbe, SyncHighWater, SubmitClaim,
         ConfirmClaim, ClaimUnconfirmed, DriverDone, KeeperObserve, register_stream
<1>5. Shown'
  BY <1>4 DEF ClaimInv, Shown, AllOwed, Owed
\* What is left to show of a step that leaves contract and counter alone.
<1>6. ASSUME UNCHANGED <<chain, count>>,
             driver'.pc # "off",
             driver'.pc \in Early => driver.pc \in Early /\ flights' = flights,
             driver'.pc \in Late =>
               \/ driver.pc \in Late /\ driver'.base = driver.base
                  /\ driver'.atProbe = driver.atProbe
               \/ driver.pc \in Early /\ driver'.base = chain.pending,
             \A n \in flights' :
               n \in flights
               \/ (driver.pc \in Late /\ n <= driver.base + Subtract(count, driver.atProbe)),
             \/ ledger' = ledger
             \/ \E w \in reconcile_deal(ledger, chain) : ledger' = w.l
      PROVE  ClaimInv'
  <2>1. ledger' \in Ledgers /\ Backed(ledger', chain, count, driver, flights, Limit)
    <3>1. CASE ledger' = ledger
      BY <1>1, <3>1
    <3>2. ASSUME NEW w \in reconcile_deal(ledger, chain), ledger' = w.l
          PROVE  ledger' \in Ledgers /\ Backed(ledger', chain, count, driver, flights, Limit)
      BY <1>1, <3>2, BackedReading
    <3> QED
      BY <1>6, <3>1, <3>2
  <2>2. Backed(ledger', chain, count, driver', flights', Limit)
    BY <1>1, <1>3, <1>6, <2>1, BackedDriver
  <2>3. Limit' = Limit
    BY <1>4, <1>6 DEF Limit
  <2>4. driver'.pc \in Early \cup {"off"} => flights' = {}
    BY <1>6 DEF ClaimInv
  <2> QED
    BY <1>5, <1>6, <2>2, <2>3, <2>4 DEF ClaimInv
<1>7. CASE register_stream
  <2>1. PICK w \in reconcile_deal(ledger, chain) :
          /\ ledger' = w.l /\ count' = IF w.ok THEN w.l.rec.local ELSE 0
          /\ driver' = [driver EXCEPT !.pc = IF w.ok THEN "start" ELSE "failed"]
          /\ UNCHANGED <<chain, flights>> /\ driver.pc = "off"
    BY <1>7 DEF register_stream
  <2>2. driver'.pc = (IF w.ok THEN "start" ELSE "failed")
    BY <1>1, <2>1 DEF Drivers
  <2>3. flights = {} /\ flights' = {} /\ chain' = chain
    BY <2>1 DEF ClaimInv
  <2>4. /\ Backed(ledger', chain, count, driver, flights, Limit) /\ ledger' \in Ledgers
        /\ w.ok = TRUE => ledger'.rec.anchor = chain.pending
    BY <1>1, <2>1, BackedReading
  <2>5. Limit' = Limit
    BY <1>4, <2>3 DEF Limit
  <2>6. driver'.pc \in Early => chain.pending + count' + ledger'.unper <= Limit
    <3> SUFFICES ASSUME driver'.pc \in Early
                 PROVE  chain.pending + count' + ledger'.unper <= Limit
      OBVIOUS
    <3>1. w.ok
      BY <2>2 DEF Early
    <3>2. count' = ledger'.rec.local /\ ledger'.rec.anchor = chain.pending
      BY <2>1, <2>4, <3>1
    <3>3. Done(ledger'.rec) + ledger'.unper <= Limit
      BY <2>4 DEF Backed
    <3> QED
      BY <3>2, <3>3 DEF Done
  <2>7. driver'.pc \notin Late
    BY <2>2 DEF Late
  <2>8. Backed(ledger', chain, count', driver', flights, Limit)
    BY <2>4, <2>6, <2>7 DEF Backed
  <2> QED
    BY <1>5, <2>3, <2>5, <2>8 DEF ClaimInv
<1>8. CASE DriverStart
  <2>1. PICK w \in ObservedLedgers :
          /\ ledger' = w.l /\ UNCHANGED <<chain, count, flights>> /\ driver.pc = "start"
          /\ driver' = [driver EXCEPT !.pc = IF ~w.ok THEN "failed"
                                             ELSE IF chain.probe THEN "sync" ELSE "probe"]
    BY <1>8 DEF DriverStart
  <2>2. driver'.pc \in {"failed", "sync", "probe"}
    BY <1>1, <2>1 DEF Drivers
  <2>3. ledger' = ledger \/ \E v \in reconcile_deal(ledger, chain) : ledger' = v.l
    BY <2>1, SMT DEF ObservedLedgers
  <2> QED
    BY <1>6, <2>1, <2>2, <2>3 DEF Early, Late
<1>9. CASE SyncHighWater
  <2>1. PICK w \in ObservedLedgers :
          /\ ledger' = w.l /\ UNCHANGED <<chain, count, flights>> /\ driver.pc = "sync"
          /\ driver' = IF ~w.ok THEN [driver EXCEPT !.pc = "failed"]
                       ELSE [driver EXCEPT !.pc = "claim", !.claimed = chain.pending,
                                           !.base = chain.pending]
    BY <1>9 DEF SyncHighWater
  <2>2. /\ driver'.pc \in {"failed", "claim"}
        /\ driver'.pc = "claim" => driver'.base = chain.pending
    BY <1>1, <2>1 DEF Drivers
  <2>3. ledger' = ledger \/ \E v \in reconcile_deal(ledger, chain) : ledger' = v.l
    BY <2>1, SMT DEF ObservedLedgers
  <2> QED
    BY <1>6, <2>1, <2>2, <2>3 DEF Early, Late
<1>10. CASE DecideProbe
  <2>1. driver'.pc = "accept" /\ driver.pc = "probe"
    BY <1>1, <1>10 DEF DecideProbe, Drivers
  <2> QED
    BY <1>6, <1>10, <2>1 DEF DecideProbe, Early, Late
<1>11. CASE acceptProbe
  <2>1. /\ driver.pc = "accept" /\ UNCHANGED <<flights, ledger, count>>
        /\ chain' = [chain EXCEPT !.probe = TRUE, !.pending = TICK_SIZE, !.base = 0]
        /\ driver' = [driver EXCEPT !.pc = "sync"]
    BY <1>11 DEF acceptProbe
  <2>2. ~chain.probe /\ chain.pending = 0
    BY <1>1, <2>1 DEF ChainInv
  <2>3. /\ chain'.probe /\ chain'.pending = TICK_SIZE /\ driver'.pc = "sync"
    BY <1>1, <2>1 DEF Chains, Drivers
  <2>4. flights' = {} /\ TICK_SIZE \in Nat /\ ledger.unper \in Nat
    BY <1>1, <2>1, QuotaBounds, LedgerFields DEF ClaimInv, Early
  <2>5. hist.billed \in Nat
    BY ClaimFacts
  <2>6. Limit = hist.billed /\ Limit' = TICK_SIZE + hist.billed
    BY <1>4, <2>2, <2>3, <2>5, SMT DEF Limit
  <2>7. /\ count + ledger.unper <= hist.billed
        /\ Done(ledger.rec) + ledger.unper <= hist.billed
        /\ Done(ledger.disk) <= hist.billed
    BY <1>1, <2>1, <2>2, <2>6, SMT DEF Backed, Early
  <2>8. Done(ledger.rec) \in Nat /\ Done(ledger.disk) \in Nat
    BY <1>1, LedgerFields, ChangesAdvance
  <2>9. /\ TICK_SIZE + ledger.unper <= TICK_SIZE + hist.billed
        /\ Done(ledger.rec) + ledger.unper <= TICK_SIZE + hist.billed
        /\ Done(ledger.disk) <= TICK_SIZE + hist.billed
        /\ TICK_SIZE + count + ledger.unper <= TICK_SIZE + hist.billed
    BY <1>1, <2>4, <2>5, <2>7, <2>8, SMTT(30)
  <2>10. Backed(ledger, chain', count, driver', {}, TICK_SIZE + hist.billed)
    BY <2>3, <2>9 DEF Backed, Early, Late
  <2> QED
    BY <1>5, <2>1, <2>4, <2>6, <2>10 DEF ClaimInv
<1>12. ASSUME NEW n, NEW target, Confirmed(n, target)
       PROVE  /\ driver'.pc \in {"failed", "claim"} /\ driver'.atProbe = driver.atProbe
              /\ driver'.base = driver.base
  BY <1>1, <1>12 DEF Confirmed, Drivers
<1>13. CASE SubmitClaim \/ ConfirmClaim
  <2>1. UNCHANGED <<chain, count, ledger>> /\ driver.pc \in Late
    BY <1>13 DEF SubmitClaim, ConfirmClaim, Late
  <2>2. /\ driver'.pc \in {"failed", "claim", "confirm"} /\ driver'.atProbe = driver.atProbe
        /\ driver'.base = driver.base
    BY <1>1, <1>12, <1>13 DEF SubmitClaim, ConfirmClaim, Drivers
  <2>3. NextClaim <= driver.base + Subtract(count, driver.atProbe)
    <3>1. driver.claimed \in Nat /\ driver.base \in Nat /\ driver.atProbe \in Nat
          /\ Funded \in Nat /\ TICK_SIZE \in Nat
      BY <1>1, QuotaBounds DEF Drivers
    <3>2. Subtract(count, driver.atProbe) \in Nat
      BY <1>1, <3>1, SMT DEF Subtract
    <3>3. DeliveryTarget \in Nat
          /\ DeliveryTarget <= driver.base + Subtract(count, driver.atProbe)
      BY <3>1, <3>2, SMT DEF DeliveryTarget, Smaller
    <3> QED
      BY <3>1, <3>2, <3>3, SMT DEF NextClaim, Smaller
  <2>4. flights' \subseteq flights \cup {NextClaim}
    BY <1>13 DEF SubmitClaim, ConfirmClaim
  <2>5. \A n \in flights' :
          n \in flights
          \/ (driver.pc \in Late /\ n <= driver.base + Subtract(count, driver.atProbe))
    BY <2>1, <2>3, <2>4
  <2>6. driver'.pc \notin Early /\ driver'.pc # "off"
    BY <2>2 DEF Early
  <2> QED
    BY <1>6, <2>1, <2>2, <2>5, <2>6
<1>14. CASE ClaimUnconfirmed \/ DriverDone
  <2>1. /\ UNCHANGED <<chain, count, flights>>
        /\ ledger' = ledger \/ (chain.stopped /\ ledger' = mark_terminal(ledger))
        /\ \E pc \in {"failed", "done"} : driver' = [driver EXCEPT !.pc = pc]
    BY <1>14 DEF ClaimUnconfirmed, DriverDone, ClosedLedger
  <2>2. driver'.pc \in {"failed", "done"}
    BY <1>1, <2>1 DEF Drivers
  <2>3. ledger' = ledger \/ \E v \in reconcile_deal(ledger, chain) : ledger' = v.l
    BY <2>1 DEF reconcile_deal
  <2> QED
    BY <1>6, <2>1, <2>2, <2>3 DEF Early, Late
<1>15. CASE KeeperObserve
  <2>1. /\ UNCHANGED <<chain, count, flights>> /\ driver.pc # "off"
        /\ \E w \in reconcile_deal(ledger, chain) : ledger' = w.l
        /\ \/ driver' = driver
           \/ \E pc \in {"failed", "done"} : driver' = [driver EXCEPT !.pc = pc]
    BY <1>15 DEF KeeperObserve, Serving
  <2>2. driver'.pc \in {"failed", "done"} \/ driver' = driver
    BY <1>1, <2>1 DEF Drivers
  <2> QED
    BY <1>6, <2>1, <2>2 DEF Early, Late
<1> QED
  BY <1>7, <1>8, <1>9, <1>10, <1>11, <1>13, <1>14, <1>15 DEF Driver

\* Every step keeps the claims within the bills, where no write fails and no
\* claim outlives its driver.
LEMMA ClaimStep ==
  ASSUME ~LateClaims, MaxFaults = 0, DeliveryInv, ClaimInv, [Next]_vars
  PROVE  ClaimInv'
<1>1. /\ ledger \in Ledgers /\ chain \in Chains /\ count \in Nat /\ driver \in Drivers
      /\ flights \in SUBSET Nat /\ Limit \in Nat /\ ledger.faults = 0
      /\ chain.pending \in Nat /\ AllOwed \in Nat /\ hist.billed \in Nat /\ hist.shown \in Nat
      /\ Backed(ledger, chain, count, driver, flights, Limit)
  BY ClaimFacts DEF ClaimInv
<1>2. CASE Driver \/ KeeperObserve \/ register_stream
  BY <1>2, ClaimDriver
<1>3. ASSUME NEW r \in Requests, Relay(r), ~CrashInFinish(r)
      PROVE  ClaimInv'
  <2>1. UNCHANGED <<chain, flights, driver>> /\ StepEffect
    BY <1>3, RelayEffect
  <2>2. PICK n \in Nat : \E w : /\ Effect(ledger, n, w) /\ ledger' = w.l
                                /\ count' = count + w.gained /\ hist'.billed = hist.billed + n
    BY <2>1 DEF StepEffect
  <2>3. PICK w : /\ Effect(ledger, n, w) /\ ledger' = w.l
                 /\ count' = count + w.gained /\ hist'.billed = hist.billed + n
    BY <2>2
  <2>4. Backed(ledger', chain, count', driver, flights, Limit + n)
    BY <1>1, <2>3, BackedEffect
  <2>5. Limit' = Limit + n
    BY <1>1, <2>1, <2>3, QuotaBounds, SMT DEF Limit
  <2>6. Shown'
    BY <2>1 DEF StepEffect, ClaimInv
  <2> QED
    BY <2>1, <2>4, <2>5, <2>6 DEF ClaimInv
<1>4. ASSUME NEW disk \in Records, Restarted(disk), Done(disk) <= Limit
      PROVE  ClaimInv'
  <2>1. /\ driver' = Off /\ flights' = {} /\ chain' = chain /\ count' = 0
        /\ ledger' = [ledger EXCEPT !.rec = NoRecord, !.unper = 0, !.up = FALSE,
                                    !.terminal = FALSE, !.disk = disk]
        /\ request' = [r \in Requests |-> Idle]
        /\ hist' = [hist EXCEPT !.crashes = @ + 1, !.clean = FALSE]
    BY <1>4 DEF Restarted
  <2>2. /\ ledger'.rec = NoRecord /\ ledger'.unper = 0 /\ ledger'.disk = disk
        /\ Off.pc = "off"
    BY <1>1, <2>1 DEF Ledgers, Off
  <2>3. hist'.billed = hist.billed /\ hist'.shown = hist.shown
    BY <2>1, HistoryCrash DEF DeliveryInv, LedgerInv, LedgerTypes
  <2>4. Limit' = Limit
    BY <2>1, <2>3 DEF Limit
  <2>5. Done(NoRecord) = 0
    BY SMT DEF Done, NoRecord
  <2>6. chain.pending <= Limit
    <3>1. ledger.unper \in Nat
      BY <1>1, LedgerFields, ZenonT(30)
    <3> QED
      BY <1>1, <3>1, SMT DEF Backed
  <2>7. Backed(ledger', chain, 0, Off, {}, Limit)
    BY <1>1, <1>4, <2>2, <2>5, <2>6, SMTT(30) DEF Backed, Early, Late
  <2>8. AllOwed' = 0
    <3>1. request' \in [Requests -> Slots] /\ \A r \in Requests : request'[r].owed = 0
      BY <2>1 DEF Slots, Idle
    <3>2. \A r \in Requests : Owed'[r] = 0
      BY <3>1 DEF Owed
    <3> QED
      BY <3>2, SumZero, DeliveryConstants DEF AllOwed
  <2>9. Shown'
    BY <1>1, <2>3, <2>8, SMT DEF Shown, ClaimInv
  <2> QED
    BY <2>1, <2>4, <2>7, <2>9 DEF ClaimInv
<1>5. CASE Crash
  <2>1. ledger.disk \in Records /\ Done(ledger.disk) <= Limit
    BY <1>1, LedgerFields DEF Backed
  <2> QED
    BY <1>4, <1>5, <2>1 DEF Crash
<1>6. ASSUME NEW r \in Requests, CrashInFinish(r)
      PROVE  ClaimInv'
  <2>1. PICK f \in flush_delivered(ledger) : f.ok /\ Restarted(f.l.disk)
    BY <1>6 DEF CrashInFinish
  <2>2. Effect(ledger, 0, f)
    BY <1>1, <2>1, FlushOutcome, FlushEffect, ZenonT(30)
  <2>3. Backed(f.l, chain, count + f.gained, driver, flights, Limit + 0)
    <3>1. 0 \in Nat
      BY SMTT(20)
    <3> QED
      BY <1>1, <2>2, <3>1, BackedEffect
  <2>4. f.l.disk \in Records /\ Done(f.l.disk) <= Limit
    BY <1>1, <2>2, <2>3, LedgerFields, SMTT(30) DEF Effect, Backed
  <2> QED
    BY <1>4, <2>1, <2>4
<1>7. ASSUME NEW n \in 1..Funded, claimTokens(n)
      PROVE  ClaimInv'
  <2>1. /\ n \in flights /\ flights' \subseteq flights
        /\ UNCHANGED <<ledger, count, driver, hist, request>>
        /\ chain' = chain \/ chain' = [chain EXCEPT !.pending = n]
    BY <1>7 DEF claimTokens
  <2>2. Shown'
    BY <2>1 DEF ClaimInv, Shown, AllOwed, Owed
  <2>3. driver.pc \notin Early \cup {"off"}
    BY <2>1 DEF ClaimInv
  <2>4. /\ chain'.probe = chain.probe /\ chain'.pending \in {chain.pending, n}
    BY <1>1, <2>1 DEF Chains
  <2>5. Backed(ledger, chain', count, driver, flights', Limit)
    BY <1>1, <2>1, <2>3, <2>4 DEF Backed
  <2>6. Limit' = Limit
    BY <2>1, <2>4 DEF Limit
  <2> QED
    BY <2>1, <2>2, <2>3, <2>5, <2>6 DEF ClaimInv
<1>8. CASE settleWeek \/ stop \/ UNCHANGED vars
  <2>1. /\ UNCHANGED <<ledger, count, driver, flights, request, hist>>
        /\ chain'.pending = chain.pending /\ chain'.probe = chain.probe
    BY <1>1, <1>8 DEF settleWeek, stop, vars, Chains
  <2>2. Shown'
    BY <2>1 DEF ClaimInv, Shown, AllOwed, Owed
  <2>3. Backed(ledger, chain', count, driver, flights, Limit)
    BY <1>1, <2>1 DEF Backed
  <2>4. Limit' = Limit
    BY <2>1 DEF Limit
  <2> QED
    BY <2>1, <2>2, <2>3, <2>4 DEF ClaimInv
<1> QED
  BY <1>2, <1>3, <1>5, <1>6, <1>7, <1>8 DEF Next

\* Where the capacity file is always written and no claim outlives its driver,
\* the seller claims nothing beyond the probe's tick that it did not deliver
\* (the claim driver's target against the counter of the ledger), over any number
\* of requests, crashes and resumed sessions.
THEOREM ClaimsAreDelivered ==
  ASSUME ~LateClaims, MaxFaults = 0
  PROVE  Spec => []ClaimsDelivered
<1>1. Init => DeliveryInv /\ ClaimInv
  <2> SUFFICES ASSUME Init
               PROVE  DeliveryInv /\ ClaimInv
    OBVIOUS
  <2>1. DeliveryInv
    BY DeliveryInit
  <2>2. /\ ledger \in Ledgers /\ chain \in Chains /\ chain.pending \in Nat
    BY <2>1, ClaimFacts
  <2>3. /\ chain.pending = IF chain.probe THEN TICK_SIZE ELSE 0
        /\ ledger.rec = NoRecord /\ ledger.unper = 0 /\ driver = Off /\ flights = {}
        /\ ledger.disk = NoRecord \/ ledger.disk = FreshRecord(chain)
        /\ hist.billed = 0 /\ hist.shown = 0 /\ request = [r \in Requests |-> Idle]
    BY DEF Init
  <2>4. Limit = chain.pending
    BY <2>2, <2>3, SMT DEF Limit
  <2>5. Done(NoRecord) = 0 /\ Done(FreshRecord(chain)) = chain.pending
    BY <2>2, SMT DEF Done, NoRecord, FreshRecord
  <2>6. Done(ledger.disk) <= chain.pending
    BY <2>2, <2>3, <2>5, SMT
  <2>7. Off.pc = "off"
    BY DEF Off
  <2>8. Backed(ledger, chain, count, driver, flights, Limit)
    BY <2>2, <2>3, <2>4, <2>5, <2>6, <2>7, SMT DEF Backed, Early, Late
  <2>9. \A r \in Requests : Owed[r] = 0
    BY <2>3 DEF Owed, Idle
  <2>10. AllOwed = 0
    BY <2>9, SumZero, DeliveryConstants DEF AllOwed
  <2>11. Shown
    BY <2>3, <2>10, SMT DEF Shown
  <2> QED
    BY <2>1, <2>3, <2>8, <2>11 DEF ClaimInv
<1>2. DeliveryInv /\ ClaimInv /\ [Next]_vars => DeliveryInv' /\ ClaimInv'
  BY DeliveryStep, ClaimStep
<1>3. DeliveryInv /\ ClaimInv => ClaimsDelivered
  <2> SUFFICES ASSUME DeliveryInv, ClaimInv
               PROVE  ClaimsDelivered
    OBVIOUS
  <2>1. /\ ledger.unper \in Nat /\ chain.pending \in Nat /\ AllOwed \in Nat
        /\ hist.billed \in Nat /\ hist.shown \in Nat /\ TICK_SIZE \in Nat
    BY ClaimFacts, LedgerFields, QuotaBounds
  <2>2. chain.pending + ledger.unper <= Limit /\ hist.billed + AllOwed <= hist.shown
    BY DEF ClaimInv, Backed, Shown
  <2>3. Limit <= TICK_SIZE + hist.billed /\ Limit \in Nat
    BY <2>1, SMT DEF Limit
  <2> QED
    BY <2>1, <2>2, <2>3, SMT DEF ClaimsDelivered
<1> QED
  BY <1>1, <1>2, <1>3, PTL DEF Spec
=============================================================================
