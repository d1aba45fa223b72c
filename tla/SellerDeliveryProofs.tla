------------------------ MODULE SellerDeliveryProofs ------------------------
(***************************************************************************)
(* What the seller's capacity ledger keeps for one deal, proved for every  *)
(* size of the deal, any number of request slots, crashes and failed       *)
(* writes: live reservations are covered, nothing is billed beyond the     *)
(* deal's cap, and clean streams leave nothing behind (DeliveryAlways and  *)
(* its corollaries).                                                       *)
(*                                                                         *)
(* A leaf is Zenon's unless it names another prover.                       *)
(***************************************************************************)
EXTENDS SellerDelivery, SumLemmas

USE Zenon

Records == [cap : Nat, anchor : Nat, local : Nat, reserved : Nat]

Ledgers == [rec : Records, unper : Nat, up : BOOLEAN, terminal : BOOLEAN,
            disk : Records, faults : Nat]

Chains == [probe : BOOLEAN, pending : Nat, week : Nat, base : Nat, stopped : BOOLEAN]

Slots == [phase : {"idle", "open", "exact", "ambiguous"}, remaining : Nat,
          charged : Nat, owed : Nat]

\* What the live requests hold together.
AllHeld == SumFunctionOnSet(Held, Requests)

AllIdle == \A r \in Requests : request[r] = Idle

-----------------------------------------------------------------------------
(* Sums over the request slots                                             *)

\* The slots hold natural numbers, and so does their sum.
LEMMA HeldNat ==
  ASSUME request \in [Requests -> Slots]
  PROVE  Held \in [Requests -> Int] /\ AllHeld \in Nat
<1>1. \A r \in Requests : Held[r] \in Nat
  BY DEF Held, Slots
<1>2. Finite(Requests)
  BY DeliveryConstants
<1>3. SumFunctionOnSet(Held, Requests) \in Nat
  BY <1>1, <1>2, SumNat
<1> QED
  BY <1>3, SMT DEF Held, Slots, AllHeld

\* Idle slots hold nothing.
LEMMA HeldNone ==
  ASSUME AllIdle
  PROVE  AllHeld = 0
<1>1. \A r \in Requests : Held[r] = 0
  BY SMT DEF Held, AllIdle, Idle
<1>2. Finite(Requests)
  BY DeliveryConstants
<1> QED
  BY <1>1, <1>2, SumZero DEF AllHeld

\* A step that writes one slot moves the sum by that slot's change.
LEMMA HeldChange ==
  ASSUME request \in [Requests -> Slots], NEW r \in Requests, NEW q \in Slots,
         request' = [request EXCEPT ![r] = q]
  PROVE  /\ request' \in [Requests -> Slots]
         /\ AllHeld' = AllHeld + (q.remaining - request[r].remaining)
         /\ request'[r] = q
         /\ AllHeld \in Nat /\ AllHeld' \in Nat
<1>1. request' \in [Requests -> Slots]
  OBVIOUS
<1>2. Held \in [Requests -> Int] /\ AllHeld \in Nat
  BY HeldNat
<1>3. Held' \in [Requests -> Int]
  BY <1>1, SMT DEF Held, Slots
<1>4. \A s \in Requests : Held'[s] \in Nat
  BY <1>1 DEF Held, Slots
<1>5. \A s \in Requests \ {r} : Held[s] = Held'[s]
  BY DEF Held
<1>6. Held[r] = request[r].remaining /\ Held'[r] = q.remaining
  BY DEF Held
<1>7. Finite(Requests)
  BY DeliveryConstants
<1>8. SumFunctionOnSet(Held', Requests)
        = SumFunctionOnSet(Held, Requests) + (Held'[r] - Held[r])
  BY <1>2, <1>3, <1>5, <1>7, SumChange, ZenonT(30)
<1>9. SumFunctionOnSet(Held', Requests) \in Nat
  BY <1>4, <1>7, SumNat
<1> QED
  BY <1>1, <1>2, <1>6, <1>8, <1>9 DEF AllHeld

\* A step that leaves the slots alone leaves the sum alone.
LEMMA HeldSame ==
  ASSUME request' = request
  PROVE  AllHeld' = AllHeld /\ (AllIdle' <=> AllIdle)
BY DEF AllHeld, Held, AllIdle

-----------------------------------------------------------------------------
(* What each ledger operation can return                                   *)

\* The entry stays what it was: neither loaded nor closed, and no fault is added.
SameEntry(l, k) ==
  k \in Ledgers /\ k.up = l.up /\ k.terminal = l.terminal /\ k.faults <= l.faults

\* A write of `new` failed: only the file may have moved.
WriteFailed(l, k, new) ==
  /\ k.rec = l.rec /\ k.unper = l.unper
  /\ k.disk \in {l.disk, new} /\ k.faults < l.faults

\* n reserved tokens become delivered, released, or newly reserved.
Split(rec, n) == [rec EXCEPT !.reserved = @ - n, !.local = @ + n]
Freed(rec, n) == [rec EXCEPT !.reserved = @ - n]
Grown(rec, n) == [rec EXCEPT !.reserved = @ + n]

\* The record after the split that waits is written.
Moved(l) == Split(l.rec, l.unper)

\* What the operations can return, w.l being the ledger they leave.
FlushResult(l, w) ==
  /\ SameEntry(l, w.l)
  /\ \/ /\ w.ok = TRUE /\ w.gained = l.unper /\ w.l.unper = 0 /\ w.l.faults = l.faults
        /\ l.unper <= l.rec.reserved /\ w.l.rec = Moved(l)
        /\ w.l.disk = Moved(l) \/ (l.unper = 0 /\ w.l.disk = l.disk)
     \/ /\ w.ok = FALSE /\ w.gained = 0
        /\ \/ w.l = l /\ l.unper > l.rec.reserved
           \/ WriteFailed(l, w.l, Moved(l)) /\ l.unper <= l.rec.reserved

ReserveResult(l, n, w) ==
  /\ SameEntry(l, w.l) /\ w.gained = 0
  /\ \/ /\ w.ok = TRUE /\ w.l.unper = 0 /\ w.l.faults = l.faults
        /\ w.l.rec = Grown(l.rec, n) /\ w.l.disk = Grown(l.rec, n)
     \/ w.ok = FALSE /\ WriteFailed(l, w.l, Grown(l.rec, n))

RecordResult(l, remaining, n, w) ==
  /\ SameEntry(l, w.l)
  /\ \/ /\ w.ok = TRUE /\ n <= remaining /\ ~l.terminal
        /\ l.unper + n <= l.rec.reserved /\ w.l.faults = l.faults
        /\ \/ /\ w.gained = 0 /\ w.l.unper = l.unper + n
              /\ w.l.rec = l.rec /\ w.l.disk = l.disk
           \/ /\ w.gained = l.unper + n /\ w.l.unper = 0
              /\ w.l.rec = Split(l.rec, l.unper + n)
              /\ w.l.disk = w.l.rec \/ (w.l.disk = l.disk /\ w.l.rec = l.rec)
     \/ w.ok = FALSE /\ w.gained = 0 /\ w.l = l
     \/ /\ w.ok = FALSE /\ w.gained = 0 /\ l.unper + n <= l.rec.reserved
        /\ ~l.terminal /\ w.l.unper = l.unper + n /\ w.l.rec = l.rec
        /\ w.l.faults < l.faults
        /\ w.l.disk \in {l.disk, Split(l.rec, l.unper + n)}

FinishResult(l, n, w) ==
  /\ SameEntry(l, w.l)
  /\ \/ /\ w.ok = TRUE /\ w.gained = l.unper /\ w.l.unper = 0
        /\ l.unper + n <= l.rec.reserved /\ w.l.faults = l.faults
        /\ w.l.rec = Freed(Moved(l), n) /\ w.l.disk = Freed(Moved(l), n)
     \/ /\ w.ok = FALSE /\ w.gained = 0
        /\ \/ w.l = l
           \/ WriteFailed(l, w.l, Moved(l)) /\ l.unper <= l.rec.reserved
     \/ /\ w.ok = FALSE /\ w.gained = 0 /\ w.l.unper = 0
        /\ l.unper <= l.rec.reserved /\ w.l.rec = Moved(l)
        /\ \/ w.l.disk = Moved(l)
           \/ l.unper = 0 /\ w.l.disk = l.disk
           \/ l.unper + n <= l.rec.reserved /\ w.l.disk = Freed(Moved(l), n)

\* The fields of a ledger value, and that an entry is itself.
LEMMA LedgerFields ==
  ASSUME NEW l \in Ledgers
  PROVE  /\ l.rec \in Records /\ l.disk \in Records /\ l.unper \in Nat /\ l.faults \in Nat
         /\ l.up \in BOOLEAN /\ l.terminal \in BOOLEAN /\ SameEntry(l, l)
         /\ l.rec.reserved \in Nat /\ l.rec.cap \in Nat /\ l.rec.anchor \in Nat
         /\ l.rec.local \in Nat
<1>1. l.rec \in Records /\ l.disk \in Records /\ l.unper \in Nat /\ l.faults \in Nat
  BY DEF Ledgers
<1> QED
  BY <1>1, SMT DEF Ledgers, Records, SameEntry

\* The arithmetic of a record under the three changes.
LEMMA RecordChanges ==
  ASSUME NEW rec \in Records, NEW n \in Nat
  PROVE  /\ Split(rec, 0) = rec
         /\ Grown(rec, n) \in Records
         /\ Grown(rec, n).reserved = rec.reserved + n /\ Grown(rec, n).cap = rec.cap
         /\ Grown(rec, n).anchor = rec.anchor /\ Grown(rec, n).local = rec.local
         /\ n <= rec.reserved => Split(rec, n) \in Records /\ Freed(rec, n) \in Records
         /\ Split(rec, n).reserved = rec.reserved - n /\ Split(rec, n).cap = rec.cap
         /\ Split(rec, n).anchor = rec.anchor /\ Split(rec, n).local = rec.local + n
         /\ Freed(rec, n).reserved = rec.reserved - n /\ Freed(rec, n).cap = rec.cap
         /\ Freed(rec, n).anchor = rec.anchor /\ Freed(rec, n).local = rec.local
         /\ rec.reserved \in Nat /\ rec.cap \in Nat /\ rec.anchor \in Nat /\ rec.local \in Nat
<1>1. rec.reserved \in Nat /\ rec.cap \in Nat /\ rec.anchor \in Nat /\ rec.local \in Nat
  BY DEF Records
<1>2. Grown(rec, n) \in Records
  BY SMT DEF Records, Grown
<1>3. ASSUME n <= rec.reserved
      PROVE  Split(rec, n) \in Records /\ Freed(rec, n) \in Records
  <2>1. rec.reserved - n \in Nat /\ rec.local + n \in Nat
    BY <1>1, <1>3, SMT
  <2> QED
    BY <2>1 DEF Records, Split, Freed
<1>4. /\ Grown(rec, n).reserved = rec.reserved + n /\ Grown(rec, n).cap = rec.cap
      /\ Grown(rec, n).anchor = rec.anchor /\ Grown(rec, n).local = rec.local
      /\ Split(rec, n).reserved = rec.reserved - n /\ Split(rec, n).cap = rec.cap
      /\ Split(rec, n).anchor = rec.anchor /\ Split(rec, n).local = rec.local + n
      /\ Freed(rec, n).reserved = rec.reserved - n /\ Freed(rec, n).cap = rec.cap
      /\ Freed(rec, n).anchor = rec.anchor /\ Freed(rec, n).local = rec.local
  BY DEF Records, Split, Grown, Freed
<1>5. Split(rec, 0) = rec
  <2>1. rec.reserved - 0 = rec.reserved /\ rec.local + 0 = rec.local
    BY <1>1, SMT
  <2> QED
    BY <2>1 DEF Records, Split
<1> QED
  BY <1>1, <1>2, <1>3, <1>4, <1>5

\* persist_candidate writes the record and the file, or fails.
LEMMA PersistOutcome ==
  ASSUME NEW l \in Ledgers, NEW new \in Records, NEW w \in persist_candidate(l, new)
  PROVE  /\ SameEntry(l, w.l) /\ w.gained = 0 /\ w.l.unper = l.unper
         /\ \/ w.ok = TRUE /\ w.l.rec = new /\ w.l.disk = new /\ w.l.faults = l.faults
            \/ w.ok = FALSE /\ WriteFailed(l, w.l, new)
<1>1. CASE w = [l |-> [l EXCEPT !.rec = new, !.disk = new], ok |-> TRUE, gained |-> 0]
  <2>1. /\ w.l \in Ledgers /\ w.l.rec = new /\ w.l.disk = new /\ w.l.unper = l.unper
        /\ w.l.up = l.up /\ w.l.terminal = l.terminal /\ w.l.faults = l.faults
        /\ w.ok = TRUE /\ w.gained = 0 /\ l.faults \in Nat
    BY <1>1 DEF Ledgers
  <2> QED
    BY <2>1, SMT DEF SameEntry
<1>2. ASSUME l.faults # 0, NEW d \in {l.disk, new},
             w = [l |-> [l EXCEPT !.disk = d, !.faults = @ - 1], ok |-> FALSE, gained |-> 0]
      PROVE  /\ SameEntry(l, w.l) /\ w.gained = 0 /\ w.l.unper = l.unper
             /\ w.ok = FALSE /\ WriteFailed(l, w.l, new)
  <2>1. /\ w.l.rec = l.rec /\ w.l.disk = d /\ w.l.unper = l.unper
        /\ w.l.up = l.up /\ w.l.terminal = l.terminal /\ w.l.faults = l.faults - 1
        /\ w.ok = FALSE /\ w.gained = 0 /\ l.faults \in Nat
    BY <1>2 DEF Ledgers
  <2>2. w.l \in Ledgers
    <3>1. l.faults - 1 \in Nat /\ d \in Records
      BY <1>2, LedgerFields, SMT
    <3> QED
      BY <1>2, <3>1 DEF Ledgers
  <2> QED
    BY <2>1, <2>2, SMT DEF SameEntry, WriteFailed
<1> QED
  BY <1>1, <1>2 DEF persist_candidate

\* flush_delivered moves the waiting split into the record, is refused, or fails.
LEMMA FlushOutcome ==
  ASSUME NEW l \in Ledgers, NEW w \in flush_delivered(l)
  PROVE  FlushResult(l, w)
<1> USE DEF FlushResult
<1>1. CASE l.unper = 0
  <2>1. Split(l.rec, 0) = l.rec /\ l.unper <= l.rec.reserved
    BY <1>1, LedgerFields, RecordChanges, SMT
  <2>2. w.l = l /\ w.ok = TRUE /\ w.gained = 0
    BY <1>1, SMT DEF flush_delivered
  <2> QED
    BY <1>1, <2>1, <2>2, LedgerFields DEF Moved
<1>2. CASE l.unper # 0 /\ l.unper > l.rec.reserved
  <2>1. w.l = l /\ w.ok = FALSE /\ w.gained = 0
    BY <1>2, SMT DEF flush_delivered, Refused
  <2> QED
    BY <1>2, <2>1, LedgerFields
<1>3. CASE l.unper # 0 /\ ~(l.unper > l.rec.reserved)
  <2>1. Moved(l) \in Records /\ l.unper <= l.rec.reserved
    <3>1. l.unper <= l.rec.reserved /\ l.rec \in Records /\ l.unper \in Nat
      BY <1>3, LedgerFields, SMT
    <3> QED
      BY <3>1, RecordChanges DEF Moved
  <2>2. PICK v \in persist_candidate(l, Moved(l)) :
          w = IF v.ok THEN [v EXCEPT !.l.unper = 0, !.gained = l.unper] ELSE v
    BY <1>3 DEF flush_delivered, Moved, Split
  <2>3. /\ SameEntry(l, v.l) /\ v.gained = 0 /\ v.l.unper = l.unper
        /\ \/ v.ok = TRUE /\ v.l.rec = Moved(l) /\ v.l.disk = Moved(l) /\ v.l.faults = l.faults
           \/ v.ok = FALSE /\ WriteFailed(l, v.l, Moved(l))
    BY <2>1, PersistOutcome
  <2>4. {"l", "ok", "gained"} \subseteq DOMAIN v
    BY DEF persist_candidate
  <2>5. CASE v.ok = TRUE
    <3>1. w.l = [v.l EXCEPT !.unper = 0] /\ w.ok = TRUE /\ w.gained = l.unper
      BY <2>2, <2>4, <2>5
    <3>2. /\ w.l \in Ledgers /\ w.l.unper = 0 /\ w.l.rec = v.l.rec /\ w.l.disk = v.l.disk
          /\ w.l.up = v.l.up /\ w.l.terminal = v.l.terminal /\ w.l.faults = v.l.faults
      BY <2>3, <3>1, SMT DEF SameEntry, Ledgers
    <3> QED
      BY <2>1, <2>3, <2>5, <3>1, <3>2 DEF SameEntry
  <2>6. CASE v.ok = FALSE
    BY <2>1, <2>2, <2>3, <2>6
  <2> QED
    BY <2>3, <2>5, <2>6
<1> QED
  BY <1>1, <1>2, <1>3

\* reserve grows the reservation and drops the waiting split, or fails.
LEMMA ReserveOutcome ==
  ASSUME NEW l \in Ledgers, NEW n \in Nat, NEW w \in reserve(l, n)
  PROVE  ReserveResult(l, n, w)
<1> USE DEF ReserveResult
<1>1. Grown(l.rec, n) \in Records
  BY LedgerFields, RecordChanges
<1>2. PICK v \in persist_candidate(l, Grown(l.rec, n)) :
        w = IF v.ok THEN [v EXCEPT !.l.unper = 0] ELSE v
  BY DEF reserve, Grown
<1>3. /\ SameEntry(l, v.l) /\ v.gained = 0 /\ v.l.unper = l.unper
      /\ \/ /\ v.ok = TRUE /\ v.l.rec = Grown(l.rec, n) /\ v.l.disk = Grown(l.rec, n)
            /\ v.l.faults = l.faults
         \/ v.ok = FALSE /\ WriteFailed(l, v.l, Grown(l.rec, n))
  BY <1>1, PersistOutcome
<1>4. {"l", "ok", "gained"} \subseteq DOMAIN v
  BY DEF persist_candidate
<1>5. CASE v.ok = TRUE
  <2>1. w.l = [v.l EXCEPT !.unper = 0] /\ w.ok = TRUE /\ w.gained = v.gained
    BY <1>2, <1>4, <1>5
  <2>2. /\ w.l \in Ledgers /\ w.l.unper = 0 /\ w.l.rec = v.l.rec /\ w.l.disk = v.l.disk
        /\ w.l.up = v.l.up /\ w.l.terminal = v.l.terminal /\ w.l.faults = v.l.faults
    BY <1>3, <2>1, SMT DEF SameEntry, Ledgers
  <2> QED
    BY <1>3, <1>5, <2>1, <2>2 DEF SameEntry
<1>6. CASE v.ok = FALSE
  BY <1>2, <1>3, <1>6
<1> QED
  BY <1>3, <1>5, <1>6

\* record_delivered adds n to the waiting split, or writes the split with it;
\* refused it changes nothing, and failing it keeps n in the split.
LEMMA RecordOutcome ==
  ASSUME NEW l \in Ledgers, NEW remaining \in Nat, NEW n \in Nat,
         NEW w \in record_delivered(l, remaining, n)
  PROVE  RecordResult(l, remaining, n, w)
<1> USE DEF RecordResult
<1> DEFINE held == [l EXCEPT !.unper = @ + n]
<1>1. /\ held \in Ledgers /\ held.unper = l.unper + n /\ held.rec = l.rec
      /\ held.disk = l.disk /\ held.up = l.up /\ held.terminal = l.terminal
      /\ held.faults = l.faults
  <2>1. l.unper + n \in Nat
    BY LedgerFields, SMT
  <2> QED
    BY <2>1 DEF Ledgers
<1>2. SameEntry(l, held)
  BY <1>1, LedgerFields DEF SameEntry
<1>3. CASE n > remaining \/ l.terminal \/ held.unper > l.rec.reserved
  <2>1. w.l = l /\ w.ok = FALSE /\ w.gained = 0
    BY <1>3, SMT DEF record_delivered, Refused
  <2> QED
    BY <2>1, LedgerFields
<1>4. CASE ~(n > remaining \/ l.terminal \/ held.unper > l.rec.reserved)
  <2>1. n <= remaining /\ ~l.terminal /\ l.unper + n <= l.rec.reserved
    <3> HIDE DEF held
    <3> QED
      BY <1>1, <1>4, LedgerFields, SMT
  <2>2. CASE held.unper >= CAPACITY_PERSIST_TOKEN_INTERVAL
    <3>1. w \in flush_delivered(held)
      BY <1>4, <2>2 DEF record_delivered
    <3> HIDE DEF held
    <3>2. ~(held.unper > held.rec.reserved)
      BY <1>1, <2>1, LedgerFields, SMT
    <3>3. Moved(held) = Split(l.rec, l.unper + n)
      BY <1>1 DEF Moved
    <3>4. /\ SameEntry(held, w.l)
          /\ \/ /\ w.ok = TRUE /\ w.gained = held.unper /\ w.l.unper = 0
                /\ w.l.faults = held.faults /\ w.l.rec = Moved(held)
                /\ w.l.disk = Moved(held) \/ (held.unper = 0 /\ w.l.disk = held.disk)
             \/ w.ok = FALSE /\ w.gained = 0 /\ WriteFailed(held, w.l, Moved(held))
      BY <1>1, <3>1, <3>2, FlushOutcome DEF FlushResult
    <3>5. held.unper = 0 => Moved(held) = l.rec
      <4>1. l.rec \in Records
        BY LedgerFields
      <4>2. Split(l.rec, 0) = l.rec
        BY <4>1, RecordChanges
      <4> QED
        BY <1>1, <4>2 DEF Moved
    <3> QED
      BY <1>1, <2>1, <3>3, <3>4, <3>5 DEF SameEntry, WriteFailed
  <2>3. CASE ~(held.unper >= CAPACITY_PERSIST_TOKEN_INTERVAL)
    <3>1. w.l = held /\ w.ok = TRUE /\ w.gained = 0
      BY <1>4, <2>3, SMT DEF record_delivered
    <3> HIDE DEF held
    <3> QED
      BY <1>1, <1>2, <2>1, <3>1
  <2> QED
    BY <2>2, <2>3
<1> QED
  BY <1>3, <1>4

\* finish_exact writes the waiting split and then frees the remainder; it can
\* stop before, between or after the two writes.
LEMMA FinishOutcome ==
  ASSUME NEW l \in Ledgers, ~l.terminal, NEW n \in Nat, NEW w \in finish_exact(l, n)
  PROVE  FinishResult(l, n, w)
<1> USE DEF FinishResult
<1>1. PICK f \in flush_delivered(l) : w \in IF f.ok THEN Release(f, n) ELSE {f}
  BY DEF finish_exact
<1>2. /\ SameEntry(l, f.l)
      /\ \/ /\ f.ok = TRUE /\ f.gained = l.unper /\ f.l.unper = 0 /\ f.l.faults = l.faults
            /\ l.unper <= l.rec.reserved /\ f.l.rec = Moved(l)
            /\ f.l.disk = Moved(l) \/ (l.unper = 0 /\ f.l.disk = l.disk)
         \/ /\ f.ok = FALSE /\ f.gained = 0
            /\ \/ f.l = l /\ l.unper > l.rec.reserved
               \/ WriteFailed(l, f.l, Moved(l)) /\ l.unper <= l.rec.reserved
  BY FlushOutcome DEF FlushResult
<1>3. CASE f.ok = FALSE
  <2>1. w = f
    BY <1>1, <1>3
  <2> QED
    BY <1>2, <1>3, <2>1
<1>4. CASE f.ok = TRUE
  <2>1. w \in Release(f, n) /\ f.l \in Ledgers
    BY <1>1, <1>2, <1>4 DEF SameEntry
  <2>2. /\ Moved(l) \in Records
        /\ Moved(l).reserved = l.rec.reserved - l.unper
        /\ l.unper \in Nat /\ l.rec.reserved \in Nat
    <3>1. l.unper <= l.rec.reserved /\ l.rec \in Records /\ l.unper \in Nat
          /\ l.rec.reserved \in Nat
      BY <1>2, <1>4, LedgerFields
    <3> QED
      BY <3>1, RecordChanges DEF Moved
  <2>3. CASE n > f.l.rec.reserved
    <3>1. w.l = f.l /\ w.ok = FALSE /\ w.gained = 0
      BY <2>1, <2>3, SMT DEF Release, Refused
    <3> QED
      BY <1>2, <1>4, <3>1
  <2>4. CASE ~(n > f.l.rec.reserved)
    <3>1. l.unper + n <= l.rec.reserved
      BY <1>2, <1>4, <2>2, <2>4, SMT
    <3>2. Freed(Moved(l), n) \in Records
      <4>1. n <= Moved(l).reserved
        BY <2>2, <3>1, SMT
      <4> QED
        BY <2>2, <4>1, RecordChanges
    <3>3. PICK v \in persist_candidate(f.l, Freed(Moved(l), n)) :
            w = IF v.ok THEN [v EXCEPT !.gained = f.gained] ELSE v
      BY <1>2, <1>4, <2>1, <2>4 DEF Release, Freed
    <3>4. /\ SameEntry(f.l, v.l) /\ v.gained = 0 /\ v.l.unper = f.l.unper
          /\ \/ /\ v.ok = TRUE /\ v.l.rec = Freed(Moved(l), n)
                /\ v.l.disk = Freed(Moved(l), n) /\ v.l.faults = f.l.faults
             \/ v.ok = FALSE /\ WriteFailed(f.l, v.l, Freed(Moved(l), n))
      BY <2>1, <3>2, PersistOutcome
    <3>5. {"l", "ok", "gained"} \subseteq DOMAIN v
      BY DEF persist_candidate
    <3>6. SameEntry(l, v.l)
      BY <1>2, <3>4, LedgerFields, SMT DEF SameEntry
    <3>7. CASE v.ok = TRUE
      <4>1. w.l = v.l /\ w.ok = TRUE /\ w.gained = f.gained
        BY <3>3, <3>5, <3>7
      <4> QED
        BY <1>2, <1>4, <3>1, <3>4, <3>6, <3>7, <4>1
    <3>8. CASE v.ok = FALSE
      <4>1. w = v
        BY <3>3, <3>8
      <4> QED
        BY <1>2, <1>4, <3>1, <3>4, <3>6, <3>8, <4>1 DEF WriteFailed
    <3> QED
      BY <3>4, <3>7, <3>8
  <2> QED
    BY <2>3, <2>4
<1> QED
  BY <1>2, <1>3, <1>4

\* What the chain allows is a number.
LEMMA CapNat ==
  ASSUME NEW c \in Chains
  PROVE  /\ authoritative_cap(c) \in Nat
         /\ c.pending \in Nat /\ c.base \in Nat /\ c.week \in Nat
BY LedgerConstants, SMT DEF Chains, authoritative_cap, TermEnded, IsSubscription, Smaller

\* Reconciling a record never lowers what it has delivered or committed, and
\* the result fits the chain's cap.
LEMMA ReconciledFacts ==
  ASSUME NEW rec \in Records, NEW c \in Chains, Reconcilable(rec, c)
  PROVE  LET new == ReconciledRecord(rec, c)
         IN /\ new \in Records
            /\ new.anchor = c.pending /\ new.reserved = rec.reserved
            /\ rec.anchor <= c.pending /\ new.local <= rec.local
            /\ \/ /\ c.pending <= rec.anchor + rec.local
                  /\ new.anchor + new.local = rec.anchor + rec.local
               \/ /\ c.pending > rec.anchor + rec.local
                  /\ new.local = 0
            /\ Committed(new) <= new.cap /\ new.cap <= Funded
            /\ TermEnded(c) \/ new.cap = authoritative_cap(c)
<1> DEFINE new == ReconciledRecord(rec, c)
           local == Subtract(rec.local, c.pending - rec.anchor)
<1>1. /\ rec.cap \in Nat /\ rec.anchor \in Nat /\ rec.local \in Nat /\ rec.reserved \in Nat
      /\ c.pending \in Nat /\ authoritative_cap(c) \in Nat /\ rec.anchor <= c.pending
  BY CapNat DEF Records, Reconcilable
<1>2. /\ local \in Nat /\ local <= rec.local
      /\ \/ c.pending <= rec.anchor + rec.local /\ c.pending + local = rec.anchor + rec.local
         \/ c.pending > rec.anchor + rec.local /\ local = 0
  BY <1>1, SMT DEF Subtract
<1>3. /\ new.anchor = c.pending /\ new.reserved = rec.reserved /\ new.local = local
      /\ TermEnded(c) => new.cap = c.pending + local + rec.reserved
      /\ ~TermEnded(c) => new.cap = authoritative_cap(c)
  BY DEF ReconciledRecord
<1>4. new \in Records
  BY <1>1, <1>2, SMT DEF ReconciledRecord, Records
<1>5. Committed(new) <= new.cap /\ new.cap <= Funded
  BY DEF Reconcilable, validate_record
<1> QED
  BY <1>1, <1>2, <1>3, <1>4, <1>5

\* An entry that is up is used as it is; otherwise it comes from the file, or
\* fresh from the chain where there is no file.
LEMMA LoadFacts ==
  ASSUME NEW l \in Ledgers, NEW c \in Chains
  PROVE  LET e == LoadEntry(l, c)
         IN /\ e \in Ledgers /\ e.up = TRUE /\ e.disk = l.disk /\ e.faults = l.faults
            /\ \/ l.up = TRUE /\ e = l
               \/ /\ l.up = FALSE /\ e.unper = 0 /\ e.terminal = FALSE
                  /\ e.rec = (IF l.disk = NoRecord THEN FreshRecord(c) ELSE l.disk)
<1> DEFINE e == LoadEntry(l, c)
<1>1. l.up \in BOOLEAN /\ l.disk \in Records
  BY LedgerFields
<1>2. CASE l.up = TRUE
  BY <1>2 DEF LoadEntry
<1>3. CASE l.up = FALSE
  <2> DEFINE from == IF l.disk = NoRecord THEN FreshRecord(c) ELSE l.disk
  <2>1. FreshRecord(c) \in Records
    BY CapNat DEF FreshRecord, Records
  <2>2. from \in Records
    BY <1>1, <2>1
  <2>3. e = [l EXCEPT !.up = TRUE, !.terminal = FALSE, !.unper = 0, !.rec = from]
    BY <1>3 DEF LoadEntry
  <2> HIDE DEF from, e
  <2>4. /\ e \in Ledgers /\ e.up = TRUE /\ e.disk = l.disk /\ e.faults = l.faults
        /\ e.unper = 0 /\ e.terminal = FALSE /\ e.rec = from
    BY <2>2, <2>3 DEF Ledgers
  <2> QED
    BY <1>3, <2>4 DEF from, e
<1> QED
  BY <1>1, <1>2, <1>3

\* reconcile_deal on a deal that goes on: refused, it only loads the entry;
\* accepted, the record becomes the reconciled one.
LEMMA ReconcileOutcome ==
  ASSUME NEW l \in Ledgers, NEW c \in Chains, ~c.stopped, NEW w \in reconcile_deal(l, c)
  PROVE  LET e == LoadEntry(l, c)
             new == ReconciledRecord(e.rec, c)
         IN /\ SameEntry(e, w.l) /\ w.gained = 0 /\ w.l.unper = e.unper
            /\ \/ w.ok = FALSE /\ w.l = e
               \/ /\ w.ok = TRUE /\ ~e.terminal /\ Reconcilable(e.rec, c)
                  /\ w.l.rec = new /\ w.l.faults = e.faults
                  /\ \/ w.l.disk = new
                     \/ w.l.disk = e.disk /\ e.rec = new
               \/ /\ w.ok = FALSE /\ Reconcilable(e.rec, c)
                  /\ WriteFailed(e, w.l, new)
<1> DEFINE e == LoadEntry(l, c)
           new == ReconciledRecord(e.rec, c)
<1>1. e \in Ledgers /\ e.rec \in Records /\ SameEntry(e, e)
  BY LoadFacts, LedgerFields
<1> HIDE DEF e
<1>2. w \in reconcile_live(e, c)
  BY DEF reconcile_deal, e
<1>3. CASE e.terminal \/ ~Reconcilable(e.rec, c)
  <2>1. w.l = e /\ w.ok = FALSE /\ w.gained = 0
    BY <1>2, <1>3, SMT DEF reconcile_live, Refused
  <2> QED
    BY <1>1, <2>1 DEF e
<1>4. CASE ~(e.terminal \/ ~Reconcilable(e.rec, c)) /\ new = e.rec
  <2>1. w.l = e /\ w.ok = TRUE /\ w.gained = 0
    BY <1>2, <1>4, SMT DEF reconcile_live
  <2> QED
    BY <1>1, <1>4, <2>1 DEF e
<1>5. CASE ~(e.terminal \/ ~Reconcilable(e.rec, c)) /\ new # e.rec
  <2>1. w \in persist_candidate(e, new)
    BY <1>2, <1>5 DEF reconcile_live
  <2>2. new \in Records
    BY <1>1, <1>5, ReconciledFacts
  <2> HIDE DEF new
  <2>3. /\ SameEntry(e, w.l) /\ w.gained = 0 /\ w.l.unper = e.unper
        /\ \/ w.ok = TRUE /\ w.l.rec = new /\ w.l.disk = new /\ w.l.faults = e.faults
           \/ w.ok = FALSE /\ WriteFailed(e, w.l, new)
    BY <1>1, <2>1, <2>2, PersistOutcome
  <2> QED
    BY <1>5, <2>3 DEF e, new
<1> QED
  BY <1>3, <1>4, <1>5

\* A closed deal loses its entry and its file.
LEMMA ClosedFacts ==
  ASSUME NEW l \in Ledgers
  PROVE  LET k == mark_terminal(l)
         IN /\ k \in Ledgers /\ k.up = FALSE /\ k.terminal = TRUE /\ k.disk = NoRecord
            /\ k.rec = l.rec /\ k.unper = l.unper /\ k.faults = l.faults
BY DEF mark_terminal, Ledgers, NoRecord, Records

-----------------------------------------------------------------------------
(* The invariant of reservations and bills                                 *)

Histories == [billed : Nat, shown : Nat, asked : Nat, crashes : Nat, clean : BOOLEAN]

Drivers == [pc : {"off", "start", "probe", "accept", "sync", "claim", "confirm",
                  "failed", "done"},
            claimed : Nat, base : Nat, atProbe : Nat, sought : Nat, target : Nat]

LedgerTypes ==
  /\ chain \in Chains
  /\ ledger \in Ledgers
  /\ request \in [Requests -> Slots]
  /\ hist \in Histories

DriverTypes == driver \in Drivers /\ count \in Nat /\ flights \subseteq Nat

\* The contract never accepts more than it allows, and before the probe is
\* accepted nothing is claimed and no week has passed.
ChainInv ==
  /\ chain.base <= chain.pending /\ chain.pending <= Funded
  /\ chain.pending <= authoritative_cap(chain)
  /\ ~chain.probe => chain.week = 0 /\ chain.pending = 0
  /\ driver.pc \in {"probe", "accept"} => ~chain.probe

\* Requests live only over an entry that is up, or that a closed deal ended.
EntryInv ==
  /\ ledger.up => ~ledger.terminal
  /\ ~ledger.up /\ ~ledger.terminal => AllIdle
  /\ ledger.terminal => chain.stopped

\* What the buyer was billed, with the trial's tick of a deal past its probe.
Billed == hist.billed + (IF Probed THEN TICK_SIZE ELSE 0)

\* The bills together with what live requests may still be billed.
Total == Billed + AllHeld

\* A record has room for `total` tokens, within the cap of contract state c.
Room(rec, c, total) ==
  /\ Committed(rec) <= rec.cap
  /\ rec.cap <= authoritative_cap(c) \/ TermEnded(c)
  /\ total <= Committed(rec)

\* The record in memory and the one a restart would load both have room; the
\* bound on the chain outlives both.
BillInv ==
  /\ ledger.up => Room(ledger.rec, chain, Total)
  /\ ~chain.stopped => Room(ledger.disk, chain, Total)
  /\ ~TermEnded(chain) => Total <= authoritative_cap(chain)

\* The part of the invariant that is about the ledger.
LedgerInv == /\ LedgerTypes /\ EntryInv /\ BillInv /\ ReservationsCovered
             /\ ledger.faults <= MaxFaults

DeliveryInv == LedgerInv /\ DriverTypes /\ ChainInv

\* How each change of a record bears on its room.
LEMMA RoomChanges ==
  ASSUME NEW rec \in Records, NEW c \in Chains, NEW t \in Nat, NEW n \in Nat
  PROVE  /\ Room(rec, c, t) => Room(Split(rec, n), c, t)
         /\ Room(rec, c, t + n) => Room(Freed(rec, n), c, t) /\ Room(rec, c, t)
         /\ Room(rec, c, t) /\ n <= rec.cap - Committed(rec)
              => Room(Grown(rec, n), c, t + n) /\ Room(Grown(rec, n), c, t)
         /\ Room(rec, c, t) /\ ~TermEnded(c) => t <= authoritative_cap(c)
<1>1. authoritative_cap(c) \in Nat
  BY CapNat
<1>2. /\ rec.reserved \in Nat /\ rec.cap \in Nat /\ rec.anchor \in Nat /\ rec.local \in Nat
      /\ Grown(rec, n).reserved = rec.reserved + n /\ Grown(rec, n).cap = rec.cap
      /\ Grown(rec, n).anchor = rec.anchor /\ Grown(rec, n).local = rec.local
  BY RecordChanges
<1>3. /\ Split(rec, n).reserved = rec.reserved - n /\ Split(rec, n).cap = rec.cap
      /\ Split(rec, n).anchor = rec.anchor /\ Split(rec, n).local = rec.local + n
      /\ Freed(rec, n).reserved = rec.reserved - n /\ Freed(rec, n).cap = rec.cap
      /\ Freed(rec, n).anchor = rec.anchor /\ Freed(rec, n).local = rec.local
  BY RecordChanges
<1>4. Room(rec, c, t) => Room(Split(rec, n), c, t)
  BY <1>1, <1>2, <1>3, SMT DEF Room, Committed
<1>5. Room(rec, c, t + n) => Room(Freed(rec, n), c, t) /\ Room(rec, c, t)
  BY <1>1, <1>2, <1>3, SMT DEF Room, Committed
<1>6. Room(rec, c, t) /\ n <= rec.cap - Committed(rec)
        => Room(Grown(rec, n), c, t + n) /\ Room(Grown(rec, n), c, t)
  BY <1>1, <1>2, SMT DEF Room, Committed
<1>7. Room(rec, c, t) /\ ~TermEnded(c) => t <= authoritative_cap(c)
  BY <1>1, <1>2, SMT DEF Room, Committed
<1> QED
  BY <1>4, <1>5, <1>6, <1>7

\* A reconciled record has the room its original had.
LEMMA RoomReconciled ==
  ASSUME NEW rec \in Records, NEW c \in Chains, NEW t \in Nat, Room(rec, c, t),
         Reconcilable(rec, c)
  PROVE  Room(ReconciledRecord(rec, c), c, t)
<1> DEFINE new == ReconciledRecord(rec, c)
<1>1. /\ new \in Records
      /\ new.anchor = c.pending /\ new.reserved = rec.reserved
      /\ \/ /\ c.pending <= rec.anchor + rec.local
            /\ new.anchor + new.local = rec.anchor + rec.local
         \/ c.pending > rec.anchor + rec.local /\ new.local = 0
      /\ Committed(new) <= new.cap
      /\ TermEnded(c) \/ new.cap = authoritative_cap(c)
  BY ReconciledFacts
<1>2. authoritative_cap(c) \in Nat /\ c.pending \in Nat
  BY CapNat
<1> HIDE DEF new
<1>3. t <= Committed(new)
  BY <1>1, <1>2, SMT DEF Room, Committed, Records
<1>4. new.cap <= authoritative_cap(c) \/ TermEnded(c)
  BY <1>1, <1>2, SMT
<1> QED
  BY <1>1, <1>3, <1>4 DEF Room, new

\* Where there is no file, nothing was billed: a fresh record has room.
LEMMA RoomLoaded ==
  ASSUME NEW l \in Ledgers, NEW c \in Chains, NEW t \in Nat, Room(l.disk, c, t),
         l.up = FALSE, c.pending <= authoritative_cap(c)
  PROVE  Room(LoadEntry(l, c).rec, c, t)
<1>1. LoadEntry(l, c).rec = IF l.disk = NoRecord THEN FreshRecord(c) ELSE l.disk
  BY LoadFacts
<1>2. authoritative_cap(c) \in Nat /\ c.pending \in Nat
  BY CapNat
<1>3. CASE l.disk = NoRecord
  <2>1. t <= 0
    BY <1>3, SMT DEF Room, Committed, NoRecord
  <2>2. /\ FreshRecord(c).cap = authoritative_cap(c) /\ FreshRecord(c).anchor = c.pending
        /\ FreshRecord(c).local = 0 /\ FreshRecord(c).reserved = 0
    BY DEF FreshRecord
  <2> HIDE DEF FreshRecord
  <2>3. Room(FreshRecord(c), c, t)
    BY <1>2, <2>1, <2>2, SMT DEF Room, Committed
  <2> QED
    BY <1>1, <1>3, <2>3
<1>4. CASE l.disk # NoRecord
  BY <1>1, <1>4
<1> QED
  BY <1>3, <1>4

\* The constants the bills count with.
LEMMA TotalNat ==
  ASSUME LedgerTypes
  PROVE  Billed \in Nat /\ AllHeld \in Nat /\ Total \in Nat /\ hist.billed \in Nat
<1>1. hist.billed \in Nat /\ TICK_SIZE \in Nat /\ AllHeld \in Nat
  BY HeldNat, LedgerConstants DEF LedgerTypes, Histories
<1>2. Billed \in Nat
  BY <1>1, SMT DEF Billed
<1> QED
  BY <1>1, <1>2, SMT DEF Total

\* The same after a step.
LEMMA NextTotal ==
  ASSUME request' \in [Requests -> Slots], hist' \in Histories
  PROVE  Billed' \in Nat /\ AllHeld' \in Nat /\ Total' \in Nat
<1>1. \A r \in Requests : Held'[r] \in Nat
  BY DEF Held, Slots
<1>2. Finite(Requests)
  BY DeliveryConstants
<1>3. AllHeld' \in Nat
  BY <1>1, <1>2, SumNat DEF AllHeld
<1>4. hist'.billed \in Nat /\ TICK_SIZE \in Nat
  BY LedgerConstants DEF Histories
<1>5. Billed' \in Nat
  BY <1>4, SMT DEF Billed
<1>6. Total' = Billed' + AllHeld'
  BY DEF Total
<1>7. \A x, y \in Nat : x + y \in Nat
  BY SMT
<1> QED
  BY <1>3, <1>5, <1>6, <1>7

\* The updates of the history that the steps make.
LEMMA HistoryAsked ==
  ASSUME NEW h \in Histories, NEW b \in BOOLEAN, NEW k,
         k = [h EXCEPT !.asked = @ + 1, !.clean = b]
  PROVE  k \in Histories /\ k.billed = h.billed /\ k.shown = h.shown /\ k.clean = b
<1>1. h.asked + 1 \in Nat
  BY SMT DEF Histories
<1> QED
  BY <1>1 DEF Histories

\* A crash adds one to the count and leaves bills and deliveries as they were.
LEMMA HistoryCrash ==
  ASSUME NEW h \in Histories, NEW k,
         k = [h EXCEPT !.crashes = @ + 1, !.clean = FALSE]
  PROVE  k \in Histories /\ k.billed = h.billed /\ k.shown = h.shown /\ k.clean = FALSE
<1>1. h.crashes + 1 \in Nat
  BY SMT DEF Histories
<1> QED
  BY <1>1 DEF Histories

\* The types of what the history records.
LEMMA HistoryFields ==
  ASSUME NEW h \in Histories
  PROVE  h.billed \in Nat /\ h.shown \in Nat /\ h.clean \in BOOLEAN
BY DEF Histories

\* Room for a total is room for a smaller one.
LEMMA RoomLess ==
  ASSUME NEW rec \in Records, NEW c \in Chains, NEW t \in Nat, NEW u \in Nat, u <= t,
         Room(rec, c, t)
  PROVE  Room(rec, c, u)
BY SMT DEF Room, Committed, Records

-----------------------------------------------------------------------------
(* Steps that read the chain into the ledger                               *)

\* Closing the entry of a stopped deal.
LEMMA ClosingKeeps ==
  ASSUME DeliveryInv, UNCHANGED <<chain, request, hist>>, chain.stopped,
         ledger' = mark_terminal(ledger)
  PROVE  LedgerInv'
<1>1. /\ ledger' \in Ledgers /\ ledger'.up = FALSE /\ ledger'.terminal = TRUE
      /\ ledger'.faults = ledger.faults
  BY ClosedFacts DEF DeliveryInv, LedgerInv, LedgerTypes
<1>2. Total' = Total
  BY HeldSame DEF Total, Billed
<1>3. LedgerTypes'
  BY <1>1 DEF DeliveryInv, LedgerInv, LedgerTypes
<1>4. EntryInv' /\ BillInv' /\ ReservationsCovered'
  BY <1>1, <1>2 DEF DeliveryInv, LedgerInv, EntryInv, BillInv, ReservationsCovered
<1> QED
  BY <1>1, <1>3, <1>4 DEF LedgerInv, DeliveryInv

\* A read of the deal's state, accepted, refused or failing to be written.
LEMMA ReconcilingKeeps ==
  ASSUME DeliveryInv, UNCHANGED <<chain, request, hist>>,
         NEW w \in reconcile_deal(ledger, chain), ledger' = w.l
  PROVE  LedgerInv'
<1>0. CASE chain.stopped
  BY <1>0, ClosingKeeps, SMT DEF reconcile_deal
<1>1. CASE ~chain.stopped
  <2> DEFINE e == LoadEntry(ledger, chain)
             new == ReconciledRecord(e.rec, chain)
  <2>1. /\ ledger \in Ledgers /\ chain \in Chains /\ Total \in Nat /\ LedgerTypes
        /\ ledger.terminal \in BOOLEAN /\ ledger.up \in BOOLEAN
    BY LedgerFields, TotalNat DEF DeliveryInv, LedgerInv, LedgerTypes
  <2>2. Total' = Total /\ AllHeld' = AllHeld /\ (AllIdle' <=> AllIdle)
    BY HeldSame DEF Total, Billed
  <2>3. /\ e \in Ledgers /\ e.up = TRUE /\ e.disk = ledger.disk /\ e.faults = ledger.faults
        /\ \/ ledger.up = TRUE /\ e = ledger
           \/ ledger.up = FALSE /\ e.unper = 0 /\ e.terminal = FALSE
    BY <2>1, LoadFacts
  <2>4. Room(ledger.disk, chain, Total)
    BY <1>1 DEF DeliveryInv, LedgerInv, BillInv
  <2>5. Room(e.rec, chain, Total)
    <3>1. CASE ledger.up = TRUE
      BY <2>3, <3>1 DEF DeliveryInv, LedgerInv, BillInv
    <3>2. CASE ledger.up = FALSE
      BY <2>1, <2>4, <3>2, RoomLoaded DEF DeliveryInv, ChainInv
    <3> QED
      BY <2>3, <3>1, <3>2
  <2>6. e.terminal = FALSE /\ (ledger.up = FALSE => AllIdle)
    BY <1>1, <2>1, <2>3 DEF DeliveryInv, LedgerInv, EntryInv
  <2>7. e.faults = MaxFaults => AllHeld + e.unper <= e.rec.reserved
    <3>1. CASE ledger.up = TRUE
      BY <2>3, <3>1 DEF DeliveryInv, LedgerInv, ReservationsCovered, AllHeld
    <3>2. CASE ledger.up = FALSE
      BY <2>3, <2>6, <3>2, HeldNone, LedgerFields, SMT
    <3> QED
      BY <2>3, <3>1, <3>2
  <2>8. Reconcilable(e.rec, chain) =>
          new \in Records /\ Room(new, chain, Total) /\ new.reserved = e.rec.reserved
    BY <2>1, <2>3, <2>5, LedgerFields, RoomReconciled, ReconciledFacts
  <2>9. /\ SameEntry(e, w.l) /\ w.l.unper = e.unper
        /\ \/ w.l = e
           \/ /\ Reconcilable(e.rec, chain) /\ w.l.rec = new
              /\ w.l.disk = new \/ w.l.disk = e.disk
           \/ Reconcilable(e.rec, chain) /\ WriteFailed(e, w.l, new)
    BY <1>1, <2>1, ReconcileOutcome
  <2> HIDE DEF e, new
  <2>10. /\ ledger' \in Ledgers /\ ledger'.up = TRUE /\ ledger'.terminal = FALSE
         /\ ledger'.faults <= e.faults /\ e.faults \in Nat /\ ledger'.faults \in Nat
    BY <2>3, <2>6, <2>9, LedgerFields DEF SameEntry
  <2>11. LedgerTypes'
    BY <2>1, <2>10 DEF LedgerTypes
  <2>12. EntryInv'
    BY <2>10 DEF EntryInv
  <2>13. Room(ledger'.rec, chain, Total) /\ Room(ledger'.disk, chain, Total)
    BY <2>3, <2>4, <2>5, <2>8, <2>9 DEF WriteFailed
  <2>14. BillInv'
    BY <2>2, <2>13 DEF BillInv, DeliveryInv, LedgerInv
  <2>15. ledger.faults <= MaxFaults /\ MaxFaults \in Nat
    BY DeliveryConstants DEF DeliveryInv, LedgerInv
  <2>16. ledger'.faults = MaxFaults => AllHeld + ledger'.unper <= ledger'.rec.reserved
    BY <2>3, <2>7, <2>8, <2>9, <2>10, <2>15, SMTT(30) DEF WriteFailed
  <2> QED
    BY <2>2, <2>3, <2>10, <2>11, <2>12, <2>14, <2>15, <2>16, SMT
    DEF LedgerInv, ReservationsCovered, AllHeld
<1> QED
  BY <1>0, <1>1

-----------------------------------------------------------------------------
(* Steps of a request                                                      *)

\* What a step over an entry that is up has to show of the ledger it leaves.
LEMMA LiveStep ==
  ASSUME DeliveryInv, chain' = chain, hist' \in Histories,
         request' \in [Requests -> Slots],
         ledger' \in Ledgers, ledger'.up = TRUE, ledger'.terminal = FALSE,
         ledger'.faults <= ledger.faults,
         Room(ledger'.rec, chain, Total'),
         ~chain.stopped => Room(ledger'.disk, chain, Total'),
         ledger'.faults = MaxFaults => AllHeld' + ledger'.unper <= ledger'.rec.reserved
  PROVE  LedgerInv'
<1>1. LedgerTypes'
  BY DEF DeliveryInv, LedgerInv, LedgerTypes
<1>2. EntryInv'
  BY DEF EntryInv
<1>3. Total' \in Nat /\ chain \in Chains /\ ledger'.rec \in Records
  BY NextTotal, LedgerFields DEF DeliveryInv, LedgerInv, LedgerTypes
<1>4. ~TermEnded(chain) => Total' <= authoritative_cap(chain)
  BY <1>3, RoomChanges
<1>5. BillInv'
  BY <1>4 DEF BillInv
<1>6. ReservationsCovered'
  BY DEF ReservationsCovered, AllHeld
<1>7. ledger'.faults <= MaxFaults
  <2>1. ledger.faults <= MaxFaults /\ ledger \in Ledgers /\ MaxFaults \in Nat
    BY DeliveryConstants DEF DeliveryInv, LedgerInv, LedgerTypes
  <2>2. ledger.faults \in Nat /\ ledger'.faults \in Nat
    BY <2>1, LedgerFields
  <2> QED
    BY <2>1, <2>2, SMT
<1> QED
  BY <1>1, <1>2, <1>5, <1>6, <1>7 DEF LedgerInv

\* Steps that change one slot and no bill: what the ledger must then satisfy.
\* The slot's remainder may only shrink.
LEMMA SlotKeeps ==
  ASSUME DeliveryInv, UNCHANGED <<chain, ledger>>, hist' \in Histories,
         hist'.billed = hist.billed, NEW r \in Requests, NEW q \in Slots,
         request[r].phase # "idle", request' = [request EXCEPT ![r] = q],
         q.remaining <= request[r].remaining
  PROVE  LedgerInv'
<1>1. /\ LedgerTypes /\ request \in [Requests -> Slots] /\ Total \in Nat /\ Billed \in Nat
      /\ ledger \in Ledgers /\ chain \in Chains
  BY TotalNat DEF DeliveryInv, LedgerInv, LedgerTypes
<1>2. /\ request' \in [Requests -> Slots] /\ AllHeld \in Nat /\ AllHeld' \in Nat
      /\ AllHeld' = AllHeld + (q.remaining - request[r].remaining)
  BY <1>1, HeldChange
<1>3. request[r].remaining \in Nat /\ q.remaining \in Nat
  BY <1>1 DEF Slots
<1>4. AllHeld' <= AllHeld
  BY <1>2, <1>3, SMT
<1>5. Total' \in Nat /\ Total' <= Total /\ Billed' = Billed
  BY <1>1, <1>2, <1>4, SMT DEF Total, Billed
<1>6. LedgerTypes'
  BY <1>1, <1>2 DEF LedgerTypes
<1>7. ~AllIdle
  BY SMT DEF AllIdle, Idle
<1>8. EntryInv'
  BY <1>7 DEF DeliveryInv, LedgerInv, EntryInv
<1>9. ASSUME NEW rec \in Records, Room(rec, chain, Total)
      PROVE  Room(rec, chain, Total')
  BY <1>1, <1>5, <1>9, SMT DEF Room, Committed, Records
<1>10. authoritative_cap(chain) \in Nat /\ ledger.rec \in Records /\ ledger.disk \in Records
       /\ ledger.unper \in Nat /\ ledger.rec.reserved \in Nat
  BY <1>1, CapNat, LedgerFields
<1>11. BillInv'
  BY <1>1, <1>5, <1>9, <1>10, SMTT(30) DEF DeliveryInv, LedgerInv, BillInv
<1>12. ReservationsCovered'
  BY <1>2, <1>4, <1>10, SMT DEF DeliveryInv, LedgerInv, ReservationsCovered, AllHeld
<1> QED
  BY <1>6, <1>8, <1>11, <1>12 DEF DeliveryInv, LedgerInv

\* What the steps over a live entry start from.
LEMMA LiveFacts ==
  ASSUME DeliveryInv
  PROVE  /\ request \in [Requests -> Slots] /\ Total \in Nat /\ Billed \in Nat
         /\ ledger \in Ledgers /\ chain \in Chains /\ AllHeld \in Nat /\ hist \in Histories
         /\ ledger.rec \in Records /\ ledger.disk \in Records /\ ledger.unper \in Nat
         /\ ledger.rec.reserved \in Nat /\ ledger.faults \in Nat
         /\ ledger.faults <= MaxFaults /\ MaxFaults \in Nat
         /\ ledger.up \in BOOLEAN /\ ledger.terminal \in BOOLEAN
         /\ ~chain.stopped => Room(ledger.disk, chain, Total)
         /\ ledger.up = TRUE => /\ ledger.terminal = FALSE
                                /\ Room(ledger.rec, chain, Total)
                                /\ ledger.faults = MaxFaults
                                     => AllHeld + ledger.unper <= ledger.rec.reserved
<1>1. /\ LedgerTypes /\ request \in [Requests -> Slots] /\ Total \in Nat /\ Billed \in Nat
      /\ ledger \in Ledgers /\ chain \in Chains /\ AllHeld \in Nat /\ hist \in Histories
  BY TotalNat DEF DeliveryInv, LedgerInv, LedgerTypes
<1>2. /\ ledger.rec \in Records /\ ledger.disk \in Records /\ ledger.unper \in Nat
      /\ ledger.rec.reserved \in Nat /\ ledger.faults \in Nat
      /\ ledger.up \in BOOLEAN /\ ledger.terminal \in BOOLEAN
  BY <1>1, LedgerFields
<1>3. ledger.faults <= MaxFaults /\ MaxFaults \in Nat
  BY DeliveryConstants DEF DeliveryInv, LedgerInv
<1>4. ~chain.stopped => Room(ledger.disk, chain, Total)
  BY DEF DeliveryInv, LedgerInv, BillInv
<1>5. ledger.up = TRUE => /\ ledger.terminal = FALSE
                          /\ Room(ledger.rec, chain, Total)
                          /\ ledger.faults = MaxFaults
                               => AllHeld + ledger.unper <= ledger.rec.reserved
  BY <1>2 DEF DeliveryInv, LedgerInv, EntryInv, BillInv, ReservationsCovered, AllHeld
<1> QED
  BY <1>1, <1>2, <1>3, <1>4, <1>5

\* open_stream: what is granted fits under the cap.
LEMMA OpenKeeps ==
  ASSUME DeliveryInv, NEW r \in Requests, NEW n \in Asked, open_stream(r, n)
  PROVE  LedgerInv'
<1> DEFINE a == Available(ledger, n)
           q == [Idle EXCEPT !.phase = "open", !.remaining = a]
<1>1. /\ request \in [Requests -> Slots] /\ Total \in Nat /\ Billed \in Nat
      /\ ledger \in Ledgers /\ chain \in Chains /\ AllHeld \in Nat /\ hist \in Histories
      /\ ledger.rec \in Records /\ ledger.disk \in Records /\ ledger.unper \in Nat
      /\ ledger.rec.reserved \in Nat /\ ledger.faults \in Nat
      /\ ledger.faults <= MaxFaults /\ MaxFaults \in Nat
      /\ ~chain.stopped => Room(ledger.disk, chain, Total)
  BY LiveFacts
<1>2. /\ ledger.up = TRUE /\ ledger.terminal = FALSE /\ Room(ledger.rec, chain, Total)
      /\ ledger.faults = MaxFaults => AllHeld + ledger.unper <= ledger.rec.reserved
  BY LiveFacts DEF open_stream
<1>3. a \in Nat /\ a <= ledger.rec.cap - Committed(ledger.rec)
  BY <1>1, DeliveryConstants, SMT DEF open_stream, Available, Smaller, Committed, Records
<1> HIDE DEF a
<1>4. PICK w \in reserve(ledger, a) :
        /\ ledger' = w.l
        /\ request' = IF ~w.ok THEN request ELSE [request EXCEPT ![r] = q]
        /\ hist' = [hist EXCEPT !.asked = @ + 1, !.clean = @ /\ w.ok /\ ledger.unper = 0]
  BY DEF open_stream, a
<1>5. ReserveResult(ledger, a, w)
  BY <1>1, <1>3, ReserveOutcome
<1>6. hist' \in Histories /\ hist'.billed = hist.billed /\ chain' = chain
  <2> DEFINE b == hist.clean /\ w.ok /\ ledger.unper = 0
  <2>1. b \in BOOLEAN
    OBVIOUS
  <2>2. hist' = [hist EXCEPT !.asked = @ + 1, !.clean = b]
    BY <1>4
  <2> HIDE DEF b
  <2>3. hist' \in Histories /\ hist'.billed = hist.billed
    BY <1>1, <2>1, <2>2, HistoryAsked
  <2> QED
    BY <2>3 DEF open_stream
<1>7. /\ ledger' \in Ledgers /\ ledger'.up = TRUE /\ ledger'.terminal = FALSE
      /\ ledger'.faults <= ledger.faults
  BY <1>2, <1>4, <1>5 DEF ReserveResult, SameEntry
<1>8. /\ Room(Grown(ledger.rec, a), chain, Total + a)
      /\ Room(Grown(ledger.rec, a), chain, Total)
      /\ Grown(ledger.rec, a).reserved = ledger.rec.reserved + a
  BY <1>1, <1>2, <1>3, RoomChanges, RecordChanges, ZenonT(30)
<1>9. CASE w.ok = TRUE
  <2>1. q \in Slots /\ q.remaining = a /\ request[r].remaining \in Nat
    BY <1>1, <1>3 DEF Idle, Slots
  <2>2. /\ request' \in [Requests -> Slots] /\ AllHeld' \in Nat
        /\ AllHeld' = AllHeld + (q.remaining - request[r].remaining)
    BY <1>1, <1>4, <1>9, <2>1, HeldChange
  <2> HIDE DEF q
  <2>3. AllHeld' <= AllHeld + a
    BY <1>1, <1>3, <2>1, <2>2, SMT
  <2>4. Total' <= Total + a
    <3>1. Billed' = Billed
      BY <1>6 DEF Billed
    <3>2. Total' = Billed' + AllHeld' /\ Total = Billed + AllHeld
      BY DEF Total
    <3>3. \A b, h, k, m \in Nat : k <= h + m => b + k <= (b + h) + m
      BY SMT
    <3> QED
      BY <1>1, <1>3, <2>2, <2>3, <3>1, <3>2, <3>3
  <2>5. Total' \in Nat /\ Total + a \in Nat /\ Grown(ledger.rec, a) \in Records
    <3>1. Total' \in Nat
      BY <1>6, <2>2, NextTotal
    <3>2. Total + a \in Nat
      BY <1>1, <1>3, SMT
    <3>3. Grown(ledger.rec, a) \in Records
      BY <1>1, <1>3, RecordChanges
    <3> QED
      BY <3>1, <3>2, <3>3
  <2>6. Room(Grown(ledger.rec, a), chain, Total')
    BY <1>1, <1>8, <2>4, <2>5, RoomLess
  <2>7. /\ ledger'.rec = Grown(ledger.rec, a) /\ ledger'.disk = Grown(ledger.rec, a)
        /\ ledger'.unper = 0 /\ ledger'.faults = ledger.faults
    BY <1>4, <1>5, <1>9 DEF ReserveResult
  <2>8. ledger'.faults = MaxFaults => AllHeld' + ledger'.unper <= ledger'.rec.reserved
    BY <1>1, <1>2, <1>3, <1>8, <2>2, <2>3, <2>7, SMTT(30)
  <2> QED
    BY <1>6, <1>7, <2>2, <2>6, <2>7, <2>8, LiveStep
<1>10. CASE w.ok = FALSE
  <2>1. request' = request /\ AllHeld' = AllHeld /\ Total' = Total
    BY <1>4, <1>6, <1>10, HeldSame DEF Total, Billed
  <2>2. /\ ledger'.rec = ledger.rec /\ ledger'.disk \in {ledger.disk, Grown(ledger.rec, a)}
        /\ ledger'.faults < ledger.faults
    BY <1>4, <1>5, <1>10 DEF ReserveResult, WriteFailed
  <2>3. ledger'.faults # MaxFaults
    BY <1>1, <1>7, <2>2, LedgerFields, SMTT(30)
  <2>4. ~chain.stopped => Room(ledger'.disk, chain, Total')
    BY <1>1, <1>8, <2>1, <2>2
  <2> QED
    BY <1>1, <1>2, <1>6, <1>7, <2>1, <2>2, <2>3, <2>4, LiveStep
<1> QED
  BY <1>5, <1>9, <1>10 DEF ReserveResult

\* A record of n counted tokens: billed, they leave the request's remainder.
LEMMA RecordKeeps ==
  ASSUME DeliveryInv, NEW r \in Requests, request[r].phase = "open", NEW n \in Nat,
         NEW m \in Nat, NEW broken \in {"exact", "ambiguous"}, NEW done \in Slots,
         done.remaining = request[r].remaining, Record(r, n, m, broken, done)
  PROVE  LedgerInv'
<1>1. /\ request \in [Requests -> Slots] /\ Total \in Nat /\ Billed \in Nat
      /\ ledger \in Ledgers /\ chain \in Chains /\ AllHeld \in Nat /\ hist \in Histories
      /\ ledger.rec \in Records /\ ledger.disk \in Records /\ ledger.unper \in Nat
      /\ ledger.rec.reserved \in Nat /\ ledger.faults \in Nat
      /\ ledger.faults <= MaxFaults /\ MaxFaults \in Nat
      /\ ledger.up \in BOOLEAN /\ ledger.terminal \in BOOLEAN
      /\ ~chain.stopped => Room(ledger.disk, chain, Total)
  BY LiveFacts
<1>2. PICK w \in record_delivered(ledger, request[r].remaining, n) :
        /\ ledger' = w.l
        /\ request' = [request EXCEPT ![r] = IF w.ok THEN [done EXCEPT !.remaining = @ - n]
                                             ELSE [@ EXCEPT !.phase = broken]]
        /\ hist' = [hist EXCEPT !.billed = IF w.ok THEN @ + n ELSE @,
                                !.shown = IF w.ok THEN @ + m ELSE @,
                                !.clean = @ /\ w.ok]
        /\ chain' = chain
  BY DEF Record
<1>3. request[r] \in Slots /\ request[r].remaining \in Nat
  BY <1>1 DEF Slots
<1>4. RecordResult(ledger, request[r].remaining, n, w)
  BY <1>1, <1>3, RecordOutcome
<1>5. CASE w.ok = FALSE
  <2> DEFINE q == [request[r] EXCEPT !.phase = broken]
  <2>1. q \in Slots /\ q.remaining = request[r].remaining
    BY <1>3 DEF Slots
  <2>2. request' = [request EXCEPT ![r] = q]
    BY <1>2, <1>5
  <2>3. hist' = [hist EXCEPT !.billed = hist.billed, !.shown = hist.shown, !.clean = FALSE]
    BY <1>2, <1>5
  <2>4. hist' \in Histories /\ hist'.billed = hist.billed
    <3>1. hist \in Histories /\ hist.billed \in Nat /\ hist.shown \in Nat
      BY <1>1, HistoryFields
    <3> QED
      BY <2>3, <3>1 DEF Histories
  <2>5. CASE w.l = ledger
    <3>1. UNCHANGED <<chain, ledger>> /\ q.remaining <= request[r].remaining
      BY <1>2, <1>3, <2>1, <2>5, SMT
    <3>2. request[r].phase # "idle"
      OBVIOUS
    <3> HIDE DEF q
    <3> QED
      BY <2>1, <2>2, <2>4, <3>1, <3>2, SlotKeeps
  <2>6. CASE w.l # ledger
    <3>1. /\ ~ledger.terminal /\ w.l.rec = ledger.rec /\ w.l.faults < ledger.faults
          /\ w.l.disk \in {ledger.disk, Split(ledger.rec, ledger.unper + n)}
          /\ ledger.unper + n <= ledger.rec.reserved
      BY <1>4, <1>5, <2>6 DEF RecordResult
    <3>2. ledger.up = TRUE /\ ledger.terminal = FALSE
      BY <1>1, <3>1, SMT DEF DeliveryInv, LedgerInv, EntryInv, AllIdle, Idle
    <3> HIDE DEF q
    <3>3. /\ request' \in [Requests -> Slots] /\ AllHeld' \in Nat
          /\ AllHeld' = AllHeld + (q.remaining - request[r].remaining)
      BY <1>1, <2>1, <2>2, HeldChange
    <3>4. AllHeld' = AllHeld
      BY <1>1, <1>3, <2>1, <3>3, SMT
    <3>5. Total' = Total
      BY <2>4, <3>4 DEF Total, Billed
    <3>6. Room(ledger.rec, chain, Total)
      BY <3>2, LiveFacts
    <3>7. Room(Split(ledger.rec, ledger.unper + n), chain, Total)
      <4>1. ledger.unper + n \in Nat
        BY <1>1, SMT
      <4> QED
        BY <1>1, <3>6, <4>1, RoomChanges
    <3>8. /\ ledger' \in Ledgers /\ ledger'.up = TRUE /\ ledger'.terminal = FALSE
          /\ ledger'.faults <= ledger.faults /\ ledger'.faults \in Nat
      BY <1>2, <1>4, <3>2, LedgerFields DEF RecordResult, SameEntry
    <3>9. ledger'.faults # MaxFaults
      BY <1>1, <1>2, <3>1, <3>8, SMT
    <3>10. ~chain.stopped => Room(ledger'.disk, chain, Total')
      BY <1>1, <1>2, <3>1, <3>5, <3>7
    <3>11. Room(ledger'.rec, chain, Total')
      BY <1>2, <3>1, <3>5, <3>6
    <3> QED
      BY <1>2, <2>4, <3>3, <3>8, <3>9, <3>10, <3>11, LiveStep
  <2> QED
    BY <2>5, <2>6
<1>6. CASE w.ok = TRUE
  <2> DEFINE q == [done EXCEPT !.remaining = @ - n]
  <2>1. /\ n <= request[r].remaining /\ ~ledger.terminal /\ w.l.faults = ledger.faults
        /\ ledger.unper + n <= ledger.rec.reserved
        /\ \/ /\ w.l.unper = ledger.unper + n
              /\ w.l.rec = ledger.rec /\ w.l.disk = ledger.disk
           \/ /\ w.l.unper = 0 /\ w.l.rec = Split(ledger.rec, ledger.unper + n)
              /\ w.l.disk = w.l.rec \/ w.l.disk = ledger.disk
    BY <1>4, <1>6 DEF RecordResult
  <2>2. ledger.up = TRUE /\ ledger.terminal = FALSE
    BY <1>1, <2>1, SMTT(30) DEF DeliveryInv, LedgerInv, EntryInv, AllIdle, Idle
  <2>3. q \in Slots /\ q.remaining = request[r].remaining - n
    <3>1. request[r].remaining - n \in Nat
      BY <1>3, <2>1, SMT
    <3> QED
      BY <3>1 DEF Slots
  <2>4. request' = [request EXCEPT ![r] = q]
    BY <1>2, <1>6
  <2> HIDE DEF q
  <2>5. /\ request' \in [Requests -> Slots] /\ AllHeld' \in Nat
        /\ AllHeld' = AllHeld + (q.remaining - request[r].remaining)
    BY <1>1, <2>3, <2>4, HeldChange
  <2>6. AllHeld' = AllHeld - n
    BY <1>1, <1>3, <2>3, <2>5, SMT
  <2>7. hist' \in Histories /\ hist'.billed = hist.billed + n
    <3>1. hist.billed + n \in Nat /\ hist.shown + m \in Nat /\ hist.clean \in BOOLEAN
      BY <1>1, HistoryFields, SMT
    <3>2. hist' = [hist EXCEPT !.billed = hist.billed + n, !.shown = hist.shown + m,
                               !.clean = hist.clean]
      BY <1>2, <1>6, <3>1
    <3>3. hist \in Histories
      BY <1>1
    <3> QED
      BY <3>1, <3>2, <3>3 DEF Histories
  <2>8. Total' = Total
    <3>1. Billed' = Billed + n
      BY <1>1, <2>7, HistoryFields, LedgerConstants, SMT DEF Billed
    <3>2. Total' = Billed' + AllHeld' /\ Total = Billed + AllHeld
      BY DEF Total
    <3>3. \A b, h \in Nat : (b + n) + (h - n) = b + h
      BY SMT
    <3> QED
      BY <1>1, <2>6, <3>1, <3>2, <3>3
  <2>9. /\ Room(ledger.rec, chain, Total)
        /\ ledger.faults = MaxFaults => AllHeld + ledger.unper <= ledger.rec.reserved
    BY <2>2, LiveFacts
  <2>10. /\ Room(Split(ledger.rec, ledger.unper + n), chain, Total)
         /\ Split(ledger.rec, ledger.unper + n).reserved
              = ledger.rec.reserved - (ledger.unper + n)
    <3>1. ledger.unper + n \in Nat
      BY <1>1, SMT
    <3> QED
      BY <1>1, <2>9, <3>1, RoomChanges, RecordChanges
  <2>11. /\ ledger' \in Ledgers /\ ledger'.up = TRUE /\ ledger'.terminal = FALSE
         /\ ledger'.faults <= ledger.faults
    BY <1>2, <1>4, <2>2 DEF RecordResult, SameEntry
  <2>12. Room(ledger'.rec, chain, Total')
    BY <1>2, <2>1, <2>8, <2>9, <2>10
  <2>13. ~chain.stopped => Room(ledger'.disk, chain, Total')
    BY <1>1, <1>2, <2>1, <2>8, <2>9, <2>10
  <2>14. ledger'.faults = MaxFaults => AllHeld' + ledger'.unper <= ledger'.rec.reserved
    BY <1>1, <1>2, <2>1, <2>6, <2>9, <2>10, SMT
  <2> QED
    BY <1>2, <2>5, <2>7, <2>11, <2>12, <2>13, <2>14, LiveStep
<1> QED
  BY <1>4, <1>5, <1>6 DEF RecordResult

\* The ledgers an ended stream can leave, whatever was written.
EndedLedger(l, n, k) ==
  /\ SameEntry(l, k)
  /\ k.disk \in {l.disk, Moved(l), Freed(Moved(l), n)}
  /\ \/ k.rec = l.rec /\ k.unper = l.unper
     \/ k.rec = Moved(l) /\ k.unper = 0
     \/ k.rec = Freed(Moved(l), n) /\ k.unper = 0

\* An ended stream gives its remainder back, or leaves it reserved.
LEMMA EndKeeps ==
  ASSUME DeliveryInv, NEW r \in Requests, request[r].phase # "idle", ~ledger.terminal,
         request' = [request EXCEPT ![r] = Idle], chain' = chain,
         hist' \in Histories, hist'.billed = hist.billed,
         EndedLedger(ledger, request[r].remaining, ledger')
  PROVE  LedgerInv'
<1> DEFINE n == request[r].remaining
<1>1. /\ request \in [Requests -> Slots] /\ Total \in Nat /\ Billed \in Nat
      /\ ledger \in Ledgers /\ chain \in Chains /\ AllHeld \in Nat
      /\ ledger.rec \in Records /\ ledger.disk \in Records /\ ledger.unper \in Nat
      /\ ledger.rec.reserved \in Nat /\ ledger.faults \in Nat
      /\ ledger.faults <= MaxFaults /\ MaxFaults \in Nat
      /\ ledger.up \in BOOLEAN /\ ledger.terminal \in BOOLEAN
      /\ ~chain.stopped => Room(ledger.disk, chain, Total)
  BY LiveFacts
<1>2. ledger.up = TRUE /\ ledger.terminal = FALSE
  <2>1. ledger.up \in BOOLEAN /\ ledger.terminal \in BOOLEAN
    BY <1>1
  <2>2. EntryInv
    BY DEF DeliveryInv, LedgerInv
  <2>3. ~AllIdle
    BY SMT DEF AllIdle, Idle
  <2> QED
    BY <2>1, <2>2, <2>3 DEF EntryInv
<1>3. /\ Room(ledger.rec, chain, Total)
      /\ ledger.faults = MaxFaults => AllHeld + ledger.unper <= ledger.rec.reserved
  BY <1>2, LiveFacts
<1>4. n \in Nat /\ Idle \in Slots /\ Idle.remaining = 0
  BY <1>1 DEF Slots, Idle
<1> HIDE DEF n
<1>5. /\ request' \in [Requests -> Slots] /\ AllHeld' \in Nat /\ AllHeld' = AllHeld - n
  <2>1. /\ request' \in [Requests -> Slots] /\ AllHeld' \in Nat
        /\ AllHeld' = AllHeld + (Idle.remaining - request[r].remaining)
    BY <1>1, <1>4, HeldChange
  <2> QED
    BY <1>1, <1>4, <2>1, SMT DEF n
<1>6. Total' \in Nat /\ Total = Total' + n /\ Total' <= Total
  <2>1. Total' \in Nat
    BY <1>5, NextTotal
  <2>2. Billed' = Billed
    BY DEF Billed
  <2>3. Total' = Billed' + AllHeld' /\ Total = Billed + AllHeld
    BY DEF Total
  <2>4. PICK h \in Nat, t \in Nat : h = AllHeld' /\ t = Total'
    BY <1>5, <2>1
  <2>5. t = Billed + h /\ h = AllHeld - n
    BY <1>5, <2>2, <2>3, <2>4
  <2>6. Total = t + n /\ t <= Total
    BY <1>1, <1>4, <2>3, <2>5, SMT
  <2> QED
    BY <2>4, <2>6
<1>7. /\ Room(Moved(ledger), chain, Total)
      /\ Moved(ledger).reserved = ledger.rec.reserved - ledger.unper
  BY <1>1, <1>3, RoomChanges, RecordChanges DEF Moved
<1>8. PICK t \in Nat : t = Total'
  BY <1>6
<1>9. /\ Room(ledger.rec, chain, t)
      /\ ~chain.stopped => Room(ledger.disk, chain, t)
  BY <1>1, <1>3, <1>6, <1>8, RoomLess
<1>10. /\ Room(Moved(ledger), chain, t) /\ Room(Freed(Moved(ledger), n), chain, t)
       /\ Freed(Moved(ledger), n).reserved = ledger.rec.reserved - ledger.unper - n
  <2>1. /\ Freed(Moved(ledger), n).reserved = Moved(ledger).reserved - n
        /\ Freed(Moved(ledger), n).cap = Moved(ledger).cap
        /\ Freed(Moved(ledger), n).anchor = Moved(ledger).anchor
        /\ Freed(Moved(ledger), n).local = Moved(ledger).local
        /\ {"cap", "anchor", "local", "reserved"} \subseteq DOMAIN Moved(ledger)
    BY <1>1 DEF Freed, Moved, Split, Records
  <2>2. /\ Moved(ledger).reserved \in Int /\ Moved(ledger).cap \in Int
        /\ Moved(ledger).anchor \in Int /\ Moved(ledger).local \in Int
    <3>1. ledger.rec \in Records /\ ledger.unper \in Nat
      BY <1>1
    <3> QED
      BY <3>1, SMT DEF Moved, Split, Records
  <2>3. Total = t + n
    BY <1>6, <1>8
  <2> QED
    BY <1>4, <1>7, <1>8, <2>1, <2>2, <2>3, SMT DEF Room, Committed
<1>11. Room(ledger'.rec, chain, Total')
  BY <1>8, <1>9, <1>10 DEF EndedLedger, n
<1>12. ~chain.stopped => Room(ledger'.disk, chain, Total')
  BY <1>8, <1>9, <1>10 DEF EndedLedger, n
<1>13. /\ ledger' \in Ledgers /\ ledger'.up = TRUE /\ ledger'.terminal = FALSE
       /\ ledger'.faults <= ledger.faults /\ ledger'.faults \in Nat
  BY <1>2, LedgerFields DEF EndedLedger, SameEntry
<1>14. ledger'.faults = MaxFaults => AllHeld' + ledger'.unper <= ledger'.rec.reserved
  <2>1. ledger'.faults = MaxFaults => AllHeld + ledger.unper <= ledger.rec.reserved
    BY <1>1, <1>3, <1>13, SMT
  <2>2. \/ ledger'.rec = ledger.rec /\ ledger'.unper = ledger.unper
        \/ ledger'.rec = Moved(ledger) /\ ledger'.unper = 0
        \/ ledger'.rec = Freed(Moved(ledger), n) /\ ledger'.unper = 0
    BY DEF EndedLedger, n
  <2>3. PICK h \in Nat : h = AllHeld' /\ h = AllHeld - n
    BY <1>5
  <2>4. ledger'.faults = MaxFaults => h + ledger'.unper <= ledger'.rec.reserved
    BY <1>1, <1>4, <1>7, <1>10, <2>1, <2>2, <2>3, SMT
  <2> QED
    BY <2>3, <2>4
<1> QED
  BY <1>5, <1>11, <1>12, <1>13, <1>14, LiveStep

\* AuthoritativeDeliveryEvent::Finished, whichever way the stream ended.
LEMMA FinishedKeeps ==
  ASSUME DeliveryInv, NEW r \in Requests, Finished(r)
  PROVE  LedgerInv'
<1> DEFINE n == request[r].remaining
<1>1. /\ request \in [Requests -> Slots] /\ ledger \in Ledgers /\ hist \in Histories
      /\ ledger.terminal \in BOOLEAN
  BY LiveFacts
<1>2. /\ request[r] \in Slots /\ n \in Nat /\ Idle \in Slots /\ Idle.remaining = 0
      /\ request[r].phase # "idle" /\ Idle.remaining <= n
  BY <1>1, SMT DEF Slots, Idle, Finished
<1>3. PICK w \in IF request[r].phase = "exact" THEN finish_exact(ledger, n)
                 ELSE finish_ambiguous(ledger) :
        /\ ledger' = w.l
        /\ hist' = [hist EXCEPT !.clean = @ /\ w.ok /\ request[r].phase = "exact"]
  BY DEF Finished
<1>4. request' = [request EXCEPT ![r] = Idle] /\ chain' = chain
  BY DEF Finished
<1>5. hist' \in Histories /\ hist'.billed = hist.billed
  <2> DEFINE b == hist.clean /\ w.ok /\ request[r].phase = "exact"
  <2>1. b \in BOOLEAN
    OBVIOUS
  <2>2. hist' = [hist EXCEPT !.clean = b]
    BY <1>3
  <2>3. hist \in Histories
    BY <1>1
  <2> HIDE DEF b
  <2> QED
    BY <2>1, <2>2, <2>3 DEF Histories
<1>6. CASE ledger.terminal = TRUE
  <2>1. w.l = ledger
    BY <1>3, <1>6, SMT DEF finish_exact, finish_ambiguous
  <2>2. UNCHANGED <<chain, ledger>>
    BY <1>3, <1>4, <2>1
  <2> QED
    BY <1>2, <1>4, <1>5, <2>2, SlotKeeps
<1>7. CASE ledger.terminal = FALSE
  <2>1. EndedLedger(ledger, n, w.l)
    <3>1. CASE request[r].phase = "exact"
      <4>1. w \in finish_exact(ledger, n)
        BY <1>3, <3>1
      <4> HIDE DEF n
      <4>2. FinishResult(ledger, n, w)
        BY <1>1, <1>2, <1>7, <4>1, FinishOutcome
      <4> QED
        BY <4>2 DEF FinishResult, EndedLedger, WriteFailed
    <3>2. CASE request[r].phase # "exact"
      <4>1. w \in flush_delivered(ledger)
        BY <1>3, <1>7, <3>2 DEF finish_ambiguous
      <4> HIDE DEF n
      <4>2. FlushResult(ledger, w)
        BY <1>1, <4>1, FlushOutcome
      <4> QED
        BY <4>2 DEF FlushResult, EndedLedger, WriteFailed
    <3> QED
      BY <3>1, <3>2
  <2> QED
    BY <1>2, <1>3, <1>4, <1>5, <1>7, <2>1, EndKeeps
<1> QED
  BY <1>1, <1>6, <1>7

-----------------------------------------------------------------------------
(* Crashes                                                                 *)

\* After a crash every slot is idle.
LEMMA IdleNext ==
  ASSUME request' = [r \in Requests |-> Idle]
  PROVE  AllIdle' /\ AllHeld' = 0 /\ request' \in [Requests -> Slots]
<1>1. \A r \in Requests : Held'[r] = 0
  BY DEF Held, Idle
<1>2. Finite(Requests)
  BY DeliveryConstants
<1>3. AllHeld' = 0
  BY <1>1, <1>2, SumZero DEF AllHeld
<1> QED
  BY <1>3 DEF AllIdle, Idle, Slots

\* A crash keeps a file that has room, and forgets the entry and the streams.
LEMMA RestartKeeps ==
  ASSUME DeliveryInv, NEW disk \in Records, Restarted(disk),
         ~chain.stopped => Room(disk, chain, Total)
  PROVE  LedgerInv'
<1>1. /\ ledger \in Ledgers /\ chain \in Chains /\ hist \in Histories /\ Total \in Nat
      /\ Billed \in Nat /\ AllHeld \in Nat
  BY LiveFacts
<1>2. /\ ledger' \in Ledgers /\ ledger'.up = FALSE /\ ledger'.terminal = FALSE
      /\ ledger'.disk = disk /\ ledger'.faults = ledger.faults
  <2>1. NoRecord \in Records
    BY DEF NoRecord, Records
  <2>2. ledger' = [ledger EXCEPT !.rec = NoRecord, !.unper = 0, !.up = FALSE,
                                 !.terminal = FALSE, !.disk = disk]
    BY DEF Restarted
  <2> QED
    BY <1>1, <2>1, <2>2 DEF Ledgers
<1>3. hist' \in Histories /\ hist'.billed = hist.billed /\ chain' = chain
  BY <1>1, HistoryCrash DEF Restarted
<1>4. AllIdle' /\ AllHeld' = 0 /\ request' \in [Requests -> Slots]
  BY IdleNext DEF Restarted
<1>5. Total' = Billed
  BY <1>1, <1>3, <1>4, SMT DEF Total, Billed
<1>6. Billed <= Total
  BY <1>1, SMT DEF Total
<1>7. LedgerTypes'
  BY <1>1, <1>2, <1>3, <1>4 DEF LedgerTypes
<1>8. EntryInv'
  BY <1>2, <1>4 DEF EntryInv
<1>9. ~chain.stopped => Room(disk, chain, Billed)
  BY <1>1, <1>6, RoomLess
<1>10. ~TermEnded(chain) => Billed <= authoritative_cap(chain)
  <2>1. authoritative_cap(chain) \in Nat
    BY <1>1, CapNat
  <2> QED
    BY <1>1, <1>6, <2>1, SMT DEF DeliveryInv, LedgerInv, BillInv
<1>11. BillInv'
  BY <1>2, <1>3, <1>5, <1>9, <1>10 DEF BillInv
<1> QED
  BY <1>2, <1>7, <1>8, <1>11 DEF DeliveryInv, LedgerInv, ReservationsCovered

\* A crash between the two writes of finish_exact finds the first one.
LEMMA CrashInFinishKeeps ==
  ASSUME DeliveryInv, NEW r \in Requests, CrashInFinish(r)
  PROVE  LedgerInv'
<1>1. /\ ledger \in Ledgers /\ chain \in Chains /\ Total \in Nat /\ ledger.unper \in Nat
      /\ ledger.rec \in Records /\ ledger.up \in BOOLEAN
      /\ ~chain.stopped => Room(ledger.disk, chain, Total)
  BY LiveFacts
<1>2. PICK f \in flush_delivered(ledger) : f.ok /\ Restarted(f.l.disk)
  BY DEF CrashInFinish
<1>3. ledger.up = TRUE
  BY <1>1, SMT DEF DeliveryInv, LedgerInv, EntryInv, AllIdle, Idle, CrashInFinish
<1>4. Room(ledger.rec, chain, Total)
  BY <1>3, LiveFacts
<1>5. Room(Moved(ledger), chain, Total)
  BY <1>1, <1>4, RoomChanges DEF Moved
<1>6. FlushResult(ledger, f)
  BY <1>1, FlushOutcome
<1>7. f.l.disk \in Records /\ f.l.disk \in {ledger.disk, Moved(ledger)}
  BY <1>6, LedgerFields DEF FlushResult, SameEntry, WriteFailed
<1>8. ~chain.stopped => Room(f.l.disk, chain, Total)
  BY <1>1, <1>5, <1>7
<1> QED
  BY <1>2, <1>7, <1>8, RestartKeeps

-----------------------------------------------------------------------------
(* Steps of the contract                                                   *)

\* A week's quota is at least a tick and at most the funded volume.
LEMMA QuotaBounds ==
  /\ TICK_SIZE \in Nat /\ TokensPerWeek \in Nat /\ Funded \in Nat /\ SubWeeks \in Nat
  /\ 0 < TICK_SIZE /\ TICK_SIZE <= TokensPerWeek /\ TokensPerWeek <= Funded
<1>1. /\ TICK_SIZE \in Nat /\ TokensPerWeek \in Nat /\ Funded \in Nat /\ SubWeeks \in Nat
      /\ 0 < TICK_SIZE /\ TICK_SIZE <= TokensPerWeek
  BY LedgerConstants, DeliveryConstants, SMT
<1>2. \A a \in Nat, k \in Nat : a <= a * (k + 1)
  BY SMT
<1>3. CASE SubWeeks = 0
  BY <1>1, <1>3, LedgerConstants, SMT
<1>4. CASE SubWeeks # 0
  <2>1. SubWeeks - 1 \in Nat /\ SubWeeks = (SubWeeks - 1) + 1
    BY <1>1, <1>4, SMT
  <2>2. TokensPerWeek * SubWeeks = Funded
    BY <1>4, LedgerConstants
  <2> QED
    BY <1>1, <1>2, <2>1, <2>2
<1> QED
  BY <1>1, <1>3, <1>4

\* The contract moves on: its cap does not fall while the term lasts.
MovesOn(c, d) ==
  /\ d \in Chains
  /\ authoritative_cap(c) <= authoritative_cap(d) \/ TermEnded(d)
  /\ TermEnded(c) => TermEnded(d)
  /\ c.stopped => d.stopped

\* What the ledger has keeps its room when the contract moves on.
LEMMA ChainKeeps ==
  ASSUME DeliveryInv, UNCHANGED <<ledger, request, hist>>, MovesOn(chain, chain')
  PROVE  LedgerInv'
<1>1. /\ ledger \in Ledgers /\ chain \in Chains /\ Total \in Nat
      /\ ledger.rec \in Records /\ ledger.disk \in Records
  BY LiveFacts
<1>2. authoritative_cap(chain) \in Nat /\ authoritative_cap(chain') \in Nat
  BY <1>1, CapNat DEF MovesOn
<1>3. ASSUME NEW rec \in Records, Room(rec, chain, Total)
      PROVE  Room(rec, chain', Total)
  <2>1. rec.cap \in Nat
    BY DEF Records
  <2> QED
    BY <1>2, <1>3, <2>1, SMT DEF Room, MovesOn
<1>4. Total' = Total /\ (AllIdle' <=> AllIdle)
  BY HeldSame DEF Total, Billed
<1>5. LedgerTypes'
  BY DEF DeliveryInv, LedgerInv, LedgerTypes, MovesOn
<1>6. EntryInv'
  BY <1>4 DEF DeliveryInv, LedgerInv, EntryInv, MovesOn
<1>7. ~TermEnded(chain') => Total <= authoritative_cap(chain')
  BY <1>1, <1>2, SMT DEF DeliveryInv, LedgerInv, BillInv, MovesOn
<1>8. BillInv'
  BY <1>1, <1>3, <1>4, <1>7 DEF DeliveryInv, LedgerInv, BillInv, MovesOn
<1>9. ReservationsCovered'
  BY HeldSame DEF DeliveryInv, LedgerInv, ReservationsCovered, AllHeld
<1> QED
  BY <1>5, <1>6, <1>8, <1>9 DEF DeliveryInv, LedgerInv

\* Accepting the probe opens the first week's quota, or the funded volume.
LEMMA AcceptMoves ==
  ASSUME DeliveryInv, acceptProbe
  PROVE  MovesOn(chain, chain') /\ ChainInv'
<1>1. /\ chain \in Chains /\ ~chain.probe /\ chain.week = 0 /\ chain.pending = 0
      /\ driver \in Drivers
  BY DEF DeliveryInv, LedgerInv, LedgerTypes, DriverTypes, ChainInv, acceptProbe
<1>2. chain' = [chain EXCEPT !.probe = TRUE, !.pending = TICK_SIZE, !.base = 0]
  BY DEF acceptProbe
<1>3. /\ chain' \in Chains /\ chain'.probe = TRUE /\ chain'.pending = TICK_SIZE
      /\ chain'.base = 0 /\ chain'.week = 0 /\ chain'.stopped = chain.stopped
  BY <1>1, <1>2, QuotaBounds DEF Chains
<1>4. ~TermEnded(chain) /\ ~TermEnded(chain')
  BY <1>1, <1>3, QuotaBounds, SMT DEF TermEnded, IsSubscription
<1>5. /\ authoritative_cap(chain) = TICK_SIZE
      /\ TICK_SIZE <= authoritative_cap(chain')
  BY <1>1, <1>3, <1>4, QuotaBounds, SMT DEF authoritative_cap, Smaller
<1>6. driver'.pc = "sync"
  BY <1>1 DEF acceptProbe, Drivers
<1>7. MovesOn(chain, chain')
  BY <1>3, <1>4, <1>5 DEF MovesOn
<1>8. 0 <= TICK_SIZE /\ TICK_SIZE <= Funded
  BY QuotaBounds, SMT
<1>9. /\ chain'.base <= chain'.pending /\ chain'.pending <= Funded
      /\ chain'.pending <= authoritative_cap(chain')
  BY <1>3, <1>5, <1>8
<1>10. ChainInv'
  BY <1>3, <1>6, <1>9 DEF ChainInv
<1> QED
  BY <1>7, <1>10

\* A claim stays under the cap, which it does not move.
LEMMA ClaimMoves ==
  ASSUME DeliveryInv, NEW n \in 1..Funded, claimTokens(n)
  PROVE  MovesOn(chain, chain') /\ ChainInv'
<1>1. chain \in Chains /\ authoritative_cap(chain) \in Nat /\ ChainInv
  BY CapNat DEF DeliveryInv, LedgerInv, LedgerTypes
<1>2. CASE chain' = chain
  <2>1. driver' = driver
    BY DEF claimTokens
  <2>2. MovesOn(chain, chain')
    BY <1>1, <1>2, SMT DEF MovesOn
  <2>3. ChainInv'
    BY <1>1, <1>2, <2>1 DEF ChainInv
  <2> QED
    BY <2>2, <2>3
<1>3. CASE chain' # chain
  <2>1. /\ ~chain.stopped /\ chain.probe /\ n > chain.pending /\ n <= ClaimCap
        /\ chain' = [chain EXCEPT !.pending = n] /\ driver' = driver
    BY <1>3 DEF claimTokens
  <2>2. n \in Nat /\ n <= Funded
    BY QuotaBounds, SMT
  <2>3. /\ chain' \in Chains /\ chain'.probe = chain.probe /\ chain'.pending = n
        /\ chain'.base = chain.base /\ chain'.week = chain.week
        /\ chain'.stopped = chain.stopped
    BY <1>1, <2>1, <2>2 DEF Chains
  <2>4. chain.pending \in Nat /\ chain.base \in Nat /\ chain.week \in Nat
    BY <1>1, CapNat
  <2>5. ~TermEnded(chain) /\ ~TermEnded(chain')
    BY <2>1, <2>2, <2>3, <2>4, SMT DEF ClaimCap, TermEnded
  <2>6. authoritative_cap(chain') = authoritative_cap(chain) /\ n <= authoritative_cap(chain)
    BY <2>1, <2>3, <2>5, SMT DEF authoritative_cap, ClaimCap
  <2> QED
    BY <1>1, <2>1, <2>2, <2>3, <2>4, <2>5, <2>6, SMT DEF MovesOn, ChainInv
<1> QED
  BY <1>2, <1>3

\* A settled week opens the next quota over everything claimed so far.
LEMMA WeekMoves ==
  ASSUME DeliveryInv, settleWeek
  PROVE  MovesOn(chain, chain') /\ ChainInv'
<1>1. chain \in Chains /\ ChainInv /\ driver' = driver /\ chain.probe /\ IsSubscription
  BY DEF DeliveryInv, LedgerInv, LedgerTypes, settleWeek
<1>2. chain.pending \in Nat /\ chain.base \in Nat /\ chain.week \in Nat
  BY <1>1, CapNat
<1>3. /\ chain' \in Chains /\ chain'.probe = chain.probe /\ chain'.pending = chain.pending
      /\ chain'.base = chain.pending /\ chain'.week = chain.week + 1
      /\ chain'.stopped = chain.stopped
  <2>1. chain' = [chain EXCEPT !.week = chain.week + 1, !.base = chain.pending]
    BY DEF settleWeek
  <2>2. chain.week + 1 \in Nat
    BY <1>2, SMT
  <2> QED
    BY <1>1, <1>2, <2>1, <2>2 DEF Chains
<1>4. TermEnded(chain) => TermEnded(chain')
  BY <1>2, <1>3, QuotaBounds, SMT DEF TermEnded
<1>5. CASE TermEnded(chain')
  BY <1>1, <1>2, <1>3, <1>4, <1>5, SMT DEF MovesOn, ChainInv, authoritative_cap
<1>6. CASE ~TermEnded(chain')
  <2>1. /\ authoritative_cap(chain') = Smaller(chain.pending + TokensPerWeek, Funded)
        /\ authoritative_cap(chain) = Smaller(chain.base + TokensPerWeek, Funded)
    BY <1>1, <1>3, <1>4, <1>6 DEF authoritative_cap
  <2>2. chain.base <= chain.pending /\ chain.pending <= Funded
    BY <1>1 DEF ChainInv
  <2>3. /\ authoritative_cap(chain) <= authoritative_cap(chain')
        /\ chain.pending <= authoritative_cap(chain')
    BY <1>2, <2>1, <2>2, QuotaBounds, SMT DEF Smaller
  <2> QED
    BY <1>1, <1>2, <1>3, <1>4, <2>2, <2>3, SMT DEF MovesOn, ChainInv
<1> QED
  BY <1>5, <1>6

\* The deal stops.
LEMMA StopMoves ==
  ASSUME DeliveryInv, stop
  PROVE  MovesOn(chain, chain') /\ ChainInv'
<1>1. chain \in Chains /\ ChainInv /\ driver' = driver /\ authoritative_cap(chain) \in Nat
  BY CapNat DEF DeliveryInv, LedgerInv, LedgerTypes, stop
<1>2. /\ chain' \in Chains /\ chain'.probe = chain.probe /\ chain'.pending = chain.pending
      /\ chain'.base = chain.base /\ chain'.week = chain.week /\ chain'.stopped = TRUE
  BY <1>1 DEF stop, Chains
<1>3. /\ authoritative_cap(chain') = authoritative_cap(chain)
      /\ TermEnded(chain') <=> TermEnded(chain)
  BY <1>2 DEF authoritative_cap, TermEnded
<1> QED
  BY <1>1, <1>2, <1>3, SMT DEF MovesOn, ChainInv

-----------------------------------------------------------------------------
(* The invariant holds                                                     *)

\* A step that touches only the driver keeps what the ledger has.
LEMMA DriverOnlyKeeps ==
  ASSUME DeliveryInv, UNCHANGED <<chain, ledger, request, hist>>
  PROVE  LedgerInv'
<1>1. AllHeld' = AllHeld /\ (AllIdle' <=> AllIdle) /\ Total' = Total
  BY HeldSame DEF Total, Billed
<1>2. LedgerTypes'
  BY DEF DeliveryInv, LedgerInv, LedgerTypes
<1>3. EntryInv' /\ BillInv'
  BY <1>1 DEF DeliveryInv, LedgerInv, EntryInv, BillInv
<1>4. ReservationsCovered'
  BY <1>1 DEF DeliveryInv, LedgerInv, ReservationsCovered, AllHeld
<1> QED
  BY <1>2, <1>3, <1>4 DEF DeliveryInv, LedgerInv

\* Every step over one request keeps what the ledger has.
LEMMA RelayKeeps ==
  ASSUME DeliveryInv, NEW r \in Requests, Relay(r)
  PROVE  LedgerInv'
<1>1. /\ request \in [Requests -> Slots] /\ request[r] \in Slots /\ hist \in Histories
      /\ request[r].remaining \in Nat /\ request[r].owed \in Nat /\ request[r].charged \in Nat
      /\ Counts \subseteq Nat
  BY LiveFacts, DeliveryConstants DEF Slots
<1>2. CASE \E n \in Asked : open_stream(r, n)
  BY <1>2, OpenKeeps
<1>3. ASSUME NEW n \in Counts, CountedChunk(r, n)
      PROVE  LedgerInv'
  BY <1>1, <1>3, RecordKeeps DEF CountedChunk
<1>4. ASSUME NEW n \in Counts, UncountedChunk(r, n)
      PROVE  LedgerInv'
  <2>1. CASE authorize_exposure(request[r].remaining, request[r].charged)
    <3> DEFINE q == [request[r] EXCEPT !.owed = n]
    <3>1. q \in Slots /\ q.remaining <= request[r].remaining
      BY <1>1, SMT DEF Slots
    <3>2. /\ request' = [request EXCEPT ![r] = q] /\ request[r].phase # "idle"
          /\ UNCHANGED <<chain, ledger>> /\ hist' = [hist EXCEPT !.shown = @ + n]
      BY <1>4, <2>1 DEF UncountedChunk
    <3>3. hist' \in Histories /\ hist'.billed = hist.billed
      <4>1. hist.shown + n \in Nat /\ hist' = [hist EXCEPT !.shown = hist.shown + n]
        BY <1>1, <3>2, HistoryFields, SMT
      <4> QED
        BY <1>1, <4>1 DEF Histories
    <3> HIDE DEF q
    <3> QED
      BY <3>1, <3>2, <3>3, SlotKeeps
  <2>2. CASE ~authorize_exposure(request[r].remaining, request[r].charged)
    <3> DEFINE q == [request[r] EXCEPT !.phase = Ending(request[r])]
    <3>1. q \in Slots /\ q.remaining <= request[r].remaining
      BY <1>1, SMT DEF Slots, Ending
    <3>2. /\ request' = [request EXCEPT ![r] = q] /\ request[r].phase # "idle"
          /\ UNCHANGED <<chain, ledger, hist>>
      BY <1>4, <2>2 DEF UncountedChunk
    <3> HIDE DEF q
    <3> QED
      BY <1>1, <3>1, <3>2, SlotKeeps
  <2> QED
    BY <2>1, <2>2
<1>5. CASE Accounted(r)
  <2> DEFINE c == IF request[r].charged < request[r].owed THEN request[r].owed
                  ELSE request[r].charged
             done == [request[r] EXCEPT !.charged = c, !.owed = 0]
  <2>1. c \in Nat
    BY <1>1
  <2>2. request[r].phase = "open" /\ Record(r, request[r].owed, 0, "ambiguous", done)
    BY <1>5 DEF Accounted
  <2> HIDE DEF c
  <2>3. done \in Slots /\ done.remaining = request[r].remaining
    BY <1>1, <2>1 DEF Slots
  <2> HIDE DEF done
  <2> QED
    BY <1>1, <2>2, <2>3, RecordKeeps
<1>6. CASE EndOfStream(r)
  <2> DEFINE q == [request[r] EXCEPT !.phase = Ending(request[r])]
  <2>1. q \in Slots /\ q.remaining <= request[r].remaining
    BY <1>1, SMT DEF Slots, Ending
  <2>2. /\ request' = [request EXCEPT ![r] = q] /\ request[r].phase # "idle"
        /\ UNCHANGED <<chain, ledger, hist>>
    BY <1>6 DEF EndOfStream
  <2> HIDE DEF q
  <2> QED
    BY <1>1, <2>1, <2>2, SlotKeeps
<1>7. CASE Finished(r)
  BY <1>7, FinishedKeeps
<1>8. CASE CrashInFinish(r)
  BY <1>8, CrashInFinishKeeps
<1> QED
  BY <1>2, <1>3, <1>4, <1>5, <1>6, <1>7, <1>8 DEF Relay

\* The counter only ever gains, whatever a request's step does.
LEMMA RelayGains ==
  ASSUME DeliveryInv, NEW r \in Requests, Relay(r)
  PROVE  /\ chain' = chain
         /\ \/ UNCHANGED <<driver, flights>> /\ count' \in Nat
            \/ driver' = Off /\ flights' \in {{}, flights} /\ count' = 0
<1>1. /\ request[r] \in Slots /\ request[r].remaining \in Nat /\ request[r].owed \in Nat
      /\ Counts \subseteq Nat /\ count \in Nat /\ ledger \in Ledgers /\ ledger.unper \in Nat
      /\ ledger.terminal \in BOOLEAN
  BY LiveFacts, DeliveryConstants DEF Slots, DeliveryInv, DriverTypes
<1>2. ASSUME NEW n \in Nat, NEW m, NEW broken, NEW done, Record(r, n, m, broken, done)
      PROVE  chain' = chain /\ UNCHANGED <<driver, flights>> /\ count' \in Nat
  <2>1. PICK w \in record_delivered(ledger, request[r].remaining, n) :
          count' = count + w.gained /\ UNCHANGED <<chain, driver, flights>>
    BY <1>2 DEF Record
  <2>2. RecordResult(ledger, request[r].remaining, n, w)
    BY <1>1, RecordOutcome, ZenonT(30)
  <2>3. w.gained \in Nat
    BY <1>1, <2>2, SMTT(30) DEF RecordResult
  <2> QED
    BY <1>1, <2>1, <2>3, SMT
<1>3. CASE \/ \E n \in Asked : open_stream(r, n)
           \/ \E n \in Counts : UncountedChunk(r, n)
           \/ EndOfStream(r)
  BY <1>1, <1>3 DEF open_stream, UncountedChunk, EndOfStream
<1>4. CASE (\E n \in Counts : CountedChunk(r, n)) \/ Accounted(r)
  BY <1>1, <1>2, <1>4 DEF CountedChunk, Accounted
<1>5. CASE Finished(r)
  <2>1. PICK w \in IF request[r].phase = "exact"
                   THEN finish_exact(ledger, request[r].remaining)
                   ELSE finish_ambiguous(ledger) :
          count' = count + w.gained /\ UNCHANGED <<chain, driver, flights>>
    BY <1>5 DEF Finished
  <2>5. /\ count \in Nat /\ count' = count + w.gained
        /\ UNCHANGED <<chain, driver, flights>>
    BY <1>1, <2>1
  <2>2. CASE ledger.terminal
    <3>1. /\ request[r].phase = "exact" => w \in finish_exact(ledger, request[r].remaining)
          /\ request[r].phase # "exact" => w \in finish_ambiguous(ledger)
      BY <2>1
    <3>2. w \in {[l |-> ledger, ok |-> TRUE, gained |-> 0]}
      BY <2>2, <3>1 DEF finish_exact, finish_ambiguous
    <3>3. w = [l |-> ledger, ok |-> TRUE, gained |-> 0]
      BY <3>2
    <3>4. w.gained = 0
      BY <3>3
    <3> QED
      BY <2>5, <3>4, SMT
  <2>3. CASE ~ledger.terminal /\ request[r].phase = "exact"
    <3>1. FinishResult(ledger, request[r].remaining, w)
      BY <1>1, <2>1, <2>3, FinishOutcome
    <3>2. w.gained \in Nat
      BY <1>1, <3>1, SMTT(30) DEF FinishResult
    <3> QED
      BY <2>5, <3>2, SMT
  <2>4. CASE ~ledger.terminal /\ request[r].phase # "exact"
    <3>1. w \in flush_delivered(ledger)
      BY <2>1, <2>4 DEF finish_ambiguous
    <3>2. FlushResult(ledger, w)
      BY <1>1, <3>1, FlushOutcome
    <3>3. w.gained \in Nat
      BY <1>1, <3>2, SMT DEF FlushResult
    <3> QED
      BY <2>5, <3>3, SMT
  <2> QED
    BY <2>2, <2>3, <2>4
<1>6. CASE CrashInFinish(r)
  BY <1>6 DEF CrashInFinish, Restarted
<1> QED
  BY <1>3, <1>4, <1>5, <1>6 DEF Relay

\* The next claim and the target it is cut from are numbers.
LEMMA ClaimNat ==
  ASSUME DriverTypes
  PROVE  DeliveryTarget \in Nat /\ NextClaim \in Nat
<1>1. /\ driver.base \in Nat /\ driver.atProbe \in Nat /\ driver.claimed \in Nat
      /\ count \in Nat
  BY DEF DriverTypes, Drivers
<1>2. Subtract(count, driver.atProbe) \in Nat
  BY <1>1, SMT DEF Subtract
<1>3. DeliveryTarget \in Nat
  BY <1>1, <1>2, QuotaBounds, SMT DEF DeliveryTarget, Smaller
<1> QED
  BY <1>1, <1>3, QuotaBounds, SMT DEF NextClaim, Smaller

\* The driver's steps keep its variables in their types, and it waits for the
\* probe only where there is one.
LEMMA DriverKeeps ==
  ASSUME DeliveryInv, Driver \/ KeeperObserve \/ register_stream
  PROVE  DriverTypes' /\ ChainInv'
<1>1. /\ driver \in Drivers /\ count \in Nat /\ flights \subseteq Nat /\ chain \in Chains
      /\ ChainInv /\ chain.pending \in Nat /\ TICK_SIZE \in Nat /\ ledger \in Ledgers
      /\ DriverTypes
  BY CapNat, QuotaBounds DEF DeliveryInv, LedgerInv, LedgerTypes, DriverTypes
<1>2. CASE register_stream
  <2>1. PICK w \in reconcile_deal(ledger, chain) :
          /\ count' = IF w.ok THEN w.l.rec.local ELSE 0
          /\ driver' = [driver EXCEPT !.pc = IF w.ok THEN "start" ELSE "failed"]
          /\ UNCHANGED <<chain, flights>>
    BY <1>2 DEF register_stream
  <2>2. count' \in Nat
    <3>1. CASE chain.stopped
      BY <2>1, <3>1, SMT DEF reconcile_deal
    <3>2. CASE ~chain.stopped
      <4>1. w.l \in Ledgers
        BY <1>1, <2>1, <3>2, ReconcileOutcome DEF SameEntry
      <4>2. w.l.rec.local \in Nat
        BY <4>1, LedgerFields
      <4> QED
        BY <2>1, <4>2
    <3> QED
      BY <3>1, <3>2
  <2>3. driver' \in Drivers /\ driver'.pc \in {"start", "failed"}
    BY <1>1, <2>1 DEF Drivers
  <2> QED
    BY <1>1, <2>1, <2>2, <2>3 DEF DriverTypes, ChainInv
<1>3. CASE DriverStart
  <2>1. /\ UNCHANGED <<chain, flights, count>>
        /\ \E pc \in {"failed", "sync", "probe"} :
             driver' = [driver EXCEPT !.pc = pc] /\ (pc = "probe" => ~chain.probe)
    BY <1>3 DEF DriverStart
  <2> QED
    BY <1>1, <2>1 DEF Drivers, DriverTypes, ChainInv
<1>4. CASE DecideProbe
  <2>1. Smaller(count, TICK_SIZE) \in Nat
    BY <1>1 DEF Smaller
  <2>2. /\ UNCHANGED <<chain, flights, count>> /\ driver.pc = "probe"
        /\ driver' = [driver EXCEPT !.pc = "accept", !.atProbe = Smaller(count, TICK_SIZE)]
    BY <1>4 DEF DecideProbe
  <2>3. driver' \in Drivers
    BY <1>1, <2>1, <2>2 DEF Drivers
  <2> QED
    BY <1>1, <2>2, <2>3 DEF DriverTypes, ChainInv
<1>5. CASE acceptProbe
  <2>1. ChainInv'
    BY <1>5, AcceptMoves
  <2>2. DriverTypes'
    BY <1>1, <1>5 DEF acceptProbe, Drivers, DriverTypes
  <2> QED
    BY <2>1, <2>2
<1>6. CASE SyncHighWater
  <2>1. /\ UNCHANGED <<chain, flights, count>>
        /\ \/ driver' = [driver EXCEPT !.pc = "failed"]
           \/ driver' = [driver EXCEPT !.pc = "claim", !.claimed = chain.pending,
                                       !.base = chain.pending]
    BY <1>6 DEF SyncHighWater
  <2>2. driver' \in Drivers /\ driver'.pc \in {"failed", "claim"}
    BY <1>1, <2>1 DEF Drivers
  <2> QED
    BY <1>1, <2>1, <2>2 DEF DriverTypes, ChainInv
<1>7. ASSUME NEW n, NEW target, Confirmed(n, target)
      PROVE  driver' \in Drivers /\ driver'.pc \in {"failed", "claim"}
  <2>1. \/ driver' = [driver EXCEPT !.pc = "claim", !.claimed = chain.pending,
                                    !.sought = 0, !.target = 0]
        \/ driver' = [driver EXCEPT !.pc = "failed"]
    BY <1>7 DEF Confirmed
  <2>2. driver \in Drivers /\ chain.pending \in Nat /\ 0 \in Nat
    BY <1>1
  <2>3. CASE driver' = [driver EXCEPT !.pc = "failed"]
    BY <2>2, <2>3 DEF Drivers
  <2>4. CASE driver' = [driver EXCEPT !.pc = "claim", !.claimed = chain.pending,
                                      !.sought = 0, !.target = 0]
    BY <2>2, <2>4 DEF Drivers
  <2> QED
    BY <2>1, <2>3, <2>4
<1>8. CASE SubmitClaim
  <2>1. NextClaim \in Nat /\ DeliveryTarget \in Nat
    BY <1>1, ClaimNat
  <2>2. UNCHANGED <<chain, count>> /\ flights' \subseteq Nat
    BY <1>1, <1>8, <2>1 DEF SubmitClaim
  <2>3. driver' \in Drivers /\ driver'.pc \in {"failed", "claim", "confirm"}
    <3>1. CASE chain.pending >= NextClaim
      BY <1>7, <1>8, <3>1 DEF SubmitClaim
    <3>2. CASE ~(chain.pending >= NextClaim)
      <4>1. driver' = [driver EXCEPT !.pc = "confirm", !.sought = NextClaim,
                                     !.target = DeliveryTarget]
        BY <1>8, <3>2 DEF SubmitClaim
      <4> QED
        BY <1>1, <2>1, <4>1 DEF Drivers
    <3> QED
      BY <3>1, <3>2
  <2> QED
    BY <1>1, <2>2, <2>3 DEF DriverTypes, ChainInv
<1>9. CASE ConfirmClaim
  <2>1. UNCHANGED <<chain, flights, count>> /\ Confirmed(driver.sought, driver.target)
    BY <1>9 DEF ConfirmClaim
  <2>2. driver' \in Drivers /\ driver'.pc \in {"failed", "claim"}
    BY <1>7, <2>1
  <2> QED
    BY <1>1, <2>1, <2>2 DEF DriverTypes, ChainInv
<1>10. CASE ClaimUnconfirmed \/ DriverDone
  <2>1. /\ UNCHANGED <<chain, flights, count>>
        /\ \E pc \in {"failed", "done"} : driver' = [driver EXCEPT !.pc = pc]
    BY <1>10 DEF ClaimUnconfirmed, DriverDone
  <2>2. driver' \in Drivers /\ driver'.pc \in {"failed", "done"}
    BY <1>1, <2>1 DEF Drivers
  <2> QED
    BY <1>1, <2>1, <2>2 DEF DriverTypes, ChainInv
<1>11. CASE KeeperObserve
  <2>1. /\ UNCHANGED <<chain, flights, count>>
        /\ \/ driver' = driver
           \/ \E pc \in {"failed", "done"} : driver' = [driver EXCEPT !.pc = pc]
    BY <1>11 DEF KeeperObserve
  <2>2. driver' \in Drivers /\ (driver'.pc \in {"failed", "done"} \/ driver' = driver)
    BY <1>1, <2>1 DEF Drivers
  <2> QED
    BY <1>1, <2>1, <2>2 DEF DriverTypes, ChainInv
<1> QED
  BY <1>2, <1>3, <1>4, <1>5, <1>6, <1>8, <1>9, <1>10, <1>11 DEF Driver

\* The ledger under the driver's steps.
LEMMA DriverLedgerKeeps ==
  ASSUME DeliveryInv, Driver \/ KeeperObserve \/ register_stream
  PROVE  LedgerInv'
<1>1. ASSUME NEW w \in ObservedLedgers, ledger' = w.l, UNCHANGED <<chain, request, hist>>
      PROVE  LedgerInv'
  <2>1. CASE IsSubscription
    BY <1>1, <2>1, DriverOnlyKeeps, SMT DEF ObservedLedgers
  <2>2. CASE ~IsSubscription
    BY <1>1, <2>2, ReconcilingKeeps DEF ObservedLedgers
  <2> QED
    BY <2>1, <2>2
<1>2. CASE register_stream \/ KeeperObserve
  BY <1>2, ReconcilingKeeps DEF register_stream, KeeperObserve
<1>3. CASE DriverStart \/ SyncHighWater
  BY <1>1, <1>3 DEF DriverStart, SyncHighWater
<1>4. CASE DecideProbe \/ SubmitClaim \/ ConfirmClaim \/ ClaimUnconfirmed
  BY <1>4, DriverOnlyKeeps DEF DecideProbe, SubmitClaim, ConfirmClaim, ClaimUnconfirmed
<1>5. CASE acceptProbe
  BY <1>5, AcceptMoves, ChainKeeps DEF acceptProbe
<1>6. CASE DriverDone
  <2>1. CASE ledger' = ledger
    BY <1>6, <2>1, DriverOnlyKeeps DEF DriverDone
  <2>2. CASE ledger' # ledger
    BY <1>6, <2>2, ClosingKeeps DEF DriverDone, ClosedLedger
  <2> QED
    BY <2>1, <2>2
<1> QED
  BY <1>2, <1>3, <1>4, <1>5, <1>6 DEF Driver

\* Every step keeps the invariant.
LEMMA DeliveryStep ==
  ASSUME DeliveryInv, [Next]_vars
  PROVE  DeliveryInv'
<1>1. /\ driver \in Drivers /\ count \in Nat /\ flights \subseteq Nat /\ ChainInv
      /\ DriverTypes /\ chain \in Chains /\ ledger.disk \in Records
      /\ ~chain.stopped => Room(ledger.disk, chain, Total)
  BY LiveFacts DEF DeliveryInv, DriverTypes
<1>2. CASE Driver \/ KeeperObserve \/ register_stream
  BY <1>2, DriverKeeps, DriverLedgerKeeps DEF DeliveryInv
<1>3. Off \in Drivers /\ Off.pc = "off"
  BY DEF Off, Drivers
<1>4. CASE Crash
  <2>1. LedgerInv'
    BY <1>1, <1>4, RestartKeeps DEF Crash
  <2>2. driver' = Off /\ count' = 0 /\ flights' \subseteq flights /\ chain' = chain
    BY <1>4 DEF Crash, Restarted
  <2>3. DriverTypes' /\ ChainInv'
    BY <1>1, <1>3, <2>2 DEF DriverTypes, ChainInv
  <2> QED
    BY <2>1, <2>3 DEF DeliveryInv
<1>5. ASSUME NEW r \in Requests, Relay(r)
      PROVE  DeliveryInv'
  <2>1. LedgerInv'
    BY <1>5, RelayKeeps
  <2>2. /\ chain' = chain
        /\ \/ UNCHANGED <<driver, flights>> /\ count' \in Nat
           \/ driver' = Off /\ flights' \in {{}, flights} /\ count' = 0
    BY <1>5, RelayGains
  <2>3. DriverTypes'
    <3>1. driver' \in Drivers /\ count' \in Nat
      BY <1>1, <1>3, <2>2, SMT
    <3>2. flights' \subseteq Nat
      BY <1>1, <2>2
    <3> QED
      BY <3>1, <3>2 DEF DriverTypes
  <2>4. ChainInv'
    BY <1>1, <1>3, <2>2 DEF ChainInv
  <2> QED
    BY <2>1, <2>3, <2>4 DEF DeliveryInv
<1>6. ASSUME NEW n \in 1..Funded, claimTokens(n)
      PROVE  DeliveryInv'
  <2>1. MovesOn(chain, chain') /\ ChainInv'
    BY <1>6, ClaimMoves
  <2>2. LedgerInv'
    BY <1>6, <2>1, ChainKeeps DEF claimTokens
  <2>3. DriverTypes'
    BY <1>1, <1>6 DEF claimTokens, DriverTypes
  <2> QED
    BY <2>1, <2>2, <2>3 DEF DeliveryInv
<1>7. CASE settleWeek \/ stop
  <2>1. MovesOn(chain, chain') /\ ChainInv'
    BY <1>7, WeekMoves, StopMoves
  <2>2. LedgerInv'
    BY <1>7, <2>1, ChainKeeps DEF settleWeek, stop
  <2>3. DriverTypes'
    BY <1>1, <1>7 DEF settleWeek, stop, DriverTypes
  <2> QED
    BY <2>1, <2>2, <2>3 DEF DeliveryInv
<1>8. CASE UNCHANGED vars
  <2>1. LedgerInv'
    BY <1>8, DriverOnlyKeeps DEF vars
  <2>2. DriverTypes' /\ ChainInv'
    BY <1>1, <1>8 DEF vars, DriverTypes, ChainInv
  <2> QED
    BY <2>1, <2>2 DEF DeliveryInv
<1> QED
  BY <1>2, <1>4, <1>5, <1>6, <1>7, <1>8 DEF Next

\* The process starts with the invariant.
LEMMA DeliveryInit ==
  ASSUME Init
  PROVE  DeliveryInv
<1>1. /\ chain \in Chains /\ chain.probe = Probed /\ chain.week = 0 /\ chain.base = 0
      /\ chain.stopped = FALSE
      /\ Probed => chain.pending = TICK_SIZE
      /\ ~Probed => chain.pending = 0
  BY QuotaBounds, DeliveryConstants DEF Init, Chains
<1>2. ~TermEnded(chain)
  BY <1>1, QuotaBounds, SMT DEF TermEnded, IsSubscription
<1>3. /\ authoritative_cap(chain) \in Nat /\ TICK_SIZE <= authoritative_cap(chain)
  BY <1>1, <1>2, QuotaBounds, CapNat, SMT DEF authoritative_cap, Smaller
<1>4. request = [r \in Requests |-> Idle] /\ driver = Off /\ count = 0 /\ flights = {}
  BY DEF Init
<1>5. request \in [Requests -> Slots] /\ AllIdle
  BY <1>4 DEF Idle, Slots, AllIdle
<1>6. AllHeld = 0
  BY <1>5, HeldNone
<1>7. hist \in Histories /\ hist.billed = 0
  BY DEF Init, Histories
<1>8. Total = IF Probed THEN TICK_SIZE ELSE 0
  BY <1>6, <1>7, QuotaBounds, SMT DEF Total, Billed
<1> DEFINE disk == IF Probed THEN FreshRecord(chain) ELSE NoRecord
<1>9. disk \in Records /\ Room(disk, chain, Total)
  <2>1. CASE Probed
    BY <1>1, <1>3, <1>8, <2>1, QuotaBounds, SMTT(30) DEF FreshRecord, Records, Room, Committed
  <2>2. CASE ~Probed
    BY <1>1, <1>3, <1>8, <2>2, QuotaBounds, SMT DEF NoRecord, Records, Room, Committed
  <2> QED
    BY <2>1, <2>2
<1>10. /\ ledger \in Ledgers /\ ledger.up = FALSE /\ ledger.terminal = FALSE
       /\ ledger.disk = disk /\ ledger.faults = MaxFaults
  <2>1. ledger = [rec |-> NoRecord, unper |-> 0, up |-> FALSE, terminal |-> FALSE,
                  disk |-> disk, faults |-> MaxFaults]
    BY DEF Init
  <2>2. NoRecord \in Records /\ MaxFaults \in Nat
    BY DeliveryConstants DEF NoRecord, Records
  <2> HIDE DEF disk
  <2> QED
    BY <1>9, <2>1, <2>2 DEF Ledgers
<1> HIDE DEF disk
<1>11. LedgerTypes /\ EntryInv
  BY <1>1, <1>5, <1>7, <1>10 DEF LedgerTypes, EntryInv
<1>12. BillInv /\ ReservationsCovered
  BY <1>1, <1>3, <1>8, <1>9, <1>10, QuotaBounds, SMTT(30) DEF BillInv, ReservationsCovered
<1>13. DriverTypes
  BY <1>4 DEF DriverTypes, Off, Drivers
<1>14. ChainInv
  BY <1>1, <1>3, <1>4, QuotaBounds, SMT DEF ChainInv, Off
<1> QED
  BY <1>10, <1>11, <1>12, <1>13, <1>14, DeliveryConstants, SMT DEF DeliveryInv, LedgerInv

\* The invariant of reservations and bills holds in every behaviour of the
\* gateway, the claim driver, the contract and the crashes of the process.
THEOREM DeliveryAlways == Spec => []DeliveryInv
<1>1. Init => DeliveryInv
  BY DeliveryInit
<1>2. DeliveryInv /\ [Next]_vars => DeliveryInv'
  BY DeliveryStep
<1> QED
  BY <1>1, <1>2, PTL DEF Spec

\* Live requests and the split that waits are inside the aggregate reservation
\* of capacity.rs: no request can release or bill what another one holds.
THEOREM CoveredReservations == Spec => []ReservationsCovered
<1>1. DeliveryInv => ReservationsCovered
  BY DEF DeliveryInv, LedgerInv
<1> QED
  BY <1>1, DeliveryAlways, PTL

\* Over all requests, crashes and failed writes, the buyer is billed no more than
\* the deal allows at the moment (authoritative_cap, capacity.rs).
THEOREM CappedBills == Spec => []BilledWithinCap
<1>1. DeliveryInv => BilledWithinCap
  <2> SUFFICES ASSUME DeliveryInv, ~TermEnded(chain)
               PROVE  Billed <= IF chain.probe THEN ClaimCap ELSE TICK_SIZE
    BY DEF BilledWithinCap, Billed
  <2>1. Billed \in Nat /\ AllHeld \in Nat /\ chain \in Chains
    BY LiveFacts
  <2>2. Total <= authoritative_cap(chain) /\ authoritative_cap(chain) \in Nat
    BY <2>1, CapNat DEF DeliveryInv, LedgerInv, BillInv
  <2>3. Billed <= authoritative_cap(chain)
    BY <2>1, <2>2, SMT DEF Total
  <2>4. authoritative_cap(chain) = IF chain.probe THEN ClaimCap ELSE TICK_SIZE
    BY QuotaBounds, SMT DEF authoritative_cap, ClaimCap, Smaller
  <2> QED
    BY <2>3, <2>4
<1> QED
  BY <1>1, DeliveryAlways, PTL

-----------------------------------------------------------------------------
(* Clean streams leave nothing behind                                      *)

\* The counter and the split that waits are what was billed; the reservation is
\* what the live requests and that split hold.
Balanced ==
  /\ ledger.up /\ count + ledger.unper = hist.billed
  /\ ledger.rec.reserved = AllHeld + ledger.unper
  /\ AllIdle => ledger.unper = 0

\* As long as nothing failed, the books of a serving process are balanced, and
\* those of one that has not registered yet are empty.
CleanInv ==
  /\ \A r \in Requests : request[r].phase = "idle" => request[r] = Idle
  /\ hist.clean /\ driver.pc = "off" =>
       /\ ~ledger.up /\ ledger.disk.local = 0 /\ ledger.disk.reserved = 0
       /\ AllIdle /\ hist.billed = 0
  /\ hist.clean /\ Serving => Balanced

\* A slot that is idle by its phase is idle in all its fields after every step.
LEMMA IdleSlots ==
  ASSUME DeliveryInv, CleanInv, [Next]_vars, NEW s \in Requests,
         request'[s].phase = "idle"
  PROVE  request'[s] = Idle
<1>1. /\ request \in [Requests -> Slots]
      /\ request[s].phase = "idle" => request[s] = Idle
  BY LiveFacts DEF CleanInv
<1>2. CASE request' = request
  BY <1>1, <1>2
<1>3. CASE request' = [r \in Requests |-> Idle]
  BY <1>3
<1>4. ASSUME NEW r \in Requests, NEW q, request' = [request EXCEPT ![r] = q],
             q = Idle \/ q.phase # "idle"
      PROVE  request'[s] = Idle
  BY <1>1, <1>4
<1>5. ASSUME NEW r \in Requests, Relay(r)
      PROVE  request'[s] = Idle
  <2>1. request[r] \in Slots
    BY <1>1
  <2>2. ASSUME NEW n, NEW m, NEW broken \in {"exact", "ambiguous"}, NEW done \in Slots,
               done.phase = "open", Record(r, n, m, broken, done)
        PROVE  request'[s] = Idle
    <3>1. \E w : request' = [request EXCEPT ![r] =
                               IF w.ok THEN [done EXCEPT !.remaining = @ - n]
                               ELSE [request[r] EXCEPT !.phase = broken]]
      BY <2>2 DEF Record
    <3>2. /\ [done EXCEPT !.remaining = @ - n].phase # "idle"
          /\ [request[r] EXCEPT !.phase = broken].phase # "idle"
      BY <2>1, <2>2 DEF Slots
    <3> QED
      BY <1>4, <3>1, <3>2
  <2>3. CASE \E n \in Asked : open_stream(r, n)
    <3>1. PICK n \in Asked : open_stream(r, n)
      BY <2>3
    <3>2. [Idle EXCEPT !.phase = "open", !.remaining = Available(ledger, n)].phase # "idle"
      BY DEF Idle
    <3> QED
      BY <1>2, <1>4, <3>1, <3>2 DEF open_stream
  <2>4. CASE \E n \in Counts : CountedChunk(r, n)
    BY <2>1, <2>2, <2>4 DEF CountedChunk
  <2>5. CASE Accounted(r)
    <3> DEFINE c == IF request[r].charged < request[r].owed THEN request[r].owed
                    ELSE request[r].charged
               done == [request[r] EXCEPT !.charged = c, !.owed = 0]
    <3>1. c \in Nat
      BY <2>1 DEF Slots
    <3>2. request[r].phase = "open" /\ Record(r, request[r].owed, 0, "ambiguous", done)
      BY <2>5 DEF Accounted
    <3> HIDE DEF c
    <3>3. done \in Slots /\ done.phase = "open"
      BY <2>1, <3>1, <3>2 DEF Slots
    <3> HIDE DEF done
    <3> QED
      BY <2>2, <3>2, <3>3
  <2>6. CASE EndOfStream(r) \/ \E n \in Counts : UncountedChunk(r, n)
    <3>1. request[r].phase = "open"
      BY <2>6 DEF EndOfStream, UncountedChunk
    <3>2. \/ request' = [request EXCEPT ![r] = [request[r] EXCEPT !.phase = Ending(request[r])]]
          \/ \E n \in Counts : request' = [request EXCEPT ![r] = [request[r] EXCEPT !.owed = n]]
      BY <2>6 DEF EndOfStream, UncountedChunk
    <3>3. /\ [request[r] EXCEPT !.phase = Ending(request[r])].phase # "idle"
          /\ \A n \in Counts : [request[r] EXCEPT !.owed = n].phase # "idle"
      BY <2>1, <3>1 DEF Slots, Ending
    <3> QED
      BY <1>4, <3>2, <3>3
  <2>7. CASE Finished(r)
    BY <1>4, <2>7 DEF Finished
  <2>8. CASE CrashInFinish(r)
    BY <1>3, <2>8 DEF CrashInFinish, Restarted
  <2> QED
    BY <1>5, <2>3, <2>4, <2>5, <2>6, <2>7, <2>8 DEF Relay
<1>6. CASE Crash
  BY <1>3, <1>6 DEF Crash, Restarted
<1>7. CASE Driver \/ KeeperObserve \/ register_stream
  BY <1>2, <1>7 DEF Driver, DriverStart, DecideProbe, acceptProbe, SyncHighWater, SubmitClaim,
     ConfirmClaim, ClaimUnconfirmed, DriverDone, KeeperObserve, register_stream
<1>8. CASE (\E n \in 1..Funded : claimTokens(n)) \/ settleWeek \/ stop \/ UNCHANGED vars
  BY <1>2, <1>8 DEF claimTokens, settleWeek, stop, vars
<1> QED
  BY <1>5, <1>6, <1>7, <1>8 DEF Next

\* A granted stream: its reservation is added, nothing waited.
LEMMA OpenBalanced ==
  ASSUME DeliveryInv, CleanInv, Balanced, NEW r \in Requests, NEW n \in Asked,
         open_stream(r, n), hist'.clean
  PROVE  Balanced'
<1> DEFINE a == Available(ledger, n)
           q == [Idle EXCEPT !.phase = "open", !.remaining = a]
<1>1. /\ request \in [Requests -> Slots] /\ ledger \in Ledgers /\ AllHeld \in Nat
      /\ hist \in Histories /\ ledger.rec \in Records /\ ledger.unper \in Nat
      /\ ledger.rec.reserved \in Nat /\ count \in Nat
  BY LiveFacts DEF DeliveryInv, DriverTypes
<1>2. request[r].remaining = 0
  BY SMT DEF CleanInv, open_stream, Idle
<1>3. a \in Nat /\ a > 0
  BY <1>1, DeliveryConstants, SMT DEF open_stream, Available, Smaller, Committed, Records
<1> HIDE DEF a
<1>4. PICK w \in reserve(ledger, a) :
        /\ ledger' = w.l
        /\ request' = IF ~w.ok THEN request ELSE [request EXCEPT ![r] = q]
        /\ hist' = [hist EXCEPT !.asked = @ + 1, !.clean = @ /\ w.ok /\ ledger.unper = 0]
        /\ count' = count
  BY DEF open_stream, a
<1>5. ReserveResult(ledger, a, w)
  BY <1>1, <1>3, ReserveOutcome
<1>6. hist'.billed = hist.billed /\ w.ok /\ ledger.unper = 0
  <2> DEFINE b == hist.clean /\ w.ok /\ ledger.unper = 0
  <2>1. b \in BOOLEAN
    OBVIOUS
  <2>2. hist' = [hist EXCEPT !.asked = @ + 1, !.clean = b]
    BY <1>4
  <2> HIDE DEF b
  <2>3. hist'.billed = hist.billed /\ hist'.clean = b
    BY <1>1, <2>1, <2>2, HistoryAsked
  <2>4. b
    BY <2>3
  <2> QED
    BY <2>3, <2>4 DEF b
<1>7. /\ ledger'.rec = Grown(ledger.rec, a) /\ ledger'.unper = 0 /\ ledger'.up = ledger.up
  BY <1>4, <1>5, <1>6 DEF ReserveResult, SameEntry
<1>8. ledger'.rec.reserved = ledger.rec.reserved + a
  <2>1. ledger.rec \in Records /\ a \in Nat
    BY <1>1, <1>3
  <2>2. Grown(ledger.rec, a).reserved = ledger.rec.reserved + a
    BY <2>1, RecordChanges
  <2> QED
    BY <1>7, <2>2
<1>9. q \in Slots /\ q.remaining = a /\ q.phase = "open"
  BY <1>3 DEF Slots, Idle
<1>10. request' = [request EXCEPT ![r] = q]
  BY <1>4, <1>6
<1> HIDE DEF q
<1>11. AllHeld' = AllHeld + (q.remaining - request[r].remaining) /\ request'[r] = q
  BY <1>1, <1>9, <1>10, HeldChange
<1>12. AllHeld' = AllHeld + a
  BY <1>1, <1>2, <1>3, <1>9, <1>11, SMT
<1>13. ~AllIdle'
  BY <1>9, <1>11, SMT DEF AllIdle, Idle
<1>14. ledger'.rec.reserved = AllHeld' + ledger'.unper
  <2>1. ledger.rec.reserved = AllHeld + ledger.unper
    BY DEF Balanced
  <2>2. AllHeld \in Nat /\ ledger.unper = 0 /\ ledger'.unper = 0
    BY <1>1, <1>6, <1>7
  <2> QED
    BY <1>3, <1>8, <1>12, <2>1, <2>2, SMT
<1> QED
  BY <1>1, <1>4, <1>6, <1>7, <1>13, <1>14 DEF Balanced

\* Recorded tokens leave the request's remainder for the split or the counter.
LEMMA RecordBalanced ==
  ASSUME DeliveryInv, Balanced, NEW r \in Requests, request[r].phase = "open", NEW n \in Nat,
         NEW m \in Nat, NEW broken, NEW done \in Slots, done.phase = "open",
         done.remaining = request[r].remaining, Record(r, n, m, broken, done), hist'.clean
  PROVE  Balanced'
<1>1. /\ request \in [Requests -> Slots] /\ ledger \in Ledgers /\ AllHeld \in Nat
      /\ hist \in Histories /\ ledger.rec \in Records /\ ledger.unper \in Nat
      /\ ledger.rec.reserved \in Nat /\ count \in Nat
  BY LiveFacts DEF DeliveryInv, DriverTypes
<1>2. PICK w \in record_delivered(ledger, request[r].remaining, n) :
        /\ ledger' = w.l /\ count' = count + w.gained
        /\ request' = [request EXCEPT ![r] = IF w.ok THEN [done EXCEPT !.remaining = @ - n]
                                             ELSE [@ EXCEPT !.phase = broken]]
        /\ hist' = [hist EXCEPT !.billed = IF w.ok THEN @ + n ELSE @,
                                !.shown = IF w.ok THEN @ + m ELSE @,
                                !.clean = @ /\ w.ok]
  BY DEF Record
<1>3. request[r] \in Slots /\ request[r].remaining \in Nat
  BY <1>1 DEF Slots
<1>4. RecordResult(ledger, request[r].remaining, n, w)
  BY <1>1, <1>3, RecordOutcome
<1>5. w.ok = TRUE
  <2>1. CASE w.ok = FALSE
    <3>1. hist' = [hist EXCEPT !.billed = hist.billed, !.shown = hist.shown, !.clean = FALSE]
      BY <1>2, <2>1
    <3>2. hist \in Histories /\ hist.billed \in Nat /\ hist.shown \in Nat
      BY <1>1, HistoryFields
    <3> QED
      BY <3>1, <3>2 DEF Histories
  <2> QED
    BY <1>4, <2>1 DEF RecordResult
<1>6. /\ n <= request[r].remaining /\ ledger'.up = ledger.up
      /\ ledger.unper + n <= ledger.rec.reserved
      /\ \/ w.gained = 0 /\ ledger'.unper = ledger.unper + n /\ ledger'.rec = ledger.rec
         \/ /\ w.gained = ledger.unper + n /\ ledger'.unper = 0
            /\ ledger'.rec = Split(ledger.rec, ledger.unper + n)
  BY <1>2, <1>4, <1>5 DEF RecordResult, SameEntry
<1>7. Split(ledger.rec, ledger.unper + n).reserved = ledger.rec.reserved - (ledger.unper + n)
  <2>1. ledger.unper + n \in Nat
    BY <1>1, SMT
  <2> QED
    BY <1>1, <2>1, RecordChanges
<1>8. hist'.billed = hist.billed + n
  <2>1. hist.billed + n \in Nat /\ hist.shown + m \in Nat /\ hist.clean \in BOOLEAN
    BY <1>1, HistoryFields, SMT
  <2>2. hist' = [hist EXCEPT !.billed = hist.billed + n, !.shown = hist.shown + m,
                             !.clean = hist.clean]
    BY <1>2, <1>5, <2>1
  <2>3. hist \in Histories
    BY <1>1
  <2> QED
    BY <2>1, <2>2, <2>3 DEF Histories
<1> DEFINE q == [done EXCEPT !.remaining = @ - n]
<1>9. q \in Slots /\ q.remaining = request[r].remaining - n /\ q.phase = "open"
  <2>1. request[r].remaining - n \in Nat
    BY <1>3, <1>6, SMT
  <2> QED
    BY <2>1 DEF Slots
<1>10. request' = [request EXCEPT ![r] = q]
  BY <1>2, <1>5
<1> HIDE DEF q
<1>11. AllHeld' = AllHeld + (q.remaining - request[r].remaining) /\ request'[r] = q
  BY <1>1, <1>9, <1>10, HeldChange
<1>12. AllHeld' = AllHeld - n
  BY <1>1, <1>3, <1>9, <1>11, SMT
<1>13. ~AllIdle'
  BY <1>9, <1>11, SMT DEF AllIdle, Idle
<1>14. hist.billed \in Nat
  BY <1>1, HistoryFields
<1>15. ledger'.rec.reserved = AllHeld' + ledger'.unper
  <2>1. ledger.rec.reserved = AllHeld + ledger.unper
    BY DEF Balanced
  <2>2. CASE ledger'.unper = ledger.unper + n /\ ledger'.rec = ledger.rec
    BY <1>1, <1>12, <2>1, <2>2, SMT
  <2>3. CASE ledger'.unper = 0 /\ ledger'.rec = Split(ledger.rec, ledger.unper + n)
    <3>1. ledger'.rec.reserved = ledger.rec.reserved - (ledger.unper + n)
      BY <1>7, <2>3
    <3>2. ledger'.unper = 0
      BY <2>3
    <3> QED
      BY <1>1, <1>12, <2>1, <3>1, <3>2, SMT
  <2> QED
    BY <1>6, <2>2, <2>3
<1>16. count' + ledger'.unper = hist'.billed
  BY <1>1, <1>2, <1>6, <1>8, <1>14, SMT DEF Balanced
<1> QED
  BY <1>6, <1>13, <1>15, <1>16 DEF Balanced

\* A slot's bookkeeping that moves no token.
LEMMA SlotBalanced ==
  ASSUME DeliveryInv, Balanced, NEW r \in Requests, NEW q \in Slots, q.phase # "idle",
         q.remaining = request[r].remaining, request' = [request EXCEPT ![r] = q],
         UNCHANGED <<ledger, count>>, hist'.billed = hist.billed
  PROVE  Balanced'
<1>1. request \in [Requests -> Slots] /\ AllHeld \in Nat /\ request[r].remaining \in Nat
  BY LiveFacts DEF Slots
<1>2. AllHeld' = AllHeld + (q.remaining - request[r].remaining) /\ request'[r] = q
  BY <1>1, HeldChange
<1>3. AllHeld' = AllHeld
  BY <1>1, <1>2, SMT
<1>4. ~AllIdle'
  BY <1>2, SMT DEF AllIdle, Idle
<1> QED
  BY <1>3, <1>4 DEF Balanced

\* A finished stream whose usage is known: the split is written, the remainder
\* released.
LEMMA FinishBalanced ==
  ASSUME DeliveryInv, Balanced, NEW r \in Requests, Finished(r), hist'.clean
  PROVE  Balanced'
<1> DEFINE n == request[r].remaining
<1>1. /\ request \in [Requests -> Slots] /\ ledger \in Ledgers /\ AllHeld \in Nat
      /\ hist \in Histories /\ ledger.rec \in Records /\ ledger.unper \in Nat
      /\ ledger.rec.reserved \in Nat /\ count \in Nat
  BY LiveFacts DEF DeliveryInv, DriverTypes
<1>2. n \in Nat /\ Idle \in Slots /\ Idle.remaining = 0
  BY <1>1 DEF Slots, Idle
<1>3. ~ledger.terminal
  BY DEF Balanced, DeliveryInv, LedgerInv, EntryInv
<1>4. PICK w \in IF request[r].phase = "exact" THEN finish_exact(ledger, n)
                 ELSE finish_ambiguous(ledger) :
        /\ ledger' = w.l /\ count' = count + w.gained
        /\ hist' = [hist EXCEPT !.clean = @ /\ w.ok /\ request[r].phase = "exact"]
  BY DEF Finished
<1>5. hist'.billed = hist.billed /\ w.ok /\ request[r].phase = "exact"
  <2> DEFINE b == hist.clean /\ w.ok /\ request[r].phase = "exact"
  <2>1. b \in BOOLEAN
    OBVIOUS
  <2>2. hist' = [hist EXCEPT !.clean = b]
    BY <1>4
  <2> HIDE DEF b
  <2>3. hist'.billed = hist.billed /\ hist'.clean = b
    BY <1>1, <2>1, <2>2 DEF Histories
  <2>4. b
    BY <2>3
  <2> QED
    BY <2>3, <2>4 DEF b
<1> HIDE DEF n
<1>6. FinishResult(ledger, n, w)
  BY <1>1, <1>2, <1>3, <1>4, <1>5, FinishOutcome
<1>7. /\ w.gained = ledger.unper /\ ledger'.unper = 0 /\ ledger'.up = ledger.up
      /\ ledger.unper + n <= ledger.rec.reserved /\ ledger'.rec = Freed(Moved(ledger), n)
  BY <1>4, <1>5, <1>6 DEF FinishResult, SameEntry
<1>8. ledger'.rec.reserved = ledger.rec.reserved - ledger.unper - n
  <2>1. ledger.unper <= ledger.rec.reserved
    BY <1>1, <1>2, <1>7, SMTT(30)
  <2>2. Moved(ledger) \in Records /\ Moved(ledger).reserved = ledger.rec.reserved - ledger.unper
    BY <1>1, <2>1, RecordChanges DEF Moved
  <2>3. Freed(Moved(ledger), n).reserved = Moved(ledger).reserved - n
    BY <1>2, <2>2, RecordChanges
  <2> QED
    BY <1>7, <2>2, <2>3
<1>9. request' = [request EXCEPT ![r] = Idle]
  BY DEF Finished
<1>10. AllHeld' = AllHeld + (Idle.remaining - request[r].remaining)
  BY <1>1, <1>2, <1>9, HeldChange
<1>11. AllHeld' = AllHeld - n
  BY <1>1, <1>2, <1>10, SMTT(30) DEF n
<1>12. ledger'.rec.reserved = AllHeld' + ledger'.unper
  BY <1>1, <1>2, <1>7, <1>8, <1>11, SMTT(30) DEF Balanced
<1>13. count' + ledger'.unper = hist'.billed
  BY <1>1, <1>4, <1>5, <1>7, SMT DEF Balanced
<1> QED
  BY <1>7, <1>12, <1>13 DEF Balanced

\* A request's step keeps the books balanced as long as nothing fails.
LEMMA RelayBalanced ==
  ASSUME DeliveryInv, CleanInv, Balanced, NEW r \in Requests, Relay(r), hist'.clean
  PROVE  Balanced'
<1>1. /\ request[r] \in Slots /\ Counts \subseteq Nat /\ request[r].owed \in Nat
      /\ request[r].charged \in Nat /\ hist \in Histories
  BY LiveFacts, DeliveryConstants DEF Slots
<1>2. CASE \E n \in Asked : open_stream(r, n)
  BY <1>2, OpenBalanced
<1>3. CASE \E n \in Counts : CountedChunk(r, n)
  BY <1>1, <1>3, RecordBalanced DEF CountedChunk
<1>4. CASE Accounted(r)
  <2> DEFINE c == IF request[r].charged < request[r].owed THEN request[r].owed
                  ELSE request[r].charged
             done == [request[r] EXCEPT !.charged = c, !.owed = 0]
  <2>1. c \in Nat
    BY <1>1
  <2>2. request[r].phase = "open" /\ Record(r, request[r].owed, 0, "ambiguous", done)
    BY <1>4 DEF Accounted
  <2> HIDE DEF c
  <2>3. done \in Slots /\ done.remaining = request[r].remaining /\ done.phase = "open"
    BY <1>1, <2>1, <2>2 DEF Slots
  <2> HIDE DEF done
  <2> QED
    BY <1>1, <2>2, <2>3, RecordBalanced
<1>5. ASSUME NEW n \in Counts, UncountedChunk(r, n)
      PROVE  Balanced'
  <2> DEFINE q == [request[r] EXCEPT !.owed = n]
             p == [request[r] EXCEPT !.phase = Ending(request[r])]
  <2>1. /\ q \in Slots /\ q.remaining = request[r].remaining /\ q.phase # "idle"
        /\ p \in Slots /\ p.remaining = request[r].remaining /\ p.phase # "idle"
    BY <1>1, <1>5 DEF Slots, UncountedChunk, Ending
  <2>2. /\ request' \in {[request EXCEPT ![r] = q], [request EXCEPT ![r] = p]}
        /\ UNCHANGED <<ledger, count>>
        /\ hist' = [hist EXCEPT !.shown = @ + n] \/ hist' = hist
    BY <1>5 DEF UncountedChunk
  <2>3. hist'.billed = hist.billed
    BY <1>1, <2>2 DEF Histories
  <2> HIDE DEF q, p
  <2> QED
    BY <2>1, <2>2, <2>3, SlotBalanced
<1>6. CASE EndOfStream(r)
  <2> DEFINE p == [request[r] EXCEPT !.phase = Ending(request[r])]
  <2>1. /\ p \in Slots /\ p.remaining = request[r].remaining /\ p.phase # "idle"
    BY <1>1 DEF Slots, Ending
  <2>2. request' = [request EXCEPT ![r] = p] /\ UNCHANGED <<ledger, count, hist>>
    BY <1>6 DEF EndOfStream
  <2> HIDE DEF p
  <2> QED
    BY <2>1, <2>2, SlotBalanced
<1>7. CASE Finished(r)
  BY <1>7, FinishBalanced
<1>8. CASE CrashInFinish(r)
  BY <1>1, <1>8, HistoryCrash DEF CrashInFinish, Restarted
<1> QED
  BY <1>2, <1>3, <1>4, <1>5, <1>6, <1>7, <1>8 DEF Relay

\* A failure is never forgotten.
LEMMA StaysUnclean ==
  ASSUME DeliveryInv, NEW r \in Requests, Relay(r), hist'.clean
  PROVE  hist.clean /\ driver' = driver /\ (request[r].phase # "idle" \/ Serving)
<1>1. hist \in Histories /\ hist.billed \in Nat /\ hist.shown \in Nat /\ hist.clean \in BOOLEAN
  BY LiveFacts, HistoryFields
<1>2. ASSUME hist.clean = FALSE
      PROVE  hist'.clean = FALSE
  <2>1. ASSUME NEW b, NEW i \in Nat, hist' = [hist EXCEPT !.asked = i, !.clean = hist.clean /\ b]
        PROVE  hist'.clean = FALSE
    BY <1>1, <1>2, <2>1 DEF Histories
  <2>2. ASSUME NEW b, hist' = [hist EXCEPT !.clean = hist.clean /\ b]
        PROVE  hist'.clean = FALSE
    BY <1>1, <1>2, <2>2 DEF Histories
  <2>3. ASSUME NEW b, NEW i, NEW j,
               hist' = [hist EXCEPT !.billed = i, !.shown = j, !.clean = hist.clean /\ b]
        PROVE  hist'.clean = FALSE
    BY <1>1, <1>2, <2>3 DEF Histories
  <2>4. CASE \E n \in Asked : open_stream(r, n)
    <3>1. PICK w : hist' = [hist EXCEPT !.asked = hist.asked + 1,
                                        !.clean = hist.clean /\ (w.ok /\ ledger.unper = 0)]
      BY <2>4 DEF open_stream
    <3>2. hist.asked + 1 \in Nat
      BY <1>1, SMT DEF Histories
    <3> QED
      BY <2>1, <3>1, <3>2
  <2>5. CASE Accounted(r) \/ \E n \in Counts : CountedChunk(r, n)
    <3>1. PICK n, m, broken, done : Record(r, n, m, broken, done)
      BY <2>5 DEF Accounted, CountedChunk
    <3>2. PICK w \in record_delivered(ledger, request[r].remaining, n) :
            hist' = [hist EXCEPT !.billed = IF w.ok THEN hist.billed + n ELSE hist.billed,
                                 !.shown = IF w.ok THEN hist.shown + m ELSE hist.shown,
                                 !.clean = hist.clean /\ w.ok]
      BY <3>1 DEF Record
    <3> DEFINE i == IF w.ok THEN hist.billed + n ELSE hist.billed
               j == IF w.ok THEN hist.shown + m ELSE hist.shown
    <3>3. hist' = [hist EXCEPT !.billed = i, !.shown = j, !.clean = hist.clean /\ w.ok]
      BY <3>2
    <3> HIDE DEF i, j
    <3> QED
      BY <2>3, <3>3
  <2>6. CASE EndOfStream(r) \/ \E n \in Counts : UncountedChunk(r, n)
    <3>1. hist' = hist \/ \E n \in Counts : hist' = [hist EXCEPT !.shown = hist.shown + n]
      BY <2>6 DEF EndOfStream, UncountedChunk
    <3> QED
      BY <1>1, <1>2, <3>1 DEF Histories
  <2>7. CASE Finished(r)
    <3>1. PICK w : hist' = [hist EXCEPT !.clean = hist.clean /\ (w.ok /\ request[r].phase = "exact")]
      BY <2>7 DEF Finished
    <3> QED
      BY <2>2, <3>1
  <2>8. CASE CrashInFinish(r)
    BY <1>1, <2>8, HistoryCrash DEF CrashInFinish, Restarted
  <2> QED
    BY <2>4, <2>5, <2>6, <2>7, <2>8 DEF Relay
<1>3. ~CrashInFinish(r)
  BY <1>1, HistoryCrash DEF CrashInFinish, Restarted
<1> QED
  BY <1>1, <1>2, <1>3 DEF Relay, open_stream, CountedChunk, UncountedChunk, Accounted,
     EndOfStream, Finished, Record

\* Once running, the process is off again only after a crash; it serves only
\* over an entry whose last reading was accepted.
LEMMA DriverOn ==
  ASSUME DeliveryInv, Driver \/ KeeperObserve \/ register_stream
  PROVE  /\ driver'.pc # "off" /\ UNCHANGED <<request, hist>>
         /\ Serving' =>
              \/ /\ driver.pc = "off"
                 /\ \E w \in reconcile_deal(ledger, chain) :
                      w.ok /\ ledger' = w.l /\ count' = w.l.rec.local
              \/ /\ Serving /\ count' = count
                 /\ \/ ledger' = ledger
                    \/ \E w \in reconcile_deal(ledger, chain) : w.ok /\ ledger' = w.l
<1>1. driver \in Drivers
  BY DEF DeliveryInv, DriverTypes
<1>2. CASE register_stream
  <2>1. PICK w \in reconcile_deal(ledger, chain) :
          /\ ledger' = w.l /\ count' = IF w.ok THEN w.l.rec.local ELSE 0
          /\ driver' = [driver EXCEPT !.pc = IF w.ok THEN "start" ELSE "failed"]
          /\ driver.pc = "off" /\ UNCHANGED <<request, hist>>
    BY <1>2 DEF register_stream
  <2>2. driver'.pc = IF w.ok THEN "start" ELSE "failed"
    BY <1>1, <2>1 DEF Drivers
  <2> QED
    BY <2>1, <2>2, SMT DEF Serving
<1>3. CASE DriverStart
  <2>1. PICK w \in ObservedLedgers :
          /\ ledger' = w.l /\ UNCHANGED <<request, hist, count>> /\ Serving
          /\ driver' = [driver EXCEPT !.pc = IF ~w.ok THEN "failed"
                                             ELSE IF chain.probe THEN "sync" ELSE "probe"]
    BY <1>3 DEF DriverStart, Serving
  <2>2. driver'.pc = IF ~w.ok THEN "failed" ELSE IF chain.probe THEN "sync" ELSE "probe"
    BY <1>1, <2>1 DEF Drivers
  <2>3. Serving' => w.ok
    BY <2>2 DEF Serving
  <2> QED
    BY <2>1, <2>2, <2>3, SMT DEF ObservedLedgers
<1>4. CASE SyncHighWater
  <2>1. PICK w \in ObservedLedgers :
          /\ ledger' = w.l /\ UNCHANGED <<request, hist, count>> /\ Serving
          /\ driver' = IF ~w.ok THEN [driver EXCEPT !.pc = "failed"]
                       ELSE [driver EXCEPT !.pc = "claim", !.claimed = chain.pending,
                                           !.base = chain.pending]
    BY <1>4 DEF SyncHighWater, Serving
  <2>2. driver'.pc = IF ~w.ok THEN "failed" ELSE "claim"
    BY <1>1, <2>1 DEF Drivers
  <2>3. Serving' => w.ok
    BY <2>2 DEF Serving
  <2> QED
    BY <2>1, <2>2, <2>3, SMT DEF ObservedLedgers
<1>5. CASE DecideProbe \/ acceptProbe \/ ClaimUnconfirmed
  BY <1>1, <1>5 DEF DecideProbe, acceptProbe, ClaimUnconfirmed, Drivers, Serving
<1>6. ASSUME NEW n, NEW target, Confirmed(n, target)
      PROVE  driver'.pc # "off"
  BY <1>1, <1>6 DEF Confirmed, Drivers
<1>7. CASE SubmitClaim \/ ConfirmClaim
  <2>1. UNCHANGED <<request, hist, count, ledger>> /\ Serving
    BY <1>7 DEF SubmitClaim, ConfirmClaim, Serving
  <2>2. driver'.pc # "off"
    BY <1>1, <1>6, <1>7 DEF SubmitClaim, ConfirmClaim, Drivers
  <2> QED
    BY <2>1, <2>2
<1>8. CASE DriverDone
  <2>1. driver' = [driver EXCEPT !.pc = "done"] /\ UNCHANGED <<request, hist>>
    BY <1>8 DEF DriverDone
  <2>2. driver'.pc = "done"
    BY <1>1, <2>1 DEF Drivers
  <2> QED
    BY <2>1, <2>2 DEF Serving
<1>9. CASE KeeperObserve
  <2>1. PICK w \in reconcile_deal(ledger, chain) :
          /\ ledger' = w.l /\ UNCHANGED <<request, hist, count>> /\ Serving
          /\ driver' = IF w.ok THEN driver
                       ELSE [driver EXCEPT !.pc = IF chain.stopped THEN "done" ELSE "failed"]
    BY <1>9 DEF KeeperObserve
  <2>2. CASE w.ok
    BY <2>1, <2>2 DEF Serving
  <2>3. CASE ~w.ok
    <3>1. driver'.pc = IF chain.stopped THEN "done" ELSE "failed"
      BY <1>1, <2>1, <2>3 DEF Drivers
    <3> QED
      BY <2>1, <3>1, SMT DEF Serving
  <2> QED
    BY <2>2, <2>3
<1> QED
  BY <1>2, <1>3, <1>4, <1>5, <1>7, <1>8, <1>9 DEF Driver

\* A reading that is accepted leaves the reservation and the split that waits.
LEMMA AcceptedReading ==
  ASSUME DeliveryInv, NEW w \in reconcile_deal(ledger, chain), w.ok
  PROVE  /\ ~chain.stopped /\ w.l.up = TRUE
         /\ ledger.up = TRUE => /\ w.l.unper = ledger.unper
                                /\ w.l.rec.reserved = ledger.rec.reserved
         /\ ledger.up = FALSE /\ ledger.disk.local = 0 /\ ledger.disk.reserved = 0 =>
              w.l.unper = 0 /\ w.l.rec.reserved = 0 /\ w.l.rec.local = 0
<1> DEFINE e == LoadEntry(ledger, chain)
           new == ReconciledRecord(e.rec, chain)
<1>1. ledger \in Ledgers /\ chain \in Chains
  BY LiveFacts
<1>2. ~chain.stopped
  BY SMT DEF reconcile_deal
<1>3. /\ e \in Ledgers /\ e.up = TRUE
      /\ \/ ledger.up = TRUE /\ e = ledger
         \/ /\ ledger.up = FALSE /\ e.unper = 0
            /\ e.rec = (IF ledger.disk = NoRecord THEN FreshRecord(chain) ELSE ledger.disk)
  BY <1>1, LoadFacts
<1>4. /\ SameEntry(e, w.l) /\ w.l.unper = e.unper /\ Reconcilable(e.rec, chain)
      /\ w.l.rec = new
  BY <1>1, <1>2, ReconcileOutcome DEF WriteFailed
<1>5. e.rec \in Records
  BY <1>3, LedgerFields
<1> HIDE DEF e
<1>6. new.reserved = e.rec.reserved /\ new.local <= e.rec.local /\ new.local \in Nat
  <2>1. new \in Records /\ new.reserved = e.rec.reserved /\ new.local <= e.rec.local
    BY <1>1, <1>4, <1>5, ReconciledFacts
  <2> HIDE DEF new
  <2> QED
    BY <2>1 DEF Records
<1>7. FreshRecord(chain).local = 0 /\ FreshRecord(chain).reserved = 0
  BY DEF FreshRecord
<1> HIDE DEF new
<1>8. w.l.up = TRUE
  BY <1>3, <1>4 DEF SameEntry
<1>9. ASSUME ledger.up = FALSE, ledger.disk.local = 0, ledger.disk.reserved = 0
      PROVE  w.l.unper = 0 /\ w.l.rec.reserved = 0 /\ w.l.rec.local = 0
  <2>1. e.rec.local = 0 /\ e.rec.reserved = 0 /\ e.unper = 0
    BY <1>3, <1>7, <1>9
  <2> QED
    BY <1>4, <1>6, <2>1, SMTT(30)
<1> QED
  BY <1>2, <1>3, <1>4, <1>6, <1>8, <1>9

\* Every step keeps the books of a process in which nothing failed.
LEMMA CleanStep ==
  ASSUME DeliveryInv, CleanInv, [Next]_vars
  PROVE  CleanInv'
<1>1. ASSUME NEW r \in Requests, request'[r].phase = "idle"
      PROVE  request'[r] = Idle
  BY <1>1, IdleSlots
<1>2. /\ count \in Nat /\ ledger.unper \in Nat /\ ledger.rec.reserved \in Nat
      /\ AllHeld \in Nat /\ ledger.up \in BOOLEAN /\ hist \in Histories
  BY LiveFacts DEF DeliveryInv, DriverTypes
<1> DEFINE Empty == /\ ~ledger.up /\ ledger.disk.local = 0 /\ ledger.disk.reserved = 0
                    /\ AllIdle /\ hist.billed = 0
<1>3. SUFFICES ASSUME hist'.clean
               PROVE  /\ driver'.pc = "off" => Empty'
                      /\ Serving' => Balanced'
  BY <1>1 DEF CleanInv
<1>4. CASE UNCHANGED <<ledger, request, count, driver, hist>>
  <2>1. AllHeld' = AllHeld /\ (AllIdle' <=> AllIdle)
    BY <1>4, HeldSame
  <2> QED
    BY <1>3, <1>4, <2>1 DEF CleanInv, Balanced, Serving
<1>5. CASE (\E n \in 1..Funded : claimTokens(n)) \/ settleWeek \/ stop \/ UNCHANGED vars
  BY <1>4, <1>5 DEF claimTokens, settleWeek, stop, vars
<1>6. CASE Crash
  BY <1>2, <1>3, <1>6, HistoryCrash DEF Crash, Restarted
<1>7. ASSUME NEW r \in Requests, Relay(r)
      PROVE  (driver'.pc = "off" => Empty') /\ (Serving' => Balanced')
  <2>1. hist.clean /\ driver' = driver /\ (request[r].phase # "idle" \/ Serving)
    BY <1>3, <1>7, StaysUnclean
  <2>2. driver'.pc # "off"
    BY <2>1, SMT DEF CleanInv, AllIdle, Idle, Serving
  <2>3. Serving' => Balanced
    BY <2>1 DEF CleanInv, Serving
  <2> QED
    BY <1>3, <1>7, <2>2, <2>3, RelayBalanced
<1>8. CASE Driver \/ KeeperObserve \/ register_stream
  <2>1. driver'.pc # "off" /\ UNCHANGED <<request, hist>> /\ hist.clean
    BY <1>3, <1>8, DriverOn
  <2>2. AllHeld' = AllHeld /\ (AllIdle' <=> AllIdle)
    BY <2>1, HeldSame
  <2>3. ASSUME driver.pc = "off", NEW w \in reconcile_deal(ledger, chain), w.ok,
               ledger' = w.l, count' = w.l.rec.local
        PROVE  Balanced'
    <3>1. /\ ~ledger.up /\ ledger.disk.local = 0 /\ ledger.disk.reserved = 0
          /\ AllIdle /\ hist.billed = 0
      BY <2>1, <2>3 DEF CleanInv
    <3>2. /\ ledger'.up = TRUE /\ ledger'.unper = 0 /\ ledger'.rec.reserved = 0
          /\ ledger'.rec.local = 0
      BY <1>2, <2>3, <3>1, AcceptedReading
    <3>3. AllHeld' = 0
      BY <2>2, <3>1, HeldNone
    <3> QED
      BY <2>1, <2>3, <3>1, <3>2, <3>3, SMT DEF Balanced
  <2>4. ASSUME Serving, count' = count,
               \/ ledger' = ledger
               \/ \E w \in reconcile_deal(ledger, chain) : w.ok /\ ledger' = w.l
        PROVE  Balanced'
    <3>1. Balanced
      BY <2>1, <2>4 DEF CleanInv
    <3>2. ledger.up = TRUE
      BY <1>2, <3>1 DEF Balanced
    <3>3. /\ ledger'.up = TRUE /\ ledger'.unper = ledger.unper
          /\ ledger'.rec.reserved = ledger.rec.reserved
      BY <2>4, <3>2, AcceptedReading
    <3> QED
      BY <2>1, <2>2, <2>4, <3>1, <3>3 DEF Balanced
  <2> QED
    BY <1>8, <2>1, <2>3, <2>4, DriverOn
<1> QED
  BY <1>5, <1>6, <1>7, <1>8 DEF Next

\* When every stream has ended with its usage known and nothing failed, each
\* billed token is durable and in the counter the claims are driven by, and no
\* reservation is left (finish_exact and flush_delivered, capacity.rs).
THEOREM TerminalsFlush == Spec => []EveryTerminalFlushes
<1>1. Init => DeliveryInv /\ CleanInv
  <2> SUFFICES ASSUME Init
               PROVE  DeliveryInv /\ CleanInv
    OBVIOUS
  <2>1. DeliveryInv
    BY DeliveryInit
  <2>2. AllIdle /\ driver.pc = "off" /\ ~Serving /\ hist.billed = 0 /\ ~ledger.up
    BY DEF Init, AllIdle, Off, Serving
  <2>3. ledger.disk.local = 0 /\ ledger.disk.reserved = 0
    BY DEF Init, FreshRecord, NoRecord
  <2> QED
    BY <2>1, <2>2, <2>3 DEF CleanInv, AllIdle
<1>2. DeliveryInv /\ CleanInv /\ [Next]_vars => DeliveryInv' /\ CleanInv'
  BY DeliveryStep, CleanStep
<1>3. DeliveryInv /\ CleanInv => EveryTerminalFlushes
  <2> SUFFICES ASSUME DeliveryInv, CleanInv, hist.clean, Serving, AllIdle
               PROVE  count = hist.billed /\ ledger.rec.reserved = 0
    BY DEF EveryTerminalFlushes, AllIdle
  <2>1. AllHeld = 0 /\ Balanced /\ count \in Nat
    BY HeldNone DEF CleanInv, DeliveryInv, DriverTypes
  <2> QED
    BY <2>1, SMT DEF Balanced
<1> QED
  BY <1>1, <1>2, <1>3, PTL DEF Spec
=============================================================================
