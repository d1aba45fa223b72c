--------------------------- MODULE CapacityLedger ---------------------------
(***************************************************************************)
(* The seller's delivery capacity for one funded deal (seller/capacity.rs):*)
(* the durable record, its in-memory copy with the split that waits to be  *)
(* written, and the operations of CapacityManager and CapacityReservation. *)
(*                                                                         *)
(* A ledger value is                                                       *)
(*   rec       the in-memory record [cap, anchor, local, reserved]         *)
(*   unper     unpersisted_delivered                                       *)
(*   up        the entry is in the manager's map                           *)
(*   terminal  the entry's terminal flag                                   *)
(*   disk      the record in the file, NoRecord when there is none         *)
(*   faults    writes of the file that may still fail                      *)
(*                                                                         *)
(* An operation that writes the file returns the set of its outcomes       *)
(* [l |-> ledger, ok |-> BOOLEAN, gained |-> tokens that became durable].  *)
(* The entry's mutex is held over each operation, so each is one step; the *)
(* only place a crash can fall between two writes is finish_exact.         *)
(* fundedTokens never changes on chain, so it is a constant here and the   *)
(* refusal of a changed total is not reachable.                            *)
(***************************************************************************)
EXTENDS Integers

CONSTANTS TICK_SIZE, Funded, SubWeeks, TokensPerWeek,
          CAPACITY_PERSIST_TOKEN_INTERVAL

ASSUME LedgerConstants ==
  /\ {TICK_SIZE, Funded, CAPACITY_PERSIST_TOKEN_INTERVAL} \subseteq Nat \ {0}
  /\ {SubWeeks, TokensPerWeek} \subseteq Nat
  /\ TokensPerWeek * (IF SubWeeks = 0 THEN 1 ELSE SubWeeks) = Funded

Smaller(a, b) == IF a < b THEN a ELSE b
Subtract(a, b) == IF a < b THEN 0 ELSE a - b

\* Every record the code writes has a positive cap.
NoRecord == [cap |-> 0, anchor |-> 0, local |-> 0, reserved |-> 0]

Committed(rec) == rec.anchor + rec.local + rec.reserved

validate_record(rec) == Committed(rec) <= rec.cap /\ rec.cap <= Funded

-----------------------------------------------------------------------------
(* What the chain allows: c = [probe, pending, week, base, stopped]        *)

IsSubscription == SubWeeks > 0
TermEnded(c) == IsSubscription /\ c.week >= SubWeeks

\* Mutant: the quotas of all the weeks so far add up.
authoritative_cap_Rollover(c) ==
  IF TermEnded(c) THEN c.pending
  ELSE IF ~c.probe THEN Smaller(TICK_SIZE, Funded)
  ELSE IF ~IsSubscription THEN Funded
  ELSE Smaller((c.week + 1) * TokensPerWeek, Funded)

authoritative_cap(c) ==
  IF TermEnded(c) THEN c.pending
  ELSE IF ~c.probe THEN Smaller(TICK_SIZE, Funded)
  ELSE IF ~IsSubscription THEN Funded
  ELSE Smaller(c.base + TokensPerWeek, Funded)

-----------------------------------------------------------------------------
(* The file                                                                *)

\* A write that fails leaves the old file, or the new one when only the sync
\* of the directory after the rename failed.
persist_candidate(l, new) ==
  {[l |-> [l EXCEPT !.rec = new, !.disk = new], ok |-> TRUE, gained |-> 0]}
    \cup IF l.faults = 0 THEN {}
         ELSE {[l |-> [l EXCEPT !.disk = d, !.faults = @ - 1],
                ok |-> FALSE, gained |-> 0] : d \in {l.disk, new}}

Refused(l) == {[l |-> l, ok |-> FALSE, gained |-> 0]}

flush_delivered(l) ==
  IF l.unper = 0 THEN {[l |-> l, ok |-> TRUE, gained |-> 0]}
  ELSE IF l.unper > l.rec.reserved THEN Refused(l)
  ELSE {IF w.ok THEN [w EXCEPT !.l.unper = 0, !.gained = l.unper] ELSE w :
          w \in persist_candidate(l, [l.rec EXCEPT !.reserved = @ - l.unper,
                                                   !.local = @ + l.unper])}

-----------------------------------------------------------------------------
(* CapacityManager                                                         *)

FreshRecord(c) == [cap |-> authoritative_cap(c), anchor |-> c.pending,
                   local |-> 0, reserved |-> 0]

\* The entry is taken from the file the first time the deal is seen.
LoadEntry(l, c) ==
  IF l.up THEN l
  ELSE [l EXCEPT !.up = TRUE, !.terminal = FALSE, !.unper = 0,
                 !.rec = IF l.disk = NoRecord THEN FreshRecord(c) ELSE l.disk]

ProbeSeed(rec, c) ==
  IF c.probe /\ rec.anchor = 0 THEN Smaller(TICK_SIZE, c.pending - rec.anchor) ELSE 0

\* Mutant: past the term the cap is the contract's, reservations or not.
ReconciledRecord_NoGrace(rec, c) ==
  [cap |-> authoritative_cap(c), anchor |-> c.pending,
   local |-> Subtract(rec.local, c.pending - rec.anchor), reserved |-> rec.reserved]

\* Mutant: unresolved reservations are dropped when the chain is read.
ReconciledRecord_Forgets(rec, c) ==
  [cap |-> authoritative_cap(c), anchor |-> c.pending,
   local |-> Subtract(rec.local, c.pending - rec.anchor), reserved |-> 0]

ReconciledRecord(rec, c) ==
  LET local == Subtract(rec.local, c.pending - rec.anchor)
  IN [cap |-> IF TermEnded(c) THEN c.pending + local + rec.reserved
              ELSE authoritative_cap(c),
      anchor |-> c.pending, local |-> local, reserved |-> rec.reserved]

\* Everything reconcile_deal bails on for a deal that is not stopped.
Reconcilable(rec, c) ==
  /\ c.pending <= authoritative_cap(c)
  /\ c.pending >= rec.anchor
  /\ authoritative_cap(c) >= rec.cap \/ TermEnded(c)
  /\ c.pending - rec.anchor - ProbeSeed(rec, c) <= rec.local \/ TermEnded(c)
  /\ validate_record(ReconciledRecord(rec, c))

reconcile_live(l, c) ==
  LET new == ReconciledRecord(l.rec, c)
  IN IF l.terminal \/ ~Reconcilable(l.rec, c) THEN Refused(l)
     ELSE IF new = l.rec THEN {[l |-> l, ok |-> TRUE, gained |-> 0]}
     ELSE persist_candidate(l, new)

mark_terminal(l) ==
  [l EXCEPT !.up = FALSE, !.terminal = TRUE, !.disk = NoRecord]

reconcile_deal(l, c) ==
  IF c.stopped THEN {[l |-> mark_terminal(l), ok |-> FALSE, gained |-> 0]}
  ELSE reconcile_live(LoadEntry(l, c), c)

\* What reserve grants of a request for n tokens.
Available(l, n) == Smaller(l.rec.cap - Committed(l.rec), n)

\* Mutant: a second request is granted what the first one holds.
reserve_Shared(l, n) ==
  persist_candidate(l, [l.rec EXCEPT !.reserved = IF @ > n THEN @ ELSE n])

\* The split that waits is zeroed when the new reservation is written.
reserve(l, n) ==
  {IF w.ok THEN [w EXCEPT !.l.unper = 0] ELSE w :
     w \in persist_candidate(l, [l.rec EXCEPT !.reserved = @ + n])}

-----------------------------------------------------------------------------
(* CapacityReservation                                                     *)

\* `remaining` is the request's; a failed write keeps the tokens in the split.
record_delivered(l, remaining, n) ==
  LET held == [l EXCEPT !.unper = @ + n]
  IN IF n > remaining \/ l.terminal \/ held.unper > l.rec.reserved THEN Refused(l)
     ELSE IF held.unper >= CAPACITY_PERSIST_TOKEN_INTERVAL THEN flush_delivered(held)
     ELSE {[l |-> held, ok |-> TRUE, gained |-> 0]}

\* The second write of finish_exact.
Release(f, remaining) ==
  IF remaining > f.l.rec.reserved THEN Refused(f.l)
  ELSE {IF w.ok THEN [w EXCEPT !.gained = f.gained] ELSE w :
          w \in persist_candidate(f.l, [f.l.rec EXCEPT !.reserved = @ - remaining])}

\* Mutant: the remainder is released and the split never written.
finish_exact_NoFlush(l, remaining) ==
  Release([l |-> l, ok |-> TRUE, gained |-> 0], remaining)

finish_exact(l, remaining) ==
  IF l.terminal THEN {[l |-> l, ok |-> TRUE, gained |-> 0]}
  ELSE UNION {IF f.ok THEN Release(f, remaining) ELSE {f} : f \in flush_delivered(l)}

finish_ambiguous(l) ==
  IF l.terminal THEN {[l |-> l, ok |-> TRUE, gained |-> 0]} ELSE flush_delivered(l)

authorize_exposure(remaining, minBillable) ==
  remaining >= (IF minBillable > 1 THEN minBillable ELSE 1)
=============================================================================
