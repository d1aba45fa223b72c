--------------------------- MODULE ReferencePrice ---------------------------
(***************************************************************************)
(* The reference-price statistics of InferenceOrderBook.sol: deals report  *)
(* the ticks they have finalized, the book keeps a ring of trading days    *)
(* and answers with the median of the last week's daily averages.          *)
(*                                                                         *)
(* Time is counted in days (block.timestamp / SECS_PER_DAY).  A deal sends *)
(* its cumulative count from several of its paths and best-effort, so a    *)
(* report is delivered late, again, or never: any count the deal has       *)
(* reached may arrive at any time.  `ledger` records, per day, what was    *)
(* reported that day; no action reads it.                                  *)
(***************************************************************************)
EXTENDS Integers, Sequences, FiniteSets, FiniteSetsExt, Folds, Finiteness

CONSTANTS
  SLOTS,         \* slots of the ring (8 in the code; the assumption allows fewer)
  WINDOW_DAYS,   \* days of the window (7 in the code)
  Deals,         \* deal contracts of this model
  PricePerTick,  \* each deal's price
  FirstDay,      \* day of the first report
  MaxDay,        \* bound: last day
  MaxServed      \* bound: ticks each deal serves

ASSUME RingSize == SLOTS \in 1..8 /\ WINDOW_DAYS \in 1..SLOTS
ASSUME InputAssumption ==
  /\ Finite(Deals)
  /\ PricePerTick \in [Deals -> Nat]
  /\ MaxServed \in [Deals -> Nat]
ASSUME CalendarAssumption == FirstDay \in Nat /\ MaxDay \in Nat /\ FirstDay <= MaxDay

VARIABLES daily, curSlot, finalizedSeen, ledger, day

vars == <<daily, curSlot, finalizedSeen, ledger, day>>

MIN_LIQUIDITY == 1

EmptyDay == [day |-> 0, pv |-> 0, vol |-> 0]

-----------------------------------------------------------------------------
(* Recording                                                               *)

\* Mutant: the ring is shorter than the window it serves.
NextSlot_Short(slot) == (slot + 1) % (WINDOW_DAYS - 1)

NextSlot(slot) == (slot + 1) % SLOTS

\* The slot of today: the current one if it is today's or was never used.
SlotFor(today) ==
  IF daily[curSlot].day = today \/ (daily[curSlot].day = 0 /\ daily[curSlot].vol = 0)
  THEN curSlot ELSE NextSlot(curSlot)

DayAt(slot, today) ==
  IF daily[slot].day = today THEN daily[slot] ELSE [EmptyDay EXCEPT !.day = today]

RecordTrade(price, ticks) ==
  LET slot == SlotFor(day)
      d    == DayAt(slot, day)
  IN  /\ curSlot' = slot
      /\ daily' = [daily EXCEPT ![slot] = [d EXCEPT !.pv = @ + price * ticks, !.vol = @ + ticks]]

\* Mutant: a repeated or later report is recorded whole instead of its increment.
reportFinalized_WholeCount(tc, cumulative) ==
  /\ cumulative > finalizedSeen[tc]
  /\ finalizedSeen' = [finalizedSeen EXCEPT ![tc] = cumulative]
  /\ RecordTrade(PricePerTick[tc], cumulative)

reportFinalized(tc, cumulative) ==
  /\ cumulative > finalizedSeen[tc]
  /\ finalizedSeen' = [finalizedSeen EXCEPT ![tc] = cumulative]
  /\ RecordTrade(PricePerTick[tc], cumulative - finalizedSeen[tc])

-----------------------------------------------------------------------------
(* The median                                                              *)

Up(step(_, _), S, acc) == MapThenFoldSet(LAMBDA i, a : step(a, i), acc, LAMBDA i : i, Max, S)

MinDay == IF day >= WINDOW_DAYS - 1 THEN day - (WINDOW_DAYS - 1) ELSE 0

InWindow(d) == d.vol # 0 /\ MinDay <= d.day /\ d.day <= day

Window == {i \in 0..(SLOTS - 1) : InWindow(daily[i])}

Vwap(d) == d.pv \div d.vol

Vwaps == Up(LAMBDA v, i : Append(v, Vwap(daily[i])), Window, <<>>)

Exchange(v, a, b) == IF v[b] < v[a] THEN [v EXCEPT ![a] = v[b], ![b] = v[a]] ELSE v

\* Mutant: the inner loop skips the next element.
Sorted_SkipsNeighbour(v) ==
  Up(LAMBDA u, a : Up(LAMBDA x, b : Exchange(x, a, b), (a + 2)..Len(v), u), 1..Len(v), v)

Sorted(v) ==
  Up(LAMBDA u, a : Up(LAMBDA x, b : Exchange(x, a, b), (a + 1)..Len(v), u), 1..Len(v), v)

Middle(v) ==
  IF Len(v) % 2 = 1 THEN v[Len(v) \div 2 + 1]
  ELSE (v[Len(v) \div 2] + v[Len(v) \div 2 + 1]) \div 2

HasLiquidity == MapThenSumSet(LAMBDA i : daily[i].vol, Window) >= MIN_LIQUIDITY

WeeklyMedian == Middle(Sorted(Vwaps))

-----------------------------------------------------------------------------
(* The specification                                                       *)

\* A report of that deal is delivered; one that brings nothing new is ignored.
Report(tc) ==
  \E c \in 1..MaxServed[tc] :
    /\ reportFinalized(tc, c)
    /\ ledger' = [ledger EXCEPT ![day] =
                    [pv  |-> @.pv + PricePerTick[tc] * (c - finalizedSeen[tc]),
                     vol |-> @.vol + (c - finalizedSeen[tc])]]
    /\ UNCHANGED day

NextDay ==
  /\ day < MaxDay
  /\ day' = day + 1
  /\ UNCHANGED <<daily, curSlot, finalizedSeen, ledger>>

Init ==
  /\ daily = [i \in 0..(SLOTS - 1) |-> EmptyDay]
  /\ curSlot = 0
  /\ finalizedSeen = [tc \in Deals |-> 0]
  /\ ledger = [d \in FirstDay..MaxDay |-> [pv |-> 0, vol |-> 0]]
  /\ day = FirstDay

Next == (\E tc \in Deals : Report(tc)) \/ NextDay

Spec == Init /\ [][Next]_vars

-----------------------------------------------------------------------------
(* Properties                                                              *)

\* The ring is as long as the window needs: the slots _weeklyMedian reads are
\* exactly the days of the last week on which something was reported, each with all of
\* that day's volume, although slots are reused and idle days take none.
WindowExact ==
  {daily[i] : i \in Window} =
    {[day |-> d, pv |-> ledger[d].pv, vol |-> ledger[d].vol] :
       d \in {e \in FirstDay..day : e > day - WINDOW_DAYS /\ ledger[e].vol # 0}}

\* Reports count once: the ring never holds more volume than the deals have
\* reported, nor more notional, however reports are repeated, delayed or skipped.
CountedOnce ==
  /\ SumFunctionOnSet([i \in 0..(SLOTS - 1) |-> daily[i].vol], 0..(SLOTS - 1))
       <= SumFunctionOnSet(finalizedSeen, Deals)
  /\ SumFunctionOnSet([i \in 0..(SLOTS - 1) |-> daily[i].pv], 0..(SLOTS - 1))
       <= SumFunctionOnSet([tc \in Deals |-> finalizedSeen[tc] * PricePerTick[tc]], Deals)

\* The answer is a median of the daily averages: at most half of the days are
\* above it, at most half below.  It says the hand-written exchange sort sorts.
MedianSplits ==
  HasLiquidity =>
    /\ 2 * Cardinality({i \in Window : Vwap(daily[i]) < WeeklyMedian}) <= Cardinality(Window)
    /\ 2 * Cardinality({i \in Window : Vwap(daily[i]) > WeeklyMedian}) <= Cardinality(Window)

=============================================================================
