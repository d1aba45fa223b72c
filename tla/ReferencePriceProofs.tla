------------------------ MODULE ReferencePriceProofs ------------------------
(***************************************************************************)
(* The reference-price statistics for every ring up to the code's, every   *)
(* window, calendar and set of deals: the ring never loses a day the       *)
(* window still reads, and a report counts once.                           *)
(***************************************************************************)
EXTENDS ReferencePrice, SumLemmas

-----------------------------------------------------------------------------
(* The inductive invariant                                                 *)

Slots == 0 .. (SLOTS - 1)

Days == FirstDay .. MaxDay

RingTypeOK ==
  /\ daily \in [Slots -> [day : Nat, pv : Nat, vol : Nat]]
  /\ curSlot \in Slots
  /\ finalizedSeen \in [Deals -> Nat]
  /\ ledger \in [Days -> [pv : Nat, vol : Nat]]
  /\ day \in Days

\* How many slots `i` lies behind slot `c`, going backwards around the ring.
Behind(i, c) == IF i <= c THEN c - i ELSE c - i + SLOTS

Used(i) == daily[i].vol # 0

\* What the ring should hold for a day.
Traded(d) == [day |-> d, pv |-> ledger[d].pv, vol |-> ledger[d].vol]

\* A used slot holds a past day, all of it, and one that is the older the further
\* the slot lies behind; an unused one is blank.
SlotsInOrder ==
  \A i \in Slots :
    /\ Used(i) => /\ daily[i].day \in FirstDay .. day
                  /\ daily[i] = Traded(daily[i].day)
                  /\ daily[i].day + Behind(i, curSlot) <= daily[curSlot].day
    /\ ~Used(i) => daily[i] = EmptyDay

\* A day with trades is in the ring until the ring has gone all the way round.
DaysKept ==
  \A d \in Days :
    /\ ledger[d].vol = 0 => ledger[d].pv = 0
    /\ ledger[d].vol # 0 =>
         (\E i \in Slots : Used(i) /\ daily[i].day = d) \/ d + SLOTS <= daily[curSlot].day

\* The inductive invariant.
RingInv == RingTypeOK /\ SlotsInOrder /\ DaysKept

-----------------------------------------------------------------------------
(* The ring                                                                *)

\* The ring has at least one slot, and the slots are a finite set.
LEMMA RingFacts ==
  /\ SLOTS \in Nat \ {0} /\ WINDOW_DAYS \in Nat \ {0} /\ WINDOW_DAYS <= SLOTS
  /\ Finite(Slots)
  /\ FirstDay \in Nat /\ MaxDay \in Nat /\ FirstDay <= MaxDay
<1>1. SLOTS \in Nat \ {0} /\ WINDOW_DAYS \in Nat \ {0} /\ WINDOW_DAYS <= SLOTS
  BY RingSize
<1>2. Finite(Slots)
  <2>1. Finite({0, 1})
    <3>1. {0, 1} = {0} \cup {1}
      OBVIOUS
    <3>2. Finite({0})
      BY FiniteSingle, Zenon
    <3> QED
      BY <3>1, <3>2, FiniteAdd
  <2>2. Finite({0, 1, 2})
    <3>1. {0, 1, 2} = {0, 1} \cup {2}
      OBVIOUS
    <3> QED
      BY <2>1, <3>1, FiniteAdd
  <2>3. Finite({0, 1, 2, 3})
    <3>1. {0, 1, 2, 3} = {0, 1, 2} \cup {3}
      OBVIOUS
    <3> QED
      BY <2>2, <3>1, FiniteAdd
  <2>4. Finite({0, 1, 2, 3, 4})
    <3>1. {0, 1, 2, 3, 4} = {0, 1, 2, 3} \cup {4}
      OBVIOUS
    <3> QED
      BY <2>3, <3>1, FiniteAdd
  <2>5. Finite({0, 1, 2, 3, 4, 5})
    <3>1. {0, 1, 2, 3, 4, 5} = {0, 1, 2, 3, 4} \cup {5}
      OBVIOUS
    <3> QED
      BY <2>4, <3>1, FiniteAdd
  <2>6. Finite({0, 1, 2, 3, 4, 5, 6})
    <3>1. {0, 1, 2, 3, 4, 5, 6} = {0, 1, 2, 3, 4, 5} \cup {6}
      OBVIOUS
    <3> QED
      BY <2>5, <3>1, FiniteAdd
  <2>7. Finite({0, 1, 2, 3, 4, 5, 6, 7})
    <3>1. {0, 1, 2, 3, 4, 5, 6, 7} = {0, 1, 2, 3, 4, 5, 6} \cup {7}
      OBVIOUS
    <3> QED
      BY <2>6, <3>1, FiniteAdd
  <2>8. Slots \subseteq {0, 1, 2, 3, 4, 5, 6, 7}
    BY RingSize DEF Slots
  <2> QED
    BY <2>7, <2>8, FiniteSubset, Zenon
<1>. QED BY <1>1, <1>2, CalendarAssumption

\* The next slot is the furthest behind: going forward one step makes it the
\* current one and every other slot one further behind.
LEMMA NextIsOldest ==
  ASSUME NEW c \in Slots
  PROVE  /\ NextSlot(c) \in Slots
         /\ Behind(NextSlot(c), c) = SLOTS - 1
         /\ \A i \in Slots \ {NextSlot(c)} : Behind(i, NextSlot(c)) = Behind(i, c) + 1
         /\ \A i \in Slots : Behind(i, c) \in Nat /\ (i # c => Behind(i, c) > 0)
         /\ Behind(c, c) = 0
<1>1. SLOTS \in Nat \ {0} /\ c \in Int /\ 0 <= c /\ c <= SLOTS - 1
  BY RingFacts DEF Slots
<1>2. NextSlot(c) = IF c = SLOTS - 1 THEN 0 ELSE c + 1
  <2>1. CASE c = SLOTS - 1
    <3>1. c + 1 = SLOTS
      BY <1>1, <2>1
    <3>2. SLOTS % SLOTS = 0
      BY <1>1
    <3>. QED BY <2>1, <3>1, <3>2 DEF NextSlot
  <2>2. CASE c # SLOTS - 1
    <3>1. c + 1 \in Nat /\ c + 1 < SLOTS
      BY <1>1, <2>2
    <3>2. (c + 1) % SLOTS = c + 1
      BY <1>1, <3>1
    <3>. QED BY <2>2, <3>2 DEF NextSlot
  <2>. QED BY <2>1, <2>2
<1>. QED BY <1>1, <1>2 DEF Slots, Behind

\* A day before a day of the calendar, and not before the first, is one too.
LEMMA PastDay ==
  ASSUME NEW d \in Days, NEW e \in FirstDay .. d
  PROVE  e \in Days /\ e \in Nat
BY RingFacts DEF Days

\* The constructor's ring is in order.
LEMMA RingStarts == Init => RingInv
<1>. SUFFICES ASSUME Init PROVE RingInv
  OBVIOUS
<1>1. RingTypeOK
  BY RingFacts, InputAssumption DEF Init, RingTypeOK, Slots, Days, EmptyDay
<1>2. SlotsInOrder
  BY DEF Init, SlotsInOrder, Used, Slots, EmptyDay
<1>3. DaysKept
  BY DEF Init, DaysKept, Days
<1>. QED BY <1>1, <1>2, <1>3 DEF RingInv

-----------------------------------------------------------------------------
(* A report                                                                *)

\* Where a trade of today goes: to the current slot, which is today's or blank, or
\* to the oldest one.  Everything else in the ring is older than today.
LEMMA SlotOfToday ==
  ASSUME RingInv
  PROVE  /\ SlotFor(day) \in Slots
         /\ \/ SlotFor(day) = curSlot /\ (Used(curSlot) => daily[curSlot].day = day)
            \/ SlotFor(day) = NextSlot(curSlot) /\ Used(curSlot) /\ daily[curSlot].day < day
         /\ daily[curSlot].day <= day
         /\ \A i \in Slots \ {SlotFor(day)} : Used(i) => daily[i].day < day
<1>0. /\ curSlot \in Slots /\ day \in Nat /\ SLOTS \in Nat \ {0}
      /\ \A i \in Slots : daily[i].day \in Nat /\ daily[i].vol \in Nat
  BY RingFacts DEF RingInv, RingTypeOK, Days
<1>1. \A i \in Slots : Used(i) => /\ daily[i].day <= day
                                  /\ daily[i].day + Behind(i, curSlot) <= daily[curSlot].day
  BY <1>0, RingFacts DEF RingInv, SlotsInOrder
<1>2. daily[curSlot].day <= day
  BY <1>0, <1>1 DEF RingInv, SlotsInOrder, EmptyDay
<1>3. Used(curSlot) \/ (daily[curSlot].day = 0 /\ daily[curSlot].vol = 0)
  BY <1>0 DEF RingInv, SlotsInOrder, EmptyDay
<1>4. \/ SlotFor(day) = curSlot /\ (Used(curSlot) => daily[curSlot].day = day)
      \/ SlotFor(day) = NextSlot(curSlot) /\ Used(curSlot) /\ daily[curSlot].day < day
  BY <1>0, <1>2, <1>3 DEF SlotFor, Used
<1>5. SlotFor(day) \in Slots
  BY <1>0, <1>4, NextIsOldest
<1>6. ASSUME NEW i \in Slots \ {SlotFor(day)}, Used(i) PROVE daily[i].day < day
  <2>1. Behind(i, curSlot) \in Nat /\ (i # curSlot => Behind(i, curSlot) > 0)
    BY <1>0, NextIsOldest
  <2>. QED BY <1>0, <1>1, <1>2, <1>4, <1>6, <2>1
<1>. QED BY <1>2, <1>4, <1>5, <1>6

\* The day the trade is added to is what was traded today so far.
LEMMA TodaySoFar ==
  ASSUME RingInv
  PROVE  DayAt(SlotFor(day), day) = Traded(day)
<1>. DEFINE s == SlotFor(day)
<1>0. /\ s \in Slots /\ day \in Days /\ day \in Nat /\ SLOTS \in Nat \ {0}
      /\ curSlot \in Slots /\ daily[curSlot].day \in Nat
      /\ ledger[day] \in [pv : Nat, vol : Nat]
  <2>1. /\ daily \in [Slots -> [day : Nat, pv : Nat, vol : Nat]] /\ curSlot \in Slots
        /\ ledger \in [Days -> [pv : Nat, vol : Nat]] /\ day \in Days
    BY Zenon DEF RingInv, RingTypeOK
  <2>2. SlotFor(day) \in Slots
    BY SlotOfToday, Zenon
  <2>3. day \in Nat
    BY <2>1, RingFacts DEF Days
  <2>4. SLOTS \in Nat \ {0}
    BY RingFacts, Zenon
  <2>5. daily[curSlot].day \in Nat /\ ledger[day] \in [pv : Nat, vol : Nat]
    BY <2>1
  <2>. QED BY <2>1, <2>2, <2>3, <2>4, <2>5, Zenon
<1>1. \A i \in Slots \ {s} : Used(i) => daily[i].day # day
  BY <1>0, SlotOfToday DEF RingInv, RingTypeOK
<1>2. CASE Used(s) /\ daily[s].day = day
  BY <1>0, <1>2 DEF RingInv, SlotsInOrder, DayAt
<1>3. CASE ~(Used(s) /\ daily[s].day = day)
  <2>1. ~ \E i \in Slots : Used(i) /\ daily[i].day = day
    BY <1>1, <1>3
  <2>2. ledger[day].vol = 0 /\ ledger[day].pv = 0
    BY <1>0, <2>1, SlotOfToday DEF RingInv, DaysKept
  <2>3. daily[s].day = day => daily[s] = EmptyDay
    BY <1>0, <1>3 DEF RingInv, SlotsInOrder
  <2>. QED BY <2>2, <2>3 DEF DayAt, EmptyDay, Traded
<1>. QED BY <1>2, <1>3

\* reportFinalized keeps the ring in order.
LEMMA ReportKeepsRing ==
  ASSUME RingInv, NEW tc \in Deals, Report(tc)
  PROVE  RingInv'
<1>. PICK c \in 1 .. MaxServed[tc] :
       /\ reportFinalized(tc, c)
       /\ ledger' = [ledger EXCEPT ![day] =
                       [pv  |-> @.pv + PricePerTick[tc] * (c - finalizedSeen[tc]),
                        vol |-> @.vol + (c - finalizedSeen[tc])]]
       /\ UNCHANGED day
  BY Zenon DEF Report
<1>. DEFINE n == c - finalizedSeen[tc]
            v == PricePerTick[tc] * n
            s == SlotFor(day)
            e == DayAt(s, day)
            w == [e EXCEPT !.pv = @ + v, !.vol = @ + n]
<1>0. /\ s \in Slots /\ day \in Days /\ day \in Nat /\ SLOTS \in Nat \ {0} /\ curSlot \in Slots
      /\ daily \in [Slots -> [day : Nat, pv : Nat, vol : Nat]]
      /\ ledger \in [Days -> [pv : Nat, vol : Nat]]
      /\ Days \subseteq Nat
  <2>1. Days \subseteq Nat
    BY RingFacts, SMT DEF Days
  <2>2. /\ day \in Days /\ curSlot \in Slots
        /\ daily \in [Slots -> [day : Nat, pv : Nat, vol : Nat]]
        /\ ledger \in [Days -> [pv : Nat, vol : Nat]]
    BY Zenon DEF RingInv, RingTypeOK
  <2>. QED BY <2>1, <2>2, SlotOfToday, RingFacts, Zenon
<1>1. n \in Nat \ {0} /\ v \in Nat
  <2>1. c \in Nat /\ finalizedSeen[tc] \in Nat /\ c > finalizedSeen[tc] /\ PricePerTick[tc] \in Nat
    <3>1. MaxServed[tc] \in Nat /\ PricePerTick[tc] \in Nat
      BY InputAssumption
    <3>2. finalizedSeen[tc] \in Nat
      BY DEF RingInv, RingTypeOK
    <3>. QED BY <3>1, <3>2 DEF reportFinalized
  <2>. QED BY <2>1
<1>2. finalizedSeen' \in [Deals -> Nat]
  <2>1. c \in Nat
    BY InputAssumption
  <2>. QED BY <2>1 DEF reportFinalized, RingInv, RingTypeOK
<1>3. /\ curSlot' = s /\ daily' = [daily EXCEPT ![s] = w] /\ day' = day
      /\ ledger' = [ledger EXCEPT ![day] = [pv |-> @.pv + v, vol |-> @.vol + n]]
  BY DEF reportFinalized, RecordTrade
<1>4. e = Traded(day)
  BY TodaySoFar
<1>5. w = [day |-> day, pv |-> ledger[day].pv + v, vol |-> ledger[day].vol + n]
  <2>1. w = [Traded(day) EXCEPT !.pv = @ + v, !.vol = @ + n]
    BY <1>4
  <2>. HIDE DEF e, w, v, n
  <2>. QED BY <2>1, Zenon DEF Traded
<1>. HIDE DEF n, v, e, w
<1>6. /\ w \in [day : Nat, pv : Nat, vol : Nat] /\ w.vol # 0 /\ w.day = day
      /\ [pv |-> ledger[day].pv + v, vol |-> ledger[day].vol + n] \in [pv : Nat, vol : Nat]
  BY <1>0, <1>1, <1>5
<1>7. RingTypeOK'
  <2>1. daily' \in [Slots -> [day : Nat, pv : Nat, vol : Nat]]
    BY <1>0, <1>3, <1>6
  <2>2. ledger' \in [Days -> [pv : Nat, vol : Nat]]
    BY <1>0, <1>3, <1>6
  <2>. QED BY <1>0, <1>2, <1>3, <2>1, <2>2, Zenon DEF RingTypeOK, Days, Slots
<1>8. /\ daily'[s] = w /\ \A i \in Slots \ {s} : daily'[i] = daily[i]
      /\ \A d \in Days \ {day} : ledger'[d] = ledger[d]
      /\ ledger'[day] = [pv |-> ledger[day].pv + v, vol |-> ledger[day].vol + n]
  BY <1>0, <1>3
<1>9. /\ \/ s = curSlot /\ (Used(curSlot) => daily[curSlot].day = day)
         \/ s = NextSlot(curSlot) /\ Used(curSlot) /\ daily[curSlot].day < day
      /\ daily[curSlot].day <= day
      /\ \A i \in Slots \ {s} : Used(i) => daily[i].day < day
  BY SlotOfToday
<1>. HIDE DEF s
<1>10. SlotsInOrder'
  <2>. SUFFICES ASSUME NEW i \in Slots
                PROVE  /\ Used(i)' => /\ daily'[i].day \in FirstDay .. day'
                                      /\ daily'[i] = Traded(daily[i].day)'
                                      /\ daily'[i].day + Behind(i, curSlot') <= daily'[curSlot'].day
                       /\ ~Used(i)' => daily'[i] = EmptyDay
    BY DEF SlotsInOrder, Slots, Behind
  <2>1. CASE i = s
    <3>1. daily'[i] = w /\ Used(i)' /\ Behind(i, curSlot') = 0
      BY <1>0, <1>3, <1>6, <1>8, <2>1, NextIsOldest DEF Used
    <3>2. day \in FirstDay .. day
      BY <1>0, RingFacts DEF Days
    <3>. QED BY <1>0, <1>3, <1>5, <1>6, <1>8, <2>1, <3>1, <3>2 DEF Traded
  <2>2. CASE i # s
    <3>1. daily'[i] = daily[i] /\ (Used(i)' <=> Used(i))
      BY <1>8, <2>2 DEF Used
    <3>2. CASE ~Used(i)
      BY <3>1, <3>2 DEF RingInv, SlotsInOrder
    <3>3. CASE Used(i)
      <4>1. /\ daily[i].day \in FirstDay .. day /\ daily[i] = Traded(daily[i].day)
            /\ daily[i].day + Behind(i, curSlot) <= daily[curSlot].day
            /\ daily[i].day < day
        BY <1>9, <2>2, <3>3 DEF RingInv, SlotsInOrder
      <4>2. daily[i].day \in Days \ {day} /\ daily[i].day \in Nat
        <5>1. daily[i].day \in Days /\ daily[i].day \in Nat
          BY <1>0, <4>1, PastDay
        <5>. QED BY <1>0, <4>1, <5>1
      <4>3. Traded(daily[i].day)' = Traded(daily[i].day)
        BY <1>8, <3>1, <4>2 DEF Traded
      <4>4. Behind(i, s) = IF s = curSlot THEN Behind(i, curSlot) ELSE Behind(i, curSlot) + 1
        <5>1. CASE s = curSlot
          BY <5>1
        <5>2. CASE s # curSlot
          BY <1>0, <1>9, <2>2, <5>2, NextIsOldest
        <5>. QED BY <5>1, <5>2
      <4>5. Behind(i, curSlot) \in Nat /\ daily[curSlot].day \in Nat
        BY <1>0, NextIsOldest, ZenonT(30)
      <4>6. daily[i].day + Behind(i, s) <= day
        BY <1>0, <1>9, <4>1, <4>2, <4>4, <4>5
      <4>7. daily'[curSlot'].day = day
        BY <1>3, <1>6, <1>8
      <4>8. daily'[i] = Traded(daily[i].day)'
        BY <3>1, <4>1, <4>3
      <4>. QED BY <1>3, <3>1, <3>3, <4>1, <4>6, <4>7, <4>8
    <3>. QED BY <3>2, <3>3
  <2>. QED BY <2>1, <2>2
<1>11. DaysKept'
  <2>. SUFFICES ASSUME NEW d \in Days
                PROVE  /\ ledger'[d].vol = 0 => ledger'[d].pv = 0
                       /\ ledger'[d].vol # 0 =>
                            \/ \E i \in Slots : daily'[i].vol # 0 /\ daily'[i].day = d
                            \/ d + SLOTS <= daily'[curSlot'].day
    BY DEF DaysKept, Days, Slots, Used
  <2>0. daily'[curSlot'].day = day
    BY <1>3, <1>6, <1>8
  <2>1. CASE d = day
    BY <1>0, <1>1, <1>6, <1>8, <2>1
  <2>2. CASE d # day
    <3>1. ledger'[d] = ledger[d]
      BY <1>8, <2>2
    <3>2. ASSUME NEW i \in Slots, Used(i), daily[i].day = d
          PROVE  \/ \E j \in Slots : daily'[j].vol # 0 /\ daily'[j].day = d
                 \/ d + SLOTS <= day
      <4>1. CASE i # s
        BY <1>8, <3>2, <4>1 DEF Used
      <4>2. CASE i = s
        <5>1. s = NextSlot(curSlot) /\ daily[curSlot].day < day
          BY <1>9, <2>2, <3>2, <4>2
        <5>2. Behind(s, curSlot) = SLOTS - 1
          BY <1>0, <5>1, NextIsOldest
        <5>3. daily[i].day + Behind(i, curSlot) <= daily[curSlot].day
          BY <3>2 DEF RingInv, SlotsInOrder
        <5>4. d \in Nat /\ daily[curSlot].day \in Nat
          BY <1>0
        <5>. QED BY <1>0, <3>2, <4>2, <5>1, <5>2, <5>3, <5>4
      <4>. QED BY <4>1, <4>2
    <3>3. d + SLOTS <= daily[curSlot].day => d + SLOTS <= day
      BY <1>0, <1>9
    <3>. QED BY <2>0, <3>1, <3>2, <3>3 DEF RingInv, DaysKept
  <2>. QED BY <2>1, <2>2
<1>. QED BY <1>7, <1>10, <1>11 DEF RingInv

\* Every step keeps the ring in order.
LEMMA RingStep == RingInv /\ [Next]_vars => RingInv'
<1>. SUFFICES ASSUME RingInv, [Next]_vars PROVE RingInv'
  OBVIOUS
<1>1. CASE \E tc \in Deals : Report(tc)
  BY <1>1, ReportKeepsRing
<1>2. CASE NextDay
  <2>1. /\ UNCHANGED <<daily, curSlot, finalizedSeen, ledger>>
        /\ day' \in Days /\ FirstDay .. day \subseteq FirstDay .. day'
    BY <1>2, RingFacts DEF NextDay, RingInv, RingTypeOK, Days
  <2>. QED BY <2>1 DEF RingInv, RingTypeOK, SlotsInOrder, DaysKept, Used, Traded, Behind, Slots, Days
<1>3. CASE UNCHANGED vars
  BY <1>3 DEF vars, RingInv, RingTypeOK, SlotsInOrder, DaysKept, Used, Traded, Behind, Slots, Days
<1>. QED BY <1>1, <1>2, <1>3 DEF Next

\* The ring is in order in every reachable state.
THEOREM RingAlways == Spec => []RingInv
BY RingStarts, RingStep, PTL DEF Spec

\* An ordered ring shows exactly the window.
LEMMA RingShowsWindow == RingInv => WindowExact
<1>. SUFFICES ASSUME RingInv PROVE WindowExact
  OBVIOUS
<1>0. /\ SLOTS \in Nat \ {0} /\ WINDOW_DAYS \in Nat \ {0} /\ WINDOW_DAYS <= SLOTS
      /\ FirstDay \in Nat /\ MaxDay \in Nat /\ day \in Nat /\ FirstDay <= day /\ day <= MaxDay
      /\ \A i \in Slots : daily[i].day \in Nat
      /\ curSlot \in Slots
  BY RingFacts DEF RingInv, RingTypeOK, Days
<1>1. \A d \in Nat : MinDay <= d <=> d > day - WINDOW_DAYS
  BY <1>0 DEF MinDay
<1>2. ASSUME NEW i \in Window
      PROVE  \E d \in {e \in FirstDay .. day : e > day - WINDOW_DAYS /\ ledger[e].vol # 0} :
               daily[i] = Traded(d)
  <2>1. i \in Slots /\ Used(i) /\ MinDay <= daily[i].day /\ daily[i].day <= day
    BY DEF Window, InWindow, Used, Slots
  <2>2. daily[i].day \in FirstDay .. day /\ daily[i] = Traded(daily[i].day)
    BY <2>1 DEF RingInv, SlotsInOrder
  <2>3. ledger[daily[i].day].vol # 0
    BY <2>1, <2>2 DEF Used, Traded
  <2>. QED BY <1>0, <1>1, <2>1, <2>2, <2>3
<1>3. ASSUME NEW d \in FirstDay .. day, d > day - WINDOW_DAYS, ledger[d].vol # 0
      PROVE  \E i \in Window : daily[i] = Traded(d)
  <2>1. d \in Days /\ d \in Nat
    BY <1>0 DEF Days
  <2>2. daily[curSlot].day <= day
    BY SlotOfToday
  <2>3. ~(d + SLOTS <= daily[curSlot].day)
    BY <1>0, <1>3, <2>1, <2>2
  <2>4. PICK i \in Slots : Used(i) /\ daily[i].day = d
    BY <1>3, <2>1, <2>3 DEF RingInv, DaysKept
  <2>5. i \in Window
    BY <1>0, <1>1, <1>3, <2>1, <2>4 DEF Window, InWindow, Used, Slots
  <2>. QED BY <2>4, <2>5 DEF RingInv, SlotsInOrder
<1>. DEFINE D == {e \in FirstDay .. day : e > day - WINDOW_DAYS /\ ledger[e].vol # 0}
<1>4. {daily[i] : i \in Window} \subseteq {Traded(d) : d \in D}
  BY <1>2
<1>5. {Traded(d) : d \in D} \subseteq {daily[i] : i \in Window}
  BY <1>3
<1>6. {Traded(d) : d \in D}
        = {[day |-> d, pv |-> ledger[d].pv, vol |-> ledger[d].vol] : d \in D}
  BY DEF Traded
<1>. HIDE DEF D
<1>7. {daily[i] : i \in Window}
        = {[day |-> d, pv |-> ledger[d].pv, vol |-> ledger[d].vol] : d \in D}
  BY <1>4, <1>5, <1>6
<1>. QED BY <1>7 DEF WindowExact, D

\* However reports are repeated, delayed or skipped, whatever days are idle and
\* however often slots are reused, _weeklyMedian reads exactly the trading days of
\* the last WINDOW_DAYS days, each with all of its volume, on any ring at least as
\* long as the window.
THEOREM ExactWindow == Spec => []WindowExact
BY RingAlways, RingShowsWindow, PTL

-----------------------------------------------------------------------------
(* What the ring adds up to                                                *)

VolumeOf == [i \in Slots |-> daily[i].vol]

NotionalOf == [i \in Slots |-> daily[i].pv]

SeenValue == [tc \in Deals |-> finalizedSeen[tc] * PricePerTick[tc]]

\* A report adds its increment to one slot, which may have been cleared first, and
\* to one deal's count.
LEMMA ReportCountsOnce ==
  ASSUME RingInv, CountedOnce, NEW tc \in Deals, Report(tc)
  PROVE  CountedOnce'
<1>. PICK c \in 1 .. MaxServed[tc] : reportFinalized(tc, c)
  BY DEF Report
<1>. DEFINE n == c - finalizedSeen[tc]
            v == PricePerTick[tc] * n
            s == SlotFor(day)
            e == DayAt(s, day)
            w == [e EXCEPT !.pv = @ + v, !.vol = @ + n]
<1>0. /\ s \in Slots /\ Finite(Slots) /\ Finite(Deals)
      /\ daily \in [Slots -> [day : Nat, pv : Nat, vol : Nat]]
      /\ finalizedSeen \in [Deals -> Nat] /\ PricePerTick \in [Deals -> Nat]
  BY SlotOfToday, RingFacts, InputAssumption DEF RingInv, RingTypeOK
<1>1. c \in Nat /\ n \in Nat /\ v \in Nat
  <2>1. c \in Nat /\ finalizedSeen[tc] \in Nat /\ c > finalizedSeen[tc] /\ PricePerTick[tc] \in Nat
    <3>1. MaxServed[tc] \in Nat
      BY InputAssumption
    <3>. QED BY <1>0, <3>1 DEF reportFinalized
  <2>. QED BY <2>1
<1>2. /\ daily' = [daily EXCEPT ![s] = w]
      /\ finalizedSeen' = [finalizedSeen EXCEPT ![tc] = c]
  BY DEF reportFinalized, RecordTrade
<1>3. /\ e \in [day : Nat, pv : Nat, vol : Nat]
      /\ e.vol <= daily[s].vol /\ e.pv <= daily[s].pv
  <2>1. day \in Nat
    BY RingFacts DEF RingInv, RingTypeOK, Days
  <2>2. daily[s].vol \in Nat /\ daily[s].pv \in Nat
    BY <1>0
  <2>. QED BY <1>0, <2>1, <2>2 DEF DayAt, EmptyDay
<1>. HIDE DEF n, v, s, e
<1>4. w.vol = e.vol + n /\ w.pv = e.pv + v /\ w.vol \in Nat /\ w.pv \in Nat
  BY <1>1, <1>3
<1>. HIDE DEF w
<1>5. /\ VolumeOf \in [Slots -> Int] /\ VolumeOf' \in [Slots -> Int]
      /\ NotionalOf \in [Slots -> Int] /\ NotionalOf' \in [Slots -> Int]
      /\ \A i \in Slots \ {s} : VolumeOf[i] = VolumeOf'[i] /\ NotionalOf[i] = NotionalOf'[i]
      /\ VolumeOf[s] = daily[s].vol /\ VolumeOf'[s] = e.vol + n
      /\ NotionalOf[s] = daily[s].pv /\ NotionalOf'[s] = e.pv + v
  BY <1>0, <1>2, <1>4 DEF VolumeOf, NotionalOf, Slots
<1>6. /\ SumFunctionOnSet(VolumeOf, Slots) \in Int /\ SumFunctionOnSet(NotionalOf, Slots) \in Int
      /\ SumFunctionOnSet(VolumeOf', Slots) \in Int /\ SumFunctionOnSet(NotionalOf', Slots) \in Int
      /\ SumFunctionOnSet(VolumeOf', Slots) <= SumFunctionOnSet(VolumeOf, Slots) + n
      /\ SumFunctionOnSet(NotionalOf', Slots) <= SumFunctionOnSet(NotionalOf, Slots) + v
  <2>1. /\ SumFunctionOnSet(VolumeOf, Slots) \in Int /\ SumFunctionOnSet(VolumeOf', Slots) \in Int
        /\ SumFunctionOnSet(VolumeOf', Slots)
             = SumFunctionOnSet(VolumeOf, Slots) + (VolumeOf'[s] - VolumeOf[s])
    <3>1. /\ VolumeOf \in [Slots -> Int] /\ VolumeOf' \in [Slots -> Int]
          /\ \A i \in Slots \ {s} : VolumeOf[i] = VolumeOf'[i]
      BY <1>5
    <3> QED
      BY <1>0, <3>1, SumChange
  <2>2. /\ SumFunctionOnSet(NotionalOf, Slots) \in Int /\ SumFunctionOnSet(NotionalOf', Slots) \in Int
        /\ SumFunctionOnSet(NotionalOf', Slots)
             = SumFunctionOnSet(NotionalOf, Slots) + (NotionalOf'[s] - NotionalOf[s])
    <3>1. /\ NotionalOf \in [Slots -> Int] /\ NotionalOf' \in [Slots -> Int]
          /\ \A i \in Slots \ {s} : NotionalOf[i] = NotionalOf'[i]
      BY <1>5
    <3> QED
      BY <1>0, <3>1, SumChange
  <2>3. daily[s].vol \in Nat /\ daily[s].pv \in Nat /\ e.vol \in Nat /\ e.pv \in Nat
    BY <1>0, <1>3
  <2>. QED BY <1>1, <1>3, <1>5, <2>1, <2>2, <2>3
<1>7. /\ SumFunctionOnSet(finalizedSeen, Deals) \in Int
      /\ SumFunctionOnSet(finalizedSeen', Deals) = SumFunctionOnSet(finalizedSeen, Deals) + n
  <2>1. /\ finalizedSeen \in [Deals -> Int] /\ finalizedSeen' \in [Deals -> Int]
        /\ \A x \in Deals \ {tc} : finalizedSeen[x] = finalizedSeen'[x]
        /\ finalizedSeen'[tc] = c
    BY <1>0, <1>1, <1>2
  <2>. QED BY <1>0, <2>1, SumChange DEF n
<1>8. /\ SumFunctionOnSet(SeenValue, Deals) \in Int
      /\ SumFunctionOnSet(SeenValue', Deals) = SumFunctionOnSet(SeenValue, Deals) + v
  <2>1. ASSUME NEW x \in Nat, NEW y \in Nat PROVE x * y \in Int
    BY <2>1
  <2>2. \A x \in Deals : finalizedSeen'[x] \in Nat
    BY <1>0, <1>1, <1>2
  <2>3. SeenValue \in [Deals -> Int] /\ SeenValue' \in [Deals -> Int]
    BY <1>0, <2>1, <2>2 DEF SeenValue
  <2>4. \A x \in Deals \ {tc} : SeenValue[x] = SeenValue'[x]
    BY <1>0, <1>2 DEF SeenValue
  <2>5. SeenValue'[tc] - SeenValue[tc] = v
    <3>1. SeenValue'[tc] = c * PricePerTick[tc] /\ SeenValue[tc] = finalizedSeen[tc] * PricePerTick[tc]
      BY <1>0, <1>2 DEF SeenValue
    <3>2. PricePerTick[tc] \in Nat /\ finalizedSeen[tc] \in Nat
      BY <1>0
    <3>3. c * PricePerTick[tc] - finalizedSeen[tc] * PricePerTick[tc]
            = PricePerTick[tc] * (c - finalizedSeen[tc])
      BY <1>1, <3>2
    <3>. QED BY <3>1, <3>3 DEF v, n
  <2>. QED BY <1>0, <2>3, <2>4, <2>5, SumChange
<1>9. /\ SumFunctionOnSet(VolumeOf, Slots) <= SumFunctionOnSet(finalizedSeen, Deals)
       /\ SumFunctionOnSet(NotionalOf, Slots) <= SumFunctionOnSet(SeenValue, Deals)
  BY DEF CountedOnce, VolumeOf, NotionalOf, SeenValue, Slots
<1>10. /\ SumFunctionOnSet(VolumeOf', Slots) <= SumFunctionOnSet(finalizedSeen', Deals)
       /\ SumFunctionOnSet(NotionalOf', Slots) <= SumFunctionOnSet(SeenValue', Deals)
  BY <1>1, <1>6, <1>7, <1>8, <1>9
<1>. QED BY <1>10 DEF CountedOnce, VolumeOf, NotionalOf, SeenValue, Slots

\* The empty ring holds no volume.
LEMMA CountedInit == Init => CountedOnce
<1>. SUFFICES ASSUME Init PROVE CountedOnce
  OBVIOUS
<1>1. Finite(Slots) /\ Finite(Deals)
  BY RingFacts, InputAssumption
<1>2. \A x \in Slots : VolumeOf[x] = 0 /\ NotionalOf[x] = 0
  BY DEF Init, VolumeOf, NotionalOf, EmptyDay, Slots
<1>3. \A x \in Deals : finalizedSeen[x] = 0 /\ SeenValue[x] = 0
  BY InputAssumption DEF Init, SeenValue
<1>4. /\ SumFunctionOnSet(VolumeOf, Slots) = 0 /\ SumFunctionOnSet(NotionalOf, Slots) = 0
      /\ SumFunctionOnSet(finalizedSeen, Deals) = 0 /\ SumFunctionOnSet(SeenValue, Deals) = 0
  BY <1>1, <1>2, <1>3, SumZero
<1>. QED BY <1>4 DEF CountedOnce, VolumeOf, NotionalOf, SeenValue, Slots

\* A report counts once: the volume and the notional in the ring never exceed what
\* the deals have reported, whatever reportFinalized receives again, late or never.
THEOREM ReportsCountOnce == Spec => []CountedOnce
<1>1. RingInv /\ CountedOnce /\ [Next]_vars => CountedOnce'
  <2>. SUFFICES ASSUME RingInv, CountedOnce, [Next]_vars PROVE CountedOnce'
    OBVIOUS
  <2>1. CASE \E tc \in Deals : Report(tc)
    BY <2>1, ReportCountsOnce
  <2>2. CASE NextDay \/ UNCHANGED vars
    BY <2>2, Zenon DEF NextDay, vars, CountedOnce
  <2>. QED BY <2>1, <2>2 DEF Next
<1>. QED BY <1>1, CountedInit, RingAlways, PTL DEF Spec

=============================================================================
