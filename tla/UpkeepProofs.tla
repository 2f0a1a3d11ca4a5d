------------------------------ MODULE UpkeepProofs ------------------------------
(***************************************************************************)
(* What MonthlyDues, Discounts, Labels, Products and Reviews promise, for  *)
(* any number of requests and rows, any calendar and any values, whatever  *)
(* requests overlap and wherever they are cut off.  Each has an inductive  *)
(* invariant that says, besides the rows, what a request under way may     *)
(* still rely on of what it read before the others went on.                *)
(***************************************************************************)
EXTENDS MCUpkeep, SumProofs

-----------------------------------------------------------------------------
(* Dues.  A run of processDue works from the rows it read at its start;     *)
(* the invariant says what those rows still are worth while others go on:   *)
(* a month they count as generated has its due as long as the schedule      *)
(* exists, and a month about to be generated has only generated months, or  *)
(* months this run will still come to, before it.                           *)

\* The months of schedule s up to m that are not in left have their dues.
Covered(s, m, left) ==
    \A n \in Months : schedule[s].start <= n /\ n <= m => n \in left \/ due[s][n] # "none"

\* The schedule named by a request was created, and is not created again.
ItsSchedule(r) == pc[r] \in {"upsert", "mark", "pay"} => mem[r].cur \in created

Listing(r) ==
    pc[r] \in {"next", "upsert", "mark"} =>
        /\ \A s \in mem[r].todo : mem[r].rows[s] # None
        /\ \A s \in Schedules : mem[r].rows[s] # None =>
            /\ s \in created
            /\ Exists(s) => /\ mem[r].rows[s].start = schedule[s].start
                            /\ Covered(s, mem[r].rows[s].last, {})

Generating(r) ==
    pc[r] = "upsert" /\ Exists(mem[r].cur) =>
        \A m \in mem[r].left : Covered(mem[r].cur, m, mem[r].left)

Marking(r) ==
    pc[r] = "mark" /\ Exists(mem[r].cur) => Covered(mem[r].cur, mem[r].key, {})

Local(r) == ItsSchedule(r) /\ Listing(r) /\ Generating(r) /\ Marking(r)

OnlyCreated == \A s \in Schedules : Exists(s) => s \in created

DuesHaveSchedules == \A s \in Schedules, m \in Months : due[s][m] # "none" => Exists(s)

Unpaid ==
    \A s \in Schedules, m \in Months :
        (s \notin created \/ (Exists(s) /\ due[s][m] = "none")) => payments[s][m] = 0

IInv ==
    /\ TypeOK
    /\ OnlyCreated /\ DuesHaveSchedules /\ NoGaps /\ PaidWithCash /\ Unpaid
    /\ \A r \in Requests : Local(r)

-----------------------------------------------------------------------------
(* Types.                                                                  *)

LEMMA MonthsAreIntegers == Months \subseteq Int
  BY DuesAssumption DEF Months

LEMMA BlankType == Blank \in LocalState
  BY DuesAssumption DEF Blank, LocalState, Months, Never

\* What a step may write into the locals of a request.
LEMMA LocalTypes ==
  ASSUME NEW m \in LocalState
  PROVE  /\ \A s \in Schedules, L \in SUBSET Months :
                [m EXCEPT !.todo = @ \ {s}, !.cur = s, !.left = L] \in LocalState
         /\ \A k \in Months : [m EXCEPT !.left = @ \ {k}, !.key = k] \in LocalState
  BY DEF LocalState

LEMMA ListType ==
  ASSUME TypeOK
  PROVE  [Blank EXCEPT !.now = now, !.rows = schedule, !.todo = Listed] \in LocalState
  BY BlankType DEF LocalState, TypeOK, Listed

LEMMA PayType ==
  ASSUME NEW s \in Schedules, NEW m \in Months
  PROVE  [Blank EXCEPT !.cur = s, !.month = m] \in LocalState
  BY BlankType DEF LocalState

LEMMA NewRow ==
  ASSUME TypeOK, NEW half \in {0, 1}
  PROVE  [start |-> now \div 2, half |-> half, last |-> Never] \in ScheduleRow
<1>1. now \div 2 \in Months
  BY DuesAssumption, Z3 DEF TypeOK, Months
<1> QED BY <1>1 DEF ScheduleRow

THEOREM InitInv == Init => IInv
<1> SUFFICES ASSUME Init PROVE IInv
  OBVIOUS
<1>1. now \in 0 .. 2 * Horizon + 1
  BY DuesAssumption DEF Init
<1>2. TypeOK
  BY <1>1, BlankType DEF Init, TypeOK
<1> QED BY <1>2 DEF Init, IInv, OnlyCreated, DuesHaveSchedules, NoGaps, PaidWithCash,
            Unpaid, Local, ItsSchedule, Listing, Generating, Marking, Exists

LEMMA NextType == TypeOK /\ [Next]_vars => TypeOK'
<1> SUFFICES ASSUME TypeOK, [Next]_vars PROVE TypeOK'
  OBVIOUS
<1>0. \A r \in Requests : mem[r] \in LocalState
  BY DEF TypeOK
<1>a. ASSUME NEW r \in Requests, End(r),
             UNCHANGED <<now, schedule, created, due, payments>>, cuts' \in Nat
      PROVE TypeOK'
  BY <1>a, BlankType DEF TypeOK, End, Goto, Remember
<1>1. CASE Tick
  BY <1>1, DuesAssumption DEF TypeOK, Tick
<1>2. ASSUME NEW s \in Schedules, RemoveSchedule(s) PROVE TypeOK'
  BY <1>2 DEF TypeOK, RemoveSchedule
<1>3. ASSUME NEW r \in Requests, Look(r) PROVE TypeOK'
  BY <1>3 DEF TypeOK, Look, Goto
<1>4. ASSUME NEW r \in Requests, NEW s \in Schedules, NEW half \in {0, 1},
             CreateSchedule(r, s, half)
      PROVE TypeOK'
  BY <1>4, NewRow DEF TypeOK, CreateSchedule, Goto
<1>5. ASSUME NEW r \in Requests, NEW s \in Schedules, NEW m \in Months, BeginPay(r, s, m)
      PROVE TypeOK'
  BY <1>5, PayType DEF TypeOK, BeginPay, Goto, Remember
<1>6. ASSUME NEW r \in Requests, List(r) PROVE TypeOK'
  BY <1>6, ListType DEF TypeOK, List, Goto, Remember
<1>7. ASSUME NEW r \in Requests, NEW s \in Schedules, NextSchedule(r, s) PROVE TypeOK'
  <2>1. Left(mem[r].rows[s], mem[r].now) \in SUBSET Months
    BY DEF Left, Occurrences
  <2>2. [mem[r] EXCEPT !.todo = @ \ {s}, !.cur = s,
                       !.left = Left(mem[r].rows[s], mem[r].now)] \in LocalState
    BY <1>0, <2>1, LocalTypes
  <2> QED BY <1>7, <2>2 DEF TypeOK, NextSchedule, Goto, Remember
<1>8. ASSUME NEW r \in Requests, NEW m \in Months, UpsertDue(r, m) PROVE TypeOK'
  <2>1. [mem[r] EXCEPT !.left = @ \ {m}, !.key = m] \in LocalState
    BY <1>0, LocalTypes
  <2>2. mem' \in [Requests -> LocalState] /\ pc' \in [Requests -> {"idle", "list", "next", "upsert", "mark", "pay"}]
    BY <1>8, <2>1 DEF TypeOK, UpsertDue, Goto, Remember
  <2>3. due' \in [Schedules -> [Months -> {"none", "open", "paid"}]]
    <3>1. CASE mem[r].cur \in Schedules
      BY <1>8, <3>1 DEF TypeOK, UpsertDue, Upserted
    <3>2. CASE mem[r].cur \notin Schedules
      BY <1>8, <3>2 DEF TypeOK, UpsertDue
    <3> QED BY <3>1, <3>2
  <2> QED BY <1>8, <2>2, <2>3 DEF TypeOK, UpsertDue
<1>9. ASSUME NEW r \in Requests, MarkApplied(r) PROVE TypeOK'
  <2>1. mem[r].key \in Months \cup {Never}
    BY <1>0 DEF LocalState
  <2>2. schedule' \in [Schedules -> ScheduleRow \cup {None}]
    <3>1. CASE mem[r].cur \in Schedules
      <4>1. schedule[mem[r].cur] \in ScheduleRow
        BY <1>9, <3>1 DEF TypeOK, MarkApplied, Exists
      <4>2. [schedule[mem[r].cur] EXCEPT !.last = mem[r].key] \in ScheduleRow
        BY <2>1, <4>1 DEF ScheduleRow
      <4> QED BY <1>9, <3>1, <4>2 DEF TypeOK, MarkApplied, Applied
    <3>2. CASE mem[r].cur \notin Schedules
      BY <1>9, <3>2 DEF TypeOK, MarkApplied
    <3> QED BY <3>1, <3>2
  <2> QED BY <1>9, <2>2 DEF TypeOK, MarkApplied, Goto
<1>10. ASSUME NEW r \in Requests, Processed(r) PROVE TypeOK'
  BY <1>10, <1>a DEF Processed, TypeOK
<1>11. ASSUME NEW r \in Requests, WritePay(r) PROVE TypeOK'
  <2>1. mem[r].month \in Months
    BY <1>0 DEF LocalState
  <2>2. /\ due' \in [Schedules -> [Months -> {"none", "open", "paid"}]]
        /\ payments' \in [Schedules -> [Months -> Nat]]
    <3>1. CASE mem[r].cur \in Schedules
      BY <1>11, <2>1, <3>1 DEF TypeOK, WritePay, Flagged
    <3>2. CASE mem[r].cur \notin Schedules
      BY <1>11, <3>2 DEF TypeOK, WritePay
    <3> QED BY <3>1, <3>2
  <2> QED BY <1>11, <2>2, BlankType DEF TypeOK, WritePay, End, Goto, Remember
<1>12. ASSUME NEW r \in Requests, Refuse(r) PROVE TypeOK'
  BY <1>12, <1>a DEF Refuse, TypeOK
<1>13. ASSUME NEW r \in Requests, CutOff(r) PROVE TypeOK'
  BY <1>13, <1>a DEF CutOff, TypeOK
<1>14. CASE UNCHANGED vars
  BY <1>14 DEF TypeOK, vars
<1> QED
  BY <1>1, <1>2, <1>3, <1>4, <1>5, <1>6, <1>7, <1>8, <1>9, <1>10, <1>11, <1>12, <1>13, <1>14
     DEF Next, Step

-----------------------------------------------------------------------------
(* What a step leaves of the knowledge of a request.                       *)

\* A created schedule is either gone or begins where it began, with its dues.
Stable ==
    /\ created \subseteq created'
    /\ \A s \in created : Exists(s)' =>
        /\ Exists(s)
        /\ schedule'[s].start = schedule[s].start
        /\ \A m \in Months : due[s][m] # "none" => due'[s][m] # "none"

LEMMA CoveredStays ==
  ASSUME Stable, NEW s \in created, Exists(s)', NEW m, NEW L, Covered(s, m, L)
  PROVE  Covered(s, m, L)'
  BY DEF Stable, Covered

LEMMA LocalStays ==
  ASSUME TypeOK, Stable, NEW q \in Requests, Local(q), pc'[q] = pc[q], mem'[q] = mem[q]
  PROVE  Local(q)'
<1>1. ItsSchedule(q)'
  BY DEF Local, ItsSchedule, Stable
<1>2. Listing(q)'
  <2> SUFFICES ASSUME pc[q] \in {"next", "upsert", "mark"}
               PROVE  /\ \A s \in mem[q].todo : mem[q].rows[s] # None
                      /\ \A s \in Schedules : mem[q].rows[s] # None =>
                            /\ s \in created'
                            /\ Exists(s)' => /\ mem[q].rows[s].start = schedule'[s].start
                                             /\ Covered(s, mem[q].rows[s].last, {})'
    BY DEF Listing, Exists, Covered
  <2>1. \A s \in mem[q].todo : mem[q].rows[s] # None
    BY DEF Local, Listing
  <2>2. ASSUME NEW s \in Schedules, mem[q].rows[s] # None
        PROVE  /\ s \in created'
               /\ Exists(s)' => /\ mem[q].rows[s].start = schedule'[s].start
                                /\ Covered(s, mem[q].rows[s].last, {})'
    <3>1. s \in created
      BY <2>2 DEF Local, Listing
    <3>2. ASSUME Exists(s)'
          PROVE  /\ mem[q].rows[s].start = schedule'[s].start
                 /\ Covered(s, mem[q].rows[s].last, {})'
      <4>1. Exists(s) /\ schedule'[s].start = schedule[s].start
        BY <3>1, <3>2 DEF Stable
      <4>2. mem[q].rows[s].start = schedule[s].start /\ Covered(s, mem[q].rows[s].last, {})
        BY <2>2, <4>1 DEF Local, Listing
      <4>3. Covered(s, mem[q].rows[s].last, {})'
        BY <3>1, <3>2, <4>2 DEF Stable, Covered
      <4> QED BY <4>1, <4>2, <4>3
    <3> QED BY <3>1, <3>2 DEF Stable
  <2> QED BY <2>1, <2>2
<1>3. Generating(q)'
  <2> SUFFICES ASSUME pc[q] = "upsert", Exists(mem[q].cur)', NEW m \in mem[q].left
               PROVE  Covered(mem[q].cur, m, mem[q].left)'
    BY DEF Generating, Exists, Covered
  <2>1. mem[q].cur \in created
    BY DEF Local, ItsSchedule
  <2>2. Exists(mem[q].cur)
    BY <2>1 DEF Stable, Exists
  <2>3. Covered(mem[q].cur, m, mem[q].left)
    BY <2>2 DEF Local, Generating
  <2> QED BY <2>1, <2>3 DEF Stable, Covered, Exists
<1>4. Marking(q)'
  <2> SUFFICES ASSUME pc[q] = "mark", Exists(mem[q].cur)'
               PROVE  Covered(mem[q].cur, mem[q].key, {})'
    BY DEF Marking, Exists, Covered
  <2>1. mem[q].cur \in created
    BY DEF Local, ItsSchedule
  <2>2. Exists(mem[q].cur)
    BY <2>1 DEF Stable, Exists
  <2>3. Covered(mem[q].cur, mem[q].key, {})
    BY <2>2 DEF Local, Marking
  <2> QED BY <2>1, <2>3 DEF Stable, Covered, Exists
<1> QED BY <1>1, <1>2, <1>3, <1>4 DEF Local

\* A request that waits, looks or pays knows nothing that could be wrong.
LEMMA LocalIdle ==
  ASSUME NEW q \in Requests, pc'[q] \in {"idle", "list"}
  PROVE  Local(q)'
  BY DEF Local, ItsSchedule, Listing, Generating, Marking

-----------------------------------------------------------------------------
(* The steps.                                                              *)

\* A step that leaves rows alone and ends, or that only reads.
LEMMA QuietStep ==
  ASSUME IInv, TypeOK', UNCHANGED <<schedule, created, due, payments>>,
         \A q \in Requests : Local(q)'
  PROVE  IInv'
<1>1. OnlyCreated' /\ DuesHaveSchedules' /\ NoGaps' /\ PaidWithCash' /\ Unpaid'
  BY DEF IInv, OnlyCreated, DuesHaveSchedules, NoGaps, PaidWithCash, Unpaid, Exists
<1> QED BY <1>1 DEF IInv

LEMMA OthersStay ==
  ASSUME IInv, Stable, NEW r \in Requests,
         \A q \in Requests \ {r} : pc'[q] = pc[q] /\ mem'[q] = mem[q],
         Local(r)'
  PROVE  \A q \in Requests : Local(q)'
<1>1. ASSUME NEW q \in Requests \ {r} PROVE Local(q)'
  BY <1>1, LocalStays DEF IInv
<1> QED BY <1>1

LEMMA Unmoved ==
  ASSUME NEW r \in Requests, TypeOK, NEW l, Goto(r, l), NEW m, Remember(r, m)
  PROVE  /\ pc'[r] = l /\ mem'[r] = m
         /\ \A q \in Requests \ {r} : pc'[q] = pc[q] /\ mem'[q] = mem[q]
  BY DEF TypeOK, Goto, Remember

LEMMA QuietStable ==
  ASSUME UNCHANGED <<schedule, created, due>>
  PROVE  Stable
  BY DEF Stable, Exists

LEMMA EndStep ==
  ASSUME IInv, TypeOK', NEW r \in Requests, End(r),
         UNCHANGED <<schedule, created, due, payments>>
  PROVE  IInv'
<1>1. /\ pc'[r] = "idle"
      /\ \A q \in Requests \ {r} : pc'[q] = pc[q] /\ mem'[q] = mem[q]
  BY DEF IInv, TypeOK, End, Goto, Remember
<1>2. \A q \in Requests : Local(q)'
  BY <1>1, LocalIdle, QuietStable, OthersStay
<1> QED BY <1>2, QuietStep

LEMMA ListStep ==
  ASSUME IInv, TypeOK', NEW r \in Requests, List(r)
  PROVE  IInv'
<1>1. /\ pc'[r] = "next"
      /\ mem'[r] = [Blank EXCEPT !.now = now, !.rows = schedule, !.todo = Listed]
      /\ \A q \in Requests \ {r} : pc'[q] = pc[q] /\ mem'[q] = mem[q]
  BY DEF IInv, TypeOK, List, Goto, Remember
<1>2. mem'[r].rows = schedule /\ mem'[r].todo = Listed
  BY <1>1 DEF Blank
<1>3. ItsSchedule(r)' /\ Generating(r)' /\ Marking(r)'
  BY <1>1 DEF ItsSchedule, Generating, Marking
<1>4. \A s \in Schedules : Exists(s) => Covered(s, schedule[s].last, {})
  BY DEF IInv, NoGaps, Covered
<1>5. UNCHANGED <<schedule, created, due, payments>>
  BY DEF List
<1>6. Listing(r)'
  BY <1>1, <1>2, <1>4, <1>5 DEF IInv, OnlyCreated, Listing, Listed, Exists, Covered
<1>7. \A q \in Requests : Local(q)'
  BY <1>1, <1>3, <1>5, <1>6, QuietStable, OthersStay DEF Local
<1> QED BY <1>5, <1>7, QuietStep

LEMMA NextScheduleStep ==
  ASSUME IInv, TypeOK', NEW r \in Requests, NEW s \in Schedules, NextSchedule(r, s)
  PROVE  IInv'
<1> DEFINE row == mem[r].rows[s]
<1> DEFINE left == Left(row, mem[r].now)
<1>0. mem[r] \in LocalState
  BY DEF IInv, TypeOK
<1>1. /\ pc[r] = "next" /\ s \in mem[r].todo
      /\ pc'[r] = IF left = {} THEN "next" ELSE "upsert"
      /\ mem'[r] = [mem[r] EXCEPT !.todo = @ \ {s}, !.cur = s, !.left = left]
      /\ \A q \in Requests \ {r} : pc'[q] = pc[q] /\ mem'[q] = mem[q]
  BY DEF IInv, TypeOK, NextSchedule, Goto, Remember
<1>2. /\ mem'[r].todo = mem[r].todo \ {s} /\ mem'[r].cur = s /\ mem'[r].left = left
      /\ mem'[r].rows = mem[r].rows
  BY <1>0, <1>1 DEF LocalState
<1>3. UNCHANGED <<schedule, created, due, payments>>
  BY DEF NextSchedule
<1>4. Listing(r)
  BY DEF IInv, Local
<1>5. row # None /\ s \in created
  BY <1>1, <1>4 DEF Listing
<1>6. Exists(s) => row.start = schedule[s].start /\ Covered(s, row.last, {})
  BY <1>1, <1>4, <1>5 DEF Listing
<1>7. row \in ScheduleRow
  BY <1>0, <1>5 DEF LocalState
<1>8. ItsSchedule(r)' /\ Marking(r)'
  BY <1>1, <1>2, <1>3, <1>5 DEF ItsSchedule, Marking
<1>9. Listing(r)'
  BY <1>1, <1>2, <1>3, <1>4 DEF Listing, Exists, Covered
<1>10. Generating(r)'
  <2> SUFFICES ASSUME Exists(s), NEW m \in left, NEW n \in Months,
                      row.start <= n, n <= m
               PROVE  n \in left \/ due[s][n] # "none"
    BY <1>2, <1>3, <1>6 DEF Generating, Exists, Covered
  <2>1. /\ m \in Months /\ row.start <= m /\ 2 * m + row.half <= mem[r].now
        /\ m - row.start < Limit
    BY DEF Left, Occurrences, Come
  <2>2. /\ m \in Int /\ n \in Int /\ row.start \in Int /\ row.half \in Int
        /\ row.last \in Int /\ mem[r].now \in Int /\ Limit \in Int
    <3>1. /\ row.start \in Months /\ row.half \in {0, 1} /\ row.last \in Months \cup {Never}
          /\ mem[r].now \in 0 .. 2 * Horizon + 1
      BY <1>0, <1>7 DEF ScheduleRow, LocalState
    <3>2. row.last \in Int
      <4>1. CASE row.last \in Months
        BY <4>1, MonthsAreIntegers
      <4>2. CASE row.last = Never
        BY <4>2 DEF Never
      <4> QED BY <3>1, <4>1, <4>2
    <3>3. mem[r].now \in Int /\ Limit \in Int
      BY <3>1, DuesAssumption
    <3>4. m \in Int /\ n \in Int /\ row.start \in Int
      BY <2>1, <3>1, MonthsAreIntegers
    <3>5. row.half \in Int
      BY <3>1
    <3> QED BY <3>2, <3>3, <3>4, <3>5
  <2>3. CASE n <= row.last
    BY <1>6, <2>3 DEF Covered
  <2>4. CASE n > row.last
    <3>1. 2 * n + row.half <= mem[r].now /\ n - row.start < Limit
      BY <2>1, <2>2
    <3>2. n \in left
      BY <2>4, <3>1 DEF Left, Occurrences, Come
    <3> QED BY <3>2
  <2> QED BY <2>2, <2>3, <2>4
<1>11. \A q \in Requests : Local(q)'
  BY <1>1, <1>3, <1>8, <1>9, <1>10, QuietStable, OthersStay DEF Local
<1> QED BY <1>3, <1>11, QuietStep

LEMMA UpsertStep ==
  ASSUME IInv, TypeOK', NEW r \in Requests, NEW m \in Months, UpsertDue(r, m)
  PROVE  IInv'
<1> DEFINE s == mem[r].cur
<1> DEFINE rest == mem[r].left \ {m}
<1>0. mem[r] \in LocalState
  BY DEF IInv, TypeOK
<1>1. /\ pc[r] = "upsert" /\ m \in mem[r].left /\ \A n \in mem[r].left : m <= n
      /\ Exists(s)
      /\ due' = [due EXCEPT ![s][m] = Upserted(@)]
      /\ UNCHANGED <<schedule, created, payments>>
      /\ pc'[r] = IF mem[r].left = {m} THEN "mark" ELSE "upsert"
      /\ mem'[r] = [mem[r] EXCEPT !.left = @ \ {m}, !.key = m]
      /\ \A q \in Requests \ {r} : pc'[q] = pc[q] /\ mem'[q] = mem[q]
  BY DEF IInv, TypeOK, UpsertDue, Goto, Remember
<1>2. /\ mem'[r].left = rest /\ mem'[r].key = m /\ mem'[r].cur = s
      /\ mem'[r].todo = mem[r].todo /\ mem'[r].rows = mem[r].rows
  BY <1>0, <1>1 DEF LocalState
<1>3. Local(r)
  BY DEF IInv
<1>4. s \in created /\ s \in Schedules
  BY <1>1, <1>3 DEF IInv, TypeOK, Local, ItsSchedule
<1>5. /\ due'[s][m] # "none"
      /\ due[s][m] = "none" => due'[s][m] = "open"
      /\ due[s][m] # "none" => due'[s][m] = due[s][m]
      /\ \A t \in Schedules, n \in Months : (t # s \/ n # m) => due'[t][n] = due[t][n]
  BY <1>1, <1>4 DEF IInv, TypeOK, Upserted
<1>6. Stable
  BY <1>1, <1>4, <1>5 DEF IInv, TypeOK, Stable, Exists
<1>7. ItsSchedule(r)' /\ Listing(r)'
  <2>1. ItsSchedule(r)'
    BY <1>1, <1>2, <1>4 DEF ItsSchedule
  <2>2. Listing(r)'
    <3>1. ASSUME NEW t \in Schedules, mem[r].rows[t] # None
          PROVE  /\ t \in created
                 /\ Exists(t)' => /\ mem[r].rows[t].start = schedule'[t].start
                                  /\ Covered(t, mem[r].rows[t].last, {})'
      <4>1. /\ t \in created
            /\ Exists(t) => /\ mem[r].rows[t].start = schedule[t].start
                            /\ Covered(t, mem[r].rows[t].last, {})
        BY <1>1, <1>3, <3>1 DEF Local, Listing
      <4> QED BY <1>1, <1>6, <4>1 DEF Stable, Covered, Exists
    <3>2. \A t \in mem[r].todo : mem[r].rows[t] # None
      BY <1>1, <1>3 DEF Local, Listing
    <3> QED BY <1>1, <1>2, <3>1, <3>2 DEF Listing, Exists, Covered
  <2> QED BY <2>1, <2>2
<1>8. \A n \in mem[r].left : Covered(s, n, mem[r].left)
  BY <1>1, <1>3 DEF Local, Generating
<1>9. Generating(r)'
  <2>1. \A n \in rest : Covered(s, n, rest)'
    <3> SUFFICES ASSUME NEW n \in rest, NEW k \in Months, schedule[s].start <= k, k <= n
                 PROVE  k \in rest \/ due'[s][k] # "none"
      BY <1>1 DEF Covered
    <3>1. k \in mem[r].left \/ due[s][k] # "none"
      BY <1>8 DEF Covered
    <3> QED BY <1>4, <1>5, <3>1
  <2> QED BY <1>2, <2>1 DEF Generating, Covered
<1>10. Marking(r)'
  <2> SUFFICES ASSUME mem[r].left = {m}, NEW k \in Months, schedule[s].start <= k, k <= m
               PROVE  due'[s][k] # "none"
    BY <1>1, <1>2 DEF Marking, Covered, Exists
  <2>1. k \in mem[r].left \/ due[s][k] # "none"
    BY <1>1, <1>8 DEF Covered
  <2> QED BY <1>4, <1>5, <2>1
<1>11. \A q \in Requests : Local(q)'
  BY <1>1, <1>6, <1>7, <1>9, <1>10, OthersStay DEF Local
<1>12. OnlyCreated'
  BY <1>1 DEF IInv, OnlyCreated, Exists
<1>13. DuesHaveSchedules'
  BY <1>1, <1>5 DEF IInv, DuesHaveSchedules, Exists
<1>14. NoGaps'
  BY <1>1, <1>5 DEF IInv, NoGaps, Exists
<1>15. PaidWithCash' /\ Unpaid'
  BY <1>1, <1>4, <1>5 DEF IInv, PaidWithCash, Unpaid, Exists
<1> QED BY <1>11, <1>12, <1>13, <1>14, <1>15 DEF IInv

LEMMA MarkStep ==
  ASSUME IInv, TypeOK', NEW r \in Requests, MarkApplied(r)
  PROVE  IInv'
<1> DEFINE s == mem[r].cur
<1>1. /\ pc[r] = "mark" /\ Exists(s)
      /\ schedule' = [schedule EXCEPT ![s].last = mem[r].key]
      /\ UNCHANGED <<created, due, payments, mem>>
      /\ pc'[r] = "next"
      /\ \A q \in Requests \ {r} : pc'[q] = pc[q]
  BY DEF IInv, TypeOK, MarkApplied, Applied, Goto
<1>2. Local(r)
  BY DEF IInv
<1>3. s \in created /\ s \in Schedules /\ Covered(s, mem[r].key, {})
  BY <1>1, <1>2 DEF IInv, TypeOK, Local, ItsSchedule, Marking
<1>4. schedule[s] \in ScheduleRow /\ None \notin ScheduleRow
  BY <1>1, <1>3, DuesAssumption DEF IInv, TypeOK, ScheduleRow, Exists
<1>5. /\ schedule'[s].start = schedule[s].start /\ schedule'[s].last = mem[r].key
      /\ schedule'[s] # None
      /\ \A t \in Schedules : t # s => schedule'[t] = schedule[t]
  <2>1. schedule'[s] = [schedule[s] EXCEPT !.last = mem[r].key]
    BY <1>1, <1>3 DEF IInv, TypeOK
  <2>2. schedule'[s] \in ScheduleRow \cup {None}
    BY <1>3 DEF TypeOK
  <2>3. schedule'[s].start = schedule[s].start /\ schedule'[s].last = mem[r].key
    BY <1>4, <2>1 DEF ScheduleRow
  <2>4. schedule'[s] # None
    <3>1. mem[r].key \in Months \cup {Never}
      BY DEF IInv, TypeOK, LocalState
    <3>2. schedule'[s] \in ScheduleRow
      BY <1>4, <2>1, <3>1 DEF ScheduleRow
    <3> QED BY <1>4, <3>2
  <2> QED BY <1>1, <1>3, <2>3, <2>4 DEF IInv, TypeOK
<1>6. \A t \in Schedules : Exists(t)' <=> Exists(t)
  BY <1>1, <1>5 DEF Exists
<1>7. Stable
  BY <1>1, <1>5, <1>6 DEF IInv, TypeOK, Stable
<1>8. Listing(r)
  BY <1>2 DEF Local
<1>9. Listing(r)'
  <2>1. ASSUME NEW t \in Schedules, mem[r].rows[t] # None
        PROVE  /\ t \in created
               /\ Exists(t)' => /\ mem[r].rows[t].start = schedule'[t].start
                                /\ Covered(t, mem[r].rows[t].last, {})'
    <3>1. /\ t \in created
          /\ Exists(t) => /\ mem[r].rows[t].start = schedule[t].start
                          /\ Covered(t, mem[r].rows[t].last, {})
      BY <1>1, <1>8, <2>1 DEF Listing
    <3> QED BY <1>1, <1>5, <1>6, <3>1 DEF Covered
  <2>2. \A t \in mem[r].todo : mem[r].rows[t] # None
    BY <1>1, <1>8 DEF Listing
  <2> QED BY <1>1, <2>1, <2>2 DEF Listing, Exists, Covered
<1>10. Local(r)'
  BY <1>1, <1>9 DEF Local, ItsSchedule, Generating, Marking
<1>11. \A q \in Requests : Local(q)'
  BY <1>1, <1>7, <1>10, OthersStay
<1>12. OnlyCreated'
  BY <1>1, <1>6 DEF IInv, OnlyCreated
<1>13. DuesHaveSchedules'
  BY <1>1, <1>6 DEF IInv, DuesHaveSchedules
<1>14. NoGaps'
  BY <1>1, <1>3, <1>5, <1>6 DEF IInv, NoGaps, Covered
<1>15. PaidWithCash' /\ Unpaid'
  BY <1>1, <1>6 DEF IInv, PaidWithCash, Unpaid
<1> QED BY <1>11, <1>12, <1>13, <1>14, <1>15 DEF IInv

LEMMA PayStep ==
  ASSUME IInv, TypeOK', NEW r \in Requests, WritePay(r)
  PROVE  IInv'
<1> DEFINE s == mem[r].cur
<1> DEFINE m == mem[r].month
<1>1. /\ pc[r] = "pay" /\ due[s][m] # "none"
      /\ due' = [due EXCEPT ![s][m] = "paid"]
      /\ payments' = [payments EXCEPT ![s][m] = @ + 1]
      /\ UNCHANGED <<schedule, created>>
      /\ pc'[r] = "idle"
      /\ \A q \in Requests \ {r} : pc'[q] = pc[q] /\ mem'[q] = mem[q]
  BY DEF IInv, TypeOK, WritePay, Flagged, End, Goto, Remember
<1>2. s \in created /\ s \in Schedules /\ m \in Months
  BY <1>1 DEF IInv, TypeOK, LocalState, Local, ItsSchedule
<1>3. payments[s][m] \in Nat
  BY <1>2 DEF IInv, TypeOK
<1>4. /\ due'[s][m] = "paid" /\ payments'[s][m] > 0
      /\ \A t \in Schedules, n \in Months : (t # s \/ n # m) =>
            due'[t][n] = due[t][n] /\ payments'[t][n] = payments[t][n]
  BY <1>1, <1>2, <1>3 DEF IInv, TypeOK
<1>5. Stable
  BY <1>1, <1>2, <1>4 DEF IInv, TypeOK, Stable, Exists
<1>6. \A q \in Requests : Local(q)'
  BY <1>1, <1>5, LocalIdle, OthersStay
<1>7. OnlyCreated' /\ NoGaps'
  BY <1>1, <1>2, <1>4 DEF IInv, OnlyCreated, NoGaps, Exists
<1>8. DuesHaveSchedules'
  BY <1>1, <1>2, <1>4 DEF IInv, DuesHaveSchedules, Exists
<1>9. PaidWithCash'
  BY <1>2, <1>4 DEF IInv, PaidWithCash
<1>10. Unpaid'
  BY <1>1, <1>2, <1>4 DEF IInv, Unpaid, Exists
<1> QED BY <1>6, <1>7, <1>8, <1>9, <1>10 DEF IInv

LEMMA CreateStep ==
  ASSUME IInv, TypeOK', NEW r \in Requests, NEW s \in Schedules, NEW half \in {0, 1},
         CreateSchedule(r, s, half)
  PROVE  IInv'
<1>1. /\ pc[r] = "idle" /\ s \notin created /\ created' = created \cup {s}
      /\ schedule' = [schedule EXCEPT ![s] =
                        [start |-> now \div 2, half |-> half, last |-> Never]]
      /\ UNCHANGED <<due, payments, mem>>
      /\ pc'[r] = "list"
      /\ \A q \in Requests \ {r} : pc'[q] = pc[q]
  BY DEF IInv, TypeOK, CreateSchedule, Goto
<1>2. /\ ~Exists(s) /\ schedule'[s].last = Never
      /\ \A t \in Schedules : t # s => schedule'[t] = schedule[t]
  BY <1>1 DEF IInv, TypeOK, OnlyCreated
<1>3. \A m \in Months : due[s][m] = "none" /\ payments[s][m] = 0
  BY <1>1, <1>2 DEF IInv, DuesHaveSchedules, Unpaid
<1>4. Stable
  BY <1>1, <1>2 DEF IInv, TypeOK, Stable, Exists
<1>5. \A q \in Requests : Local(q)'
  BY <1>1, <1>4, LocalIdle, OthersStay
<1>6. OnlyCreated'
  BY <1>1, <1>2 DEF IInv, OnlyCreated, Exists
<1>7. DuesHaveSchedules'
  BY <1>1, <1>2, <1>3 DEF IInv, DuesHaveSchedules, Exists
<1>8. NoGaps'
  <2>1. schedule'[s].start \in Months
    <3>1. schedule'[s] = [start |-> now \div 2, half |-> half, last |-> Never]
      BY <1>1 DEF IInv, TypeOK
    <3> QED BY <3>1, NewRow DEF IInv, ScheduleRow
  <2>2. \A m \in Months : ~(schedule'[s].start <= m /\ m <= schedule'[s].last)
    BY <1>2, DuesAssumption DEF Months, Never
  <2> QED BY <1>1, <1>2, <2>2 DEF IInv, NoGaps, Exists
<1>9. PaidWithCash'
  BY <1>1 DEF IInv, PaidWithCash
<1>10. Unpaid'
  BY <1>1, <1>2, <1>3 DEF IInv, Unpaid, Exists
<1> QED BY <1>5, <1>6, <1>7, <1>8, <1>9, <1>10 DEF IInv

LEMMA RemoveStep ==
  ASSUME IInv, TypeOK', NEW s \in Schedules, RemoveSchedule(s)
  PROVE  IInv'
<1>1. /\ Exists(s) /\ schedule' = [schedule EXCEPT ![s] = None]
      /\ due' = [due EXCEPT ![s] = [m \in Months |-> "none"]]
      /\ UNCHANGED <<created, payments, pc, mem>>
  BY DEF RemoveSchedule
<1>2. /\ ~Exists(s)' /\ \A m \in Months : due'[s][m] = "none"
      /\ \A t \in Schedules : t # s => schedule'[t] = schedule[t] /\ due'[t] = due[t]
  BY <1>1 DEF IInv, TypeOK, Exists
<1>3. Stable
  BY <1>1, <1>2 DEF IInv, TypeOK, Stable, Exists
<1>4. ASSUME NEW q \in Requests PROVE Local(q)'
  BY <1>1, <1>3, LocalStays DEF IInv
<1>5. OnlyCreated'
  BY <1>1, <1>2 DEF IInv, OnlyCreated, Exists
<1>6. DuesHaveSchedules'
  BY <1>1, <1>2 DEF IInv, DuesHaveSchedules, Exists
<1>7. NoGaps'
  BY <1>1, <1>2 DEF IInv, NoGaps, Exists
<1>8. PaidWithCash'
  BY <1>1, <1>2 DEF IInv, PaidWithCash
<1>9. Unpaid'
  BY <1>1, <1>2 DEF IInv, Unpaid, Exists
<1> QED BY <1>4, <1>5, <1>6, <1>7, <1>8, <1>9 DEF IInv

THEOREM NextInv == IInv /\ [Next]_vars => IInv'
<1> SUFFICES ASSUME IInv, [Next]_vars PROVE IInv'
  OBVIOUS
<1>0. TypeOK'
  BY NextType DEF IInv
<1>1. CASE Tick
  <2>1. Stable
    BY <1>1, QuietStable DEF Tick
  <2>2. ASSUME NEW q \in Requests PROVE Local(q)'
    BY <1>1, <2>1, LocalStays DEF IInv, Tick
  <2> QED BY <1>0, <1>1, <2>2, QuietStep DEF Tick
<1>2. ASSUME NEW s \in Schedules, RemoveSchedule(s) PROVE IInv'
  BY <1>0, <1>2, RemoveStep
<1>3. ASSUME NEW r \in Requests, Look(r) PROVE IInv'
  <2>1. /\ UNCHANGED <<schedule, created, due, payments, mem>> /\ pc'[r] = "list"
        /\ \A q \in Requests \ {r} : pc'[q] = pc[q]
    BY <1>3 DEF IInv, TypeOK, Look, Goto
  <2>2. \A q \in Requests : Local(q)'
    BY <2>1, LocalIdle, QuietStable, OthersStay
  <2> QED BY <1>0, <2>1, <2>2, QuietStep
<1>4. ASSUME NEW r \in Requests, NEW s \in Schedules, NEW half \in {0, 1},
             CreateSchedule(r, s, half)
      PROVE IInv'
  BY <1>0, <1>4, CreateStep
<1>5. ASSUME NEW r \in Requests, NEW s \in Schedules, NEW m \in Months, BeginPay(r, s, m)
      PROVE IInv'
  <2>1. /\ UNCHANGED <<schedule, created, due, payments>>
        /\ due[s][m] = "open"
        /\ pc'[r] = "pay" /\ mem'[r] = [Blank EXCEPT !.cur = s, !.month = m]
        /\ \A q \in Requests \ {r} : pc'[q] = pc[q] /\ mem'[q] = mem[q]
    BY <1>5 DEF IInv, TypeOK, BeginPay, Goto, Remember
  <2>2. s \in created
    BY <2>1 DEF IInv, DuesHaveSchedules, OnlyCreated
  <2>3. Local(r)'
    BY <2>1, <2>2 DEF Local, ItsSchedule, Listing, Generating, Marking, Blank
  <2>4. \A q \in Requests : Local(q)'
    BY <2>1, <2>3, QuietStable, OthersStay
  <2> QED BY <1>0, <2>1, <2>4, QuietStep
<1>6. ASSUME NEW r \in Requests, List(r) PROVE IInv'
  BY <1>0, <1>6, ListStep
<1>7. ASSUME NEW r \in Requests, NEW s \in Schedules, NextSchedule(r, s) PROVE IInv'
  BY <1>0, <1>7, NextScheduleStep
<1>8. ASSUME NEW r \in Requests, NEW m \in Months, UpsertDue(r, m) PROVE IInv'
  BY <1>0, <1>8, UpsertStep
<1>9. ASSUME NEW r \in Requests, MarkApplied(r) PROVE IInv'
  BY <1>0, <1>9, MarkStep
<1>10. ASSUME NEW r \in Requests, Processed(r) PROVE IInv'
  BY <1>0, <1>10, EndStep DEF Processed
<1>11. ASSUME NEW r \in Requests, WritePay(r) PROVE IInv'
  BY <1>0, <1>11, PayStep
<1>12. ASSUME NEW r \in Requests, Refuse(r) PROVE IInv'
  BY <1>0, <1>12, EndStep DEF Refuse
<1>13. ASSUME NEW r \in Requests, CutOff(r) PROVE IInv'
  BY <1>0, <1>13, EndStep DEF CutOff
<1>14. CASE UNCHANGED vars
  <2>1. Stable
    BY <1>14, QuietStable DEF vars
  <2>2. ASSUME NEW q \in Requests PROVE Local(q)'
    BY <1>14, <2>1, LocalStays DEF IInv, vars
  <2> QED BY <1>0, <1>14, <2>2, QuietStep DEF vars
<1> QED
  BY <1>1, <1>2, <1>3, <1>4, <1>5, <1>6, <1>7, <1>8, <1>9, <1>10, <1>11, <1>12, <1>13, <1>14
     DEF Next, Step

\* Types, for any number of requests, schedules and months.
THEOREM TypeCorrect == Spec => []TypeOK
<1>1. Init => TypeOK
  BY InitInv DEF IInv
<1> QED BY <1>1, NextType, PTL DEF Spec

\* The inductive invariant holds in every state the program reaches.
THEOREM Invariance == Spec => []IInv
  BY InitInv, NextInv, PTL DEF Spec

\* No month that lastApplied says was generated is without its due, for any
\* number of overlapping and interrupted runs of processDue.
THEOREM DuesSkipNothing == Spec => []NoGaps
<1>1. IInv => NoGaps
  BY DEF IInv
<1> QED BY <1>1, Invariance, PTL

\* An open due has cost nothing and a paid one has been paid.
THEOREM PaymentsCounted == Spec => []PaidWithCash
<1>1. IInv => PaidWithCash
  BY DEF IInv
<1> QED BY <1>1, Invariance, PTL

-----------------------------------------------------------------------------
(* The calendar.  What a recursive function is for every argument is shown  *)
(* by a least argument for which it is not: no induction rule is needed,    *)
(* which would have to be cited with an operator.                           *)

NMonths == Len(MonthLength)
StartsWell(f, k) == f = [m \in 1 .. k |-> IF m = 1 THEN 0 ELSE f[m - 1] + MonthLength[m - 1]]

LEMMA MonthsPositive == NMonths \in Nat \ {0} /\ \A m \in 1 .. NMonths : MonthLength[m] \in Nat \ {0}
  BY DiscountAssumption DEF NMonths

LEMMA StartsExist == \A k \in Nat \ {0} : \E f : StartsWell(f, k)
<1>1. SUFFICES ASSUME NEW k0 \in Nat \ {0}, ~\E f : StartsWell(f, k0) PROVE FALSE
  OBVIOUS
<1> DEFINE Bad == {k \in Nat \ {0} : ~\E f : StartsWell(f, k)}
<1>2. PICK k \in Bad : \A j \in Bad : k <= j
  BY <1>1, LeastOf
<1>3. k # 1
  <2>1. StartsWell([m \in 1 .. 1 |-> 0], 1)
    BY DEF StartsWell
  <2> QED BY <2>1
<1>4. PICK f : StartsWell(f, k - 1)
  <2>1. k - 1 \in Nat \ {0} /\ ~(k <= k - 1)
    BY <1>3
  <2>2. k - 1 \notin Bad
    BY <1>2, <2>1
  <2> QED BY <2>1, <2>2
<1> DEFINE g == [m \in 1 .. k |-> IF m = 1 THEN 0 ELSE f[m - 1] + MonthLength[m - 1]]
<1>5. \A m \in 1 .. k - 1 : f[m] = g[m]
  BY <1>4 DEF StartsWell
<1>6. \A m \in 1 .. k : m # 1 => m - 1 \in 1 .. k - 1
  OBVIOUS
<1>7. g = [m \in 1 .. k |-> IF m = 1 THEN 0 ELSE g[m - 1] + MonthLength[m - 1]]
  BY <1>5, <1>6
<1>8. StartsWell(g, k)
  BY <1>7 DEF StartsWell
<1> QED BY <1>8, <1>2

LEMMA MonthStartIs ==
  MonthStart = [m \in 1 .. NMonths + 1 |-> IF m = 1 THEN 0 ELSE MonthStart[m - 1] + MonthLength[m - 1]]
<1>1. NMonths + 1 \in Nat \ {0}
  BY MonthsPositive
<1>2. PICK f : f = [m \in 1 .. NMonths + 1 |-> IF m = 1 THEN 0 ELSE f[m - 1] + MonthLength[m - 1]]
  BY <1>1, StartsExist DEF StartsWell
<1> QED BY <1>2 DEF MonthStart, NMonths

LEMMA NextStart ==
  /\ MonthStart[1] = 0
  /\ \A m \in 1 .. NMonths : MonthStart[m + 1] = MonthStart[m] + MonthLength[m]
<1>1. 1 \in 1 .. NMonths + 1 /\ \A m \in 1 .. NMonths : m + 1 \in 1 .. NMonths + 1 /\ m + 1 # 1 /\ (m + 1) - 1 = m
  BY MonthsPositive
<1> QED BY <1>1, MonthStartIs

LEMMA StartsNatural == \A m \in 1 .. NMonths + 1 : MonthStart[m] \in Nat
<1>1. SUFFICES ASSUME NEW m0 \in 1 .. NMonths + 1, MonthStart[m0] \notin Nat PROVE FALSE
  OBVIOUS
<1> DEFINE Bad == {m \in 1 .. NMonths + 1 : MonthStart[m] \notin Nat}
<1>2. Bad \subseteq Nat /\ Bad # {}
  BY <1>1
<1>3. PICK m \in Bad : \A j \in Bad : m <= j
  BY <1>2, LeastOf
<1>4. m # 1
  BY NextStart
<1>5. m - 1 \in 1 .. NMonths /\ m - 1 \notin Bad
  BY <1>3, <1>4, MonthsPositive
<1>6. m - 1 \in 1 .. NMonths + 1 /\ (m - 1) + 1 = m
  BY <1>3, <1>5, MonthsPositive
<1>7. MonthStart[m - 1] \in Nat /\ MonthStart[m] = MonthStart[m - 1] + MonthLength[m - 1]
  BY <1>5, <1>6, NextStart
<1> QED BY <1>3, <1>5, <1>7, MonthsPositive

LEMMA StartsGrow == \A a, b \in 1 .. NMonths + 1 : a < b => MonthStart[a] < MonthStart[b]
<1>1. SUFFICES ASSUME NEW a \in 1 .. NMonths + 1, NEW b0 \in 1 .. NMonths + 1, a < b0,
                      ~(MonthStart[a] < MonthStart[b0])
               PROVE  FALSE
  OBVIOUS
<1> DEFINE Bad == {b \in 1 .. NMonths + 1 : a < b /\ ~(MonthStart[a] < MonthStart[b])}
<1>2. Bad \subseteq Nat /\ Bad # {}
  BY <1>1
<1>3. PICK b \in Bad : \A j \in Bad : b <= j
  BY <1>2, LeastOf
<1>4. b - 1 \in 1 .. NMonths /\ b - 1 \in 1 .. NMonths + 1 /\ (b - 1) + 1 = b /\ b - 1 \notin Bad
  BY <1>3, MonthsPositive
<1>5. /\ MonthStart[b] = MonthStart[b - 1] + MonthLength[b - 1]
      /\ MonthStart[b - 1] \in Nat /\ MonthStart[a] \in Nat /\ MonthLength[b - 1] \in Nat \ {0}
  BY <1>4, NextStart, StartsNatural, MonthsPositive
<1>6. a = b - 1 \/ MonthStart[a] < MonthStart[b - 1]
  BY <1>3, <1>4
<1> QED BY <1>3, <1>5, <1>6

LEMMA DaysAre == LastDay \in Nat \ {0} /\ LastDay = MonthStart[NMonths + 1] /\ Days \subseteq Nat \ {0}
<1>1. NMonths + 1 \in 1 .. NMonths + 1 /\ 1 \in 1 .. NMonths + 1 /\ 1 < NMonths + 1
  BY MonthsPositive
<1>2. MonthStart[1] < MonthStart[NMonths + 1] /\ MonthStart[NMonths + 1] \in Nat
  BY <1>1, StartsNatural, StartsGrow
<1> QED BY <1>2, NextStart DEF LastDay, Days, NMonths

\* Every day has one month.
LEMMA MonthIs ==
  ASSUME NEW d \in Days
  PROVE  /\ MonthOf(d) \in 1 .. NMonths
         /\ MonthStart[MonthOf(d)] < d /\ d <= MonthStart[MonthOf(d) + 1]
         /\ \A m \in 1 .. NMonths : MonthStart[m] < d /\ d <= MonthStart[m + 1] => m = MonthOf(d)
<1> DEFINE Past == {m \in 1 .. NMonths : d <= MonthStart[m + 1]}
<1>1. d \in Nat \ {0} /\ NMonths \in Past /\ Past \subseteq Nat
  BY DaysAre, MonthsPositive DEF Days
<1>2. PICK m \in Past : \A j \in Past : m <= j
  BY <1>1, LeastOf
<1>3. MonthStart[m] < d
  <2>1. CASE m = 1
    BY <1>1, <2>1, NextStart
  <2>2. CASE m # 1
    <3>1. m - 1 \in 1 .. NMonths /\ m - 1 \notin Past /\ (m - 1) + 1 = m /\ m \in 1 .. NMonths + 1
      BY <1>2, <2>2, MonthsPositive
    <3> QED BY <1>1, <3>1, StartsNatural
  <2> QED BY <2>1, <2>2
<1>4. MonthNo = 1 .. NMonths
  BY DEF MonthNo, NMonths
<1>5. \E n \in MonthNo : MonthStart[n] < d /\ d <= MonthStart[n + 1]
  BY <1>2, <1>3, <1>4
<1>6. MonthOf(d) \in MonthNo /\ MonthStart[MonthOf(d)] < d /\ d <= MonthStart[MonthOf(d) + 1]
  BY <1>5 DEF MonthOf
<1>7. ASSUME NEW a \in 1 .. NMonths, NEW b \in 1 .. NMonths,
             MonthStart[a] < d, d <= MonthStart[a + 1], MonthStart[b] < d, d <= MonthStart[b + 1]
      PROVE  ~(a < b)
  <2> SUFFICES ASSUME a < b PROVE FALSE
    OBVIOUS
  <2>1. a + 1 \in 1 .. NMonths + 1 /\ b \in 1 .. NMonths + 1 /\ (a + 1 = b \/ a + 1 < b)
    BY MonthsPositive
  <2>2. MonthStart[a + 1] <= MonthStart[b] /\ MonthStart[a + 1] \in Nat /\ MonthStart[b] \in Nat
    BY <2>1, StartsGrow, StartsNatural
  <2> QED BY <1>1, <1>7, <2>2
<1>8. ASSUME NEW n \in 1 .. NMonths, MonthStart[n] < d, d <= MonthStart[n + 1]
      PROVE  n = MonthOf(d)
  <2>1. ~(n < MonthOf(d)) /\ ~(MonthOf(d) < n)
    BY <1>4, <1>6, <1>7, <1>8
  <2> QED BY <1>4, <1>6, <2>1
<1> QED BY <1>4, <1>6, <1>8

\* The next occurrence is in a month that many later, or one after it, and on the same day
\* if the months have it.
LEMMA LaterIs ==
  ASSUME NEW d \in Days, NEW step \in Nat \ {0}
  PROVE  /\ Later(d, step) \in Nat /\ d < Later(d, step)
         /\ Later(d, step) \in Days =>
              /\ MonthOf(d) < MonthOf(Later(d, step))
              /\ \A day \in Nat : day = d - MonthStart[MonthOf(d)] /\ (\A n \in 1 .. NMonths : day <= MonthLength[n]) =>
                   /\ MonthOf(Later(d, step)) = MonthOf(d) + step
                   /\ Later(d, step) - MonthStart[MonthOf(Later(d, step))] = day
<1>1. PICK m \in 1 .. NMonths : m = MonthOf(d) /\ MonthStart[m] < d /\ d <= MonthStart[m + 1]
  BY MonthIs
<1>2. d \in Nat \ {0} /\ LastDay \in Nat /\ d <= LastDay /\ MonthNo = 1 .. NMonths /\ NMonths \in Nat
  BY DaysAre, MonthsPositive DEF Days, MonthNo, NMonths
<1>3. CASE m + step \in 1 .. NMonths
  <2>1. PICK e : e = Later(d, step)
    OBVIOUS
  <2>2. e = MonthStart[m + step] + (d - MonthStart[m])
    BY <1>1, <1>2, <1>3, <2>1 DEF Later
  <2>3. /\ m \in 1 .. NMonths + 1 /\ m + 1 \in 1 .. NMonths + 1 /\ m + step \in 1 .. NMonths + 1
        /\ (m + step) + 1 \in 1 .. NMonths + 1 /\ (m + 1 = m + step \/ m + 1 < m + step)
    BY <1>2, <1>3
  <2>4. /\ MonthStart[m] \in Nat /\ MonthStart[m + 1] \in Nat /\ MonthStart[m + step] \in Nat
        /\ MonthStart[m + 1] <= MonthStart[m + step]
    BY <2>3, StartsNatural, StartsGrow
  <2>5. e \in Nat /\ d < e /\ MonthStart[m + step] < e
    <3>1. \A x, y, z \in Nat : x < d /\ d <= z /\ z <= y =>
            y + (d - x) \in Nat /\ d < y + (d - x) /\ y < y + (d - x)
      BY <1>2
    <3> QED BY <1>1, <2>2, <2>4, <3>1
  <2>6. ASSUME e \in Days PROVE m < MonthOf(e)
    <3>1. PICK n \in 1 .. NMonths : n = MonthOf(e) /\ MonthStart[n] < e /\ e <= MonthStart[n + 1]
      BY <2>6, MonthIs
    <3>2. SUFFICES ASSUME ~(m < n) PROVE FALSE
      BY <3>1
    <3>3. n + 1 \in 1 .. NMonths + 1 /\ (n + 1 = m + step \/ n + 1 < m + step)
      BY <1>2, <3>2
    <3>4. MonthStart[n + 1] <= MonthStart[m + step] /\ MonthStart[n + 1] \in Nat
      BY <2>3, <2>4, <3>3, StartsGrow, StartsNatural
    <3> QED BY <2>4, <2>5, <3>1, <3>4
  <2>7. ASSUME e \in Days, NEW day \in Nat, day = d - MonthStart[m], \A n \in 1 .. NMonths : day <= MonthLength[n]
        PROVE  MonthOf(e) = m + step /\ e - MonthStart[MonthOf(e)] = day
    <3>1. MonthStart[(m + step) + 1] = MonthStart[m + step] + MonthLength[m + step] /\ MonthLength[m + step] \in Nat
      BY <1>3, NextStart, MonthsPositive
    <3>2. day <= MonthLength[m + step]
      BY <1>3, <2>7
    <3>3. e = MonthStart[m + step] + day /\ e <= MonthStart[(m + step) + 1]
      BY <2>2, <2>4, <2>7, <3>1, <3>2
    <3>4. MonthOf(e) = m + step
      BY <1>3, <2>5, <2>7, <3>3, MonthIs
    <3> QED BY <2>4, <2>7, <3>3, <3>4
  <2> QED BY <1>1, <2>1, <2>5, <2>6, <2>7
<1>4. CASE m + step \notin 1 .. NMonths
  <2>1. Later(d, step) = LastDay + 1
    BY <1>1, <1>2, <1>4 DEF Later
  <2> QED BY <1>2, <2>1 DEF Days
<1> QED BY <1>3, <1>4

LEMMA LimitPositive == DiscountLimit \in Nat \ {0}
  BY DiscountAssumption

OccursBy(f, start, step, k) ==
    f = [n \in 0 .. k |-> IF n = 0 THEN start ELSE IF f[n - 1] \in Days THEN Later(f[n - 1], step) ELSE LastDay + 1]

LEMMA OccursExist == \A start, step : \A k \in Nat : \E f : OccursBy(f, start, step, k)
<1>1. SUFFICES ASSUME NEW start, NEW step, NEW k0 \in Nat, ~\E f : OccursBy(f, start, step, k0)
               PROVE  FALSE
  OBVIOUS
<1> DEFINE Bad == {k \in Nat : ~\E f : OccursBy(f, start, step, k)}
<1>2. PICK k \in Bad : \A j \in Bad : k <= j
  BY <1>1, LeastOf
<1>3. k # 0
  <2>1. OccursBy([n \in 0 .. 0 |-> start], start, step, 0)
    BY DEF OccursBy
  <2> QED BY <2>1
<1>4. PICK f : OccursBy(f, start, step, k - 1)
  <2>1. k - 1 \in Nat /\ ~(k <= k - 1)
    BY <1>3
  <2>2. k - 1 \notin Bad
    BY <1>2, <2>1
  <2> QED BY <2>1, <2>2
<1> DEFINE g == [n \in 0 .. k |-> IF n = 0 THEN start ELSE IF f[n - 1] \in Days THEN Later(f[n - 1], step) ELSE LastDay + 1]
<1>5. \A n \in 0 .. k - 1 : f[n] = g[n]
  BY <1>4 DEF OccursBy
<1>6. \A n \in 0 .. k : n # 0 => n - 1 \in 0 .. k - 1
  OBVIOUS
<1>7. g = [n \in 0 .. k |-> IF n = 0 THEN start ELSE IF g[n - 1] \in Days THEN Later(g[n - 1], step) ELSE LastDay + 1]
  BY <1>5, <1>6
<1>8. OccursBy(g, start, step, k)
  BY <1>7 DEF OccursBy
<1> QED BY <1>8, <1>2

LEMMA OccurrencesAre ==
  ASSUME NEW start, NEW step
  PROVE  \E f : /\ OccursBy(f, start, step, DiscountLimit)
                /\ DiscountDates(start, step) = {f[n] : n \in 0 .. DiscountLimit - 1} \cap Days
<1>1. PICK f : f = [n \in 0 .. DiscountLimit |->
                      IF n = 0 THEN start ELSE IF f[n - 1] \in Days THEN Later(f[n - 1], step) ELSE LastDay + 1]
  <2>1. \E f : OccursBy(f, start, step, DiscountLimit)
    BY OccursExist, LimitPositive
  <2> QED BY <2>1 DEF OccursBy
<1> DEFINE g == CHOOSE h : h = [n \in 0 .. DiscountLimit |->
                      IF n = 0 THEN start ELSE IF h[n - 1] \in Days THEN Later(h[n - 1], step) ELSE LastDay + 1]
<1>2. g = [n \in 0 .. DiscountLimit |->
                      IF n = 0 THEN start ELSE IF g[n - 1] \in Days THEN Later(g[n - 1], step) ELSE LastDay + 1]
  BY <1>1
<1>3. DiscountDates(start, step) = {g[n] : n \in 0 .. DiscountLimit - 1} \cap Days
  BY DEF DiscountDates
<1> HIDE DEF g
<1>4. OccursBy(g, start, step, DiscountLimit)
  BY <1>2 DEF OccursBy
<1> QED BY <1>3, <1>4

\* Each occurrence is in a later month than the one before.
LEMMA OccurrencesGrow ==
  ASSUME NEW start \in Days, NEW step \in Nat \ {0}, NEW f, OccursBy(f, start, step, DiscountLimit)
  PROVE  \A a, b \in 0 .. DiscountLimit : a < b /\ f[b] \in Days =>
             f[a] \in Days /\ MonthOf(f[a]) < MonthOf(f[b])
<1>1. SUFFICES ASSUME NEW a \in 0 .. DiscountLimit, NEW b0 \in 0 .. DiscountLimit, a < b0, f[b0] \in Days,
                      ~(f[a] \in Days /\ MonthOf(f[a]) < MonthOf(f[b0]))
               PROVE  FALSE
  OBVIOUS
<1> DEFINE Bad == {b \in 0 .. DiscountLimit :
                     a < b /\ f[b] \in Days /\ ~(f[a] \in Days /\ MonthOf(f[a]) < MonthOf(f[b]))}
<1>2. PICK b \in Bad : \A j \in Bad : b <= j
  <2>1. Bad \subseteq Nat /\ Bad # {}
    BY <1>1, LimitPositive
  <2> QED BY <2>1, LeastOf
<1>3. b - 1 \in 0 .. DiscountLimit /\ b # 0 /\ b - 1 \notin Bad /\ (a = b - 1 \/ a < b - 1)
  BY <1>2, LimitPositive
<1>4. f[b - 1] \in Days /\ f[b] = Later(f[b - 1], step)
  <2>1. f[b] = IF f[b - 1] \in Days THEN Later(f[b - 1], step) ELSE LastDay + 1
    BY <1>2, <1>3 DEF OccursBy
  <2>2. LastDay + 1 \notin Days
    BY DaysAre DEF Days
  <2> QED BY <1>2, <2>1, <2>2
<1>5. MonthOf(f[b - 1]) < MonthOf(f[b])
  BY <1>2, <1>4, LaterIs
<1>6. a # b - 1
  BY <1>2, <1>4, <1>5
<1>7. f[a] \in Days /\ MonthOf(f[a]) < MonthOf(f[b - 1])
  BY <1>3, <1>4, <1>6
<1>8. MonthOf(f[a]) \in Nat /\ MonthOf(f[b - 1]) \in Nat /\ MonthOf(f[b]) \in Nat
  BY <1>2, <1>4, <1>7, MonthIs
<1> QED BY <1>2, <1>5, <1>7, <1>8

LEMMA Multiples == \A n \in Nat, step \in Nat \ {0} : (n * step) % step = 0
  OBVIOUS

\* A day that every month has stays the day, and the months are a period apart.
LEMMA OccurrencesHold ==
  ASSUME NEW start \in Days, NEW step \in Nat \ {0}, NEW f, OccursBy(f, start, step, DiscountLimit),
         NEW day \in Nat, day = start - MonthStart[MonthOf(start)], \A m \in 1 .. NMonths : day <= MonthLength[m]
  PROVE  \A n \in 0 .. DiscountLimit : f[n] \in Days =>
             MonthOf(f[n]) = MonthOf(start) + n * step /\ f[n] - MonthStart[MonthOf(f[n])] = day
<1> DEFINE Holds(n) == MonthOf(f[n]) = MonthOf(start) + n * step /\ f[n] - MonthStart[MonthOf(f[n])] = day
<1>1. SUFFICES ASSUME NEW n0 \in 0 .. DiscountLimit, f[n0] \in Days, ~Holds(n0) PROVE FALSE
  OBVIOUS
<1> DEFINE Bad == {n \in 0 .. DiscountLimit : f[n] \in Days /\ ~Holds(n)}
<1>2. PICK n \in Bad : \A j \in Bad : n <= j
  <2>1. Bad \subseteq Nat /\ Bad # {}
    BY <1>1, LimitPositive
  <2> QED BY <2>1, LeastOf
<1>3. MonthOf(start) \in Nat
  BY MonthIs
<1>4. n # 0
  <2>1. f[0] = start
    BY LimitPositive DEF OccursBy
  <2>2. MonthOf(start) = MonthOf(start) + 0 * step
    BY <1>3
  <2> QED BY <1>2, <2>1, <2>2
<1>5. n - 1 \in 0 .. DiscountLimit /\ n - 1 \notin Bad
  BY <1>2, <1>4, LimitPositive
<1>6. f[n - 1] \in Days /\ f[n] = Later(f[n - 1], step)
  <2>1. f[n] = IF f[n - 1] \in Days THEN Later(f[n - 1], step) ELSE LastDay + 1
    BY <1>2, <1>4 DEF OccursBy
  <2>2. LastDay + 1 \notin Days
    BY DaysAre DEF Days
  <2> QED BY <1>2, <2>1, <2>2
<1>7. Holds(n - 1)
  BY <1>5, <1>6
<1>8. MonthOf(f[n]) = MonthOf(f[n - 1]) + step /\ f[n] - MonthStart[MonthOf(f[n])] = day
  BY <1>2, <1>6, <1>7, LaterIs
<1>9. (n - 1) * step + step = n * step /\ (n - 1) * step \in Nat
  BY <1>4
<1>10. MonthOf(f[n]) = MonthOf(start) + n * step
  BY <1>3, <1>7, <1>8, <1>9
<1> QED BY <1>2, <1>8, <1>10

LEMMA DatesHold ==
  ASSUME NEW start \in Days, NEW step \in Nat \ {0}
  PROVE  /\ \A d, e \in DiscountDates(start, step) : MonthOf(d) = MonthOf(e) => d = e
         /\ (\A m \in MonthNo : start - MonthStart[MonthOf(start)] <= MonthLength[m]) =>
              \A d \in DiscountDates(start, step) :
                 /\ d - MonthStart[MonthOf(d)] = start - MonthStart[MonthOf(start)]
                 /\ (MonthOf(d) - MonthOf(start)) % step = 0
<1>1. PICK f : /\ OccursBy(f, start, step, DiscountLimit)
               /\ DiscountDates(start, step) = {f[n] : n \in 0 .. DiscountLimit - 1} \cap Days
  BY OccurrencesAre
<1>2. \A d \in DiscountDates(start, step) : d \in Days /\ \E n \in 0 .. DiscountLimit : d = f[n]
  BY <1>1, LimitPositive
<1>3. ASSUME NEW d \in DiscountDates(start, step), NEW e \in DiscountDates(start, step), MonthOf(d) = MonthOf(e)
      PROVE  d = e
  <2>1. PICK a \in 0 .. DiscountLimit, b \in 0 .. DiscountLimit : d = f[a] /\ e = f[b]
    BY <1>2
  <2>2. d \in Days /\ e \in Days /\ MonthOf(d) \in Nat /\ MonthOf(e) \in Nat
    BY <1>2, MonthIs
  <2>3. ~(a < b) /\ ~(b < a)
    BY <1>1, <1>3, <2>1, <2>2, OccurrencesGrow
  <2>4. a = b
    BY <2>3
  <2> QED BY <2>1, <2>4
<1>4. ASSUME \A m \in MonthNo : start - MonthStart[MonthOf(start)] <= MonthLength[m],
             NEW d \in DiscountDates(start, step)
      PROVE  /\ d - MonthStart[MonthOf(d)] = start - MonthStart[MonthOf(start)]
             /\ (MonthOf(d) - MonthOf(start)) % step = 0
  <2>1. PICK n \in 0 .. DiscountLimit : d = f[n] /\ d \in Days
    BY <1>2
  <2>2. /\ MonthOf(start) \in 1 .. NMonths /\ MonthStart[MonthOf(start)] < start
        /\ MonthOf(start) \in 1 .. NMonths + 1 /\ start \in Nat
    BY MonthIs, MonthsPositive, DaysAre
  <2>3. PICK day \in Nat : day = start - MonthStart[MonthOf(start)]
    BY <2>2, StartsNatural
  <2>4. \A m \in 1 .. NMonths : day <= MonthLength[m]
    BY <1>4, <2>3 DEF MonthNo, NMonths
  <2>5. MonthOf(d) = MonthOf(start) + n * step /\ d - MonthStart[MonthOf(d)] = day
    BY <1>1, <2>1, <2>3, <2>4, OccurrencesHold
  <2>6. n \in Nat /\ n * step \in Nat /\ (n * step) % step = 0
    BY <2>1, Multiples
  <2>7. MonthOf(d) - MonthOf(start) = n * step
    BY <2>2, <2>5, <2>6
  <2> QED BY <2>3, <2>5, <2>6, <2>7
<1> QED BY <1>3, <1>4

-----------------------------------------------------------------------------
(* Discounts.  A run works from the schedules it read at its start; the     *)
(* invariant says what their lastApplied still promises while others go on, *)
(* and, of one run at a time, that what is left lies after every discount   *)
(* there is or was.                                                         *)

DiscountPlaces == {"idle", "list", "next", "post", "mark"}

Done(s, d) == [of |-> s, date |-> d] \in discount \cup worthless \cup dropped
Dates(s) == DiscountDates(plan[s].start, plan[s].step)

\* The dates of the schedule s up to t are done, or among the days in left.
DoneTo(s, t, left) == \A d \in Dates(s) : d <= t => d \in left \/ Done(s, d)

RowsRead(m) ==
    /\ \A s \in m.todo : m.rows[s] # None
    /\ \A s \in DiscountSchedules : m.rows[s] # None =>
        /\ s \in plansMade
        /\ Planned(s) => /\ m.rows[s].start = plan[s].start /\ m.rows[s].step = plan[s].step
                         /\ DoneTo(s, m.rows[s].last, {})

RunKnows(l, m) ==
    /\ l \in {"next", "post", "mark"} => RowsRead(m)
    /\ l \in {"post", "mark"} => m.cur \in plansMade
    /\ l = "post" =>
        /\ m.left # {}
        /\ Planned(m.cur) => m.left \subseteq Dates(m.cur) /\ \A d \in m.left : DoneTo(m.cur, d, m.left)
    /\ l = "mark" => m.key \in Days /\ (Planned(m.cur) => DoneTo(m.cur, m.key, {}))

\* Of runs one at a time: the rows are as they were read, and no discount of the schedule
\* at hand lies after what is left of it.
InTurn(l, m) ==
    /\ l \in {"next", "post", "mark"} => \A s \in m.todo : m.rows[s] = plan[s]
    /\ l \in {"post", "mark"} => m.cur \notin m.todo
    /\ l = "post" => \A k \in discount \cup dropped, e \in m.left : k.of = m.cur => k.date < e
    /\ l = "mark" => \A k \in discount \cup dropped : k.of = m.cur => k.date <= m.key

Working(s) == \E r \in Requests : discPc[r] \in {"post", "mark"} /\ discMem[r].cur = s

NeverAgain ==
    /\ discount \cap dropped = {}
    /\ \A s \in DiscountSchedules, k \in discount \cup dropped :
          k.of = s /\ Planned(s) /\ ~Working(s) => k.date <= plan[s].last
    /\ \A r \in Requests : InTurn(discPc[r], discMem[r])

OneRunAtATime == \A p, q \in Requests : p # q => discPc[p] = "idle" \/ discPc[q] = "idle"

DiscountData ==
    /\ plan \in [DiscountSchedules -> PlanRow \cup {None}] /\ plansMade \subseteq DiscountSchedules
    /\ discount \cup discountTx \cup worthless \cup dropped \subseteq DiscountKey
    /\ discount = discountTx
    /\ \A s \in DiscountSchedules : Planned(s) => s \in plansMade /\ DoneTo(s, plan[s].last, {})
    /\ \A k \in discount \cup dropped : k.of # None => k.of \in plansMade
    /\ \A k \in discount : k.of # None /\ Planned(k.of) => k.date \in Dates(k.of)

DiscountIInv ==
    /\ today \in Days /\ discCuts \in Nat
    /\ DiscountData
    /\ discPc \in [Requests -> DiscountPlaces] /\ discMem \in [Requests -> DiscountLocal]
    /\ \A r \in Requests : RunKnows(discPc[r], discMem[r])
    /\ ~discOverlap => OneRunAtATime
    /\ ~discOverlap /\ discCuts = 0 => NeverAgain

LEMMA DatesAreDays == \A start, step : DiscountDates(start, step) \subseteq Days
  BY DEF DiscountDates

LEMMA OccurrencesTo == \A start, step, t : OccurrencesUpTo(start, step, t) = {d \in DiscountDates(start, step) : d <= t}
  BY DEF OccurrencesUpTo

\* Schedules stay what they are until they are gone, and what is done stays done.
SchedulesStay ==
    /\ plansMade \subseteq plansMade'
    /\ \A s \in plansMade : Planned(s)' => /\ Planned(s)
                                          /\ plan'[s].start = plan[s].start /\ plan'[s].step = plan[s].step
    /\ \A s, d : Done(s, d) => Done(s, d)'

LEMMA DoneStays ==
  ASSUME SchedulesStay, NEW s \in plansMade, Planned(s)', NEW t, NEW left, DoneTo(s, t, left)
  PROVE  DoneTo(s, t, left)' /\ Dates(s)' = Dates(s)
<1>1. Dates(s)' = Dates(s)
  BY DEF SchedulesStay, Dates
<1> QED BY <1>1 DEF DoneTo, SchedulesStay

LEMMA RunKnowsStays ==
  ASSUME SchedulesStay, NEW l \in DiscountPlaces, NEW m \in DiscountLocal, RunKnows(l, m)
  PROVE  RunKnows(l, m)'
<1>1. ASSUME RowsRead(m) PROVE RowsRead(m)'
  <2>1. ASSUME NEW s \in DiscountSchedules, m.rows[s] # None
        PROVE  /\ s \in plansMade'
               /\ Planned(s)' => /\ m.rows[s].start = plan'[s].start /\ m.rows[s].step = plan'[s].step
                                 /\ DoneTo(s, m.rows[s].last, {})'
    <3>1. s \in plansMade
      BY <1>1, <2>1 DEF RowsRead
    <3>2. ASSUME Planned(s)'
          PROVE  m.rows[s].start = plan'[s].start /\ m.rows[s].step = plan'[s].step /\ DoneTo(s, m.rows[s].last, {})'
      <4>1. Planned(s) /\ plan'[s].start = plan[s].start /\ plan'[s].step = plan[s].step
        BY <3>1, <3>2 DEF SchedulesStay
      <4>2. m.rows[s].start = plan[s].start /\ m.rows[s].step = plan[s].step /\ DoneTo(s, m.rows[s].last, {})
        BY <1>1, <2>1, <4>1 DEF RowsRead
      <4> QED BY <3>1, <3>2, <4>1, <4>2, DoneStays
    <3> QED BY <3>1, <3>2 DEF SchedulesStay
  <2> QED BY <1>1, <2>1 DEF RowsRead
<1>2. l \in {"post", "mark"} => m.cur \in plansMade /\ m.cur \in plansMade'
  BY DEF RunKnows, SchedulesStay
<1>3. ASSUME l = "post", Planned(m.cur)'
      PROVE  m.left \subseteq Dates(m.cur)' /\ \A d \in m.left : DoneTo(m.cur, d, m.left)'
  <2>1. m.cur \in plansMade /\ Planned(m.cur)
    BY <1>2, <1>3 DEF SchedulesStay
  <2>2. m.left \subseteq Dates(m.cur) /\ m.left # {} /\ \A d \in m.left : DoneTo(m.cur, d, m.left)
    BY <1>3, <2>1 DEF RunKnows
  <2> QED BY <1>3, <2>1, <2>2, DoneStays
<1>4. ASSUME l = "mark", Planned(m.cur)' PROVE DoneTo(m.cur, m.key, {})'
  <2>1. m.cur \in plansMade /\ Planned(m.cur)
    BY <1>2, <1>4 DEF SchedulesStay
  <2>2. DoneTo(m.cur, m.key, {})
    BY <1>4, <2>1 DEF RunKnows
  <2> QED BY <1>4, <2>1, <2>2, DoneStays
<1> QED BY <1>1, <1>2, <1>3, <1>4 DEF RunKnows

\* A request moves; what the others know stays.
LEMMA DiscountMove ==
  ASSUME DiscountIInv, NEW r \in Requests, NEW l \in DiscountPlaces, NEW m \in DiscountLocal,
         DiscGoto(r, l), DiscRemember(r, m), discOverlap' = discOverlap,
         ~discOverlap => DiscountsIdle \/ discPc[r] # "idle",
         today' \in Days, discCuts' \in Nat, DiscountData', SchedulesStay, RunKnows(l, m)',
         ~discOverlap /\ discCuts' = 0 => NeverAgain'
  PROVE  DiscountIInv'
<1>1. /\ discPc' \in [Requests -> DiscountPlaces] /\ discMem' \in [Requests -> DiscountLocal]
      /\ discPc'[r] = l /\ discMem'[r] = m
      /\ \A q \in Requests \ {r} : discPc'[q] = discPc[q] /\ discMem'[q] = discMem[q]
  BY DEF DiscountIInv, DiscGoto, DiscRemember
<1>2. ASSUME NEW q \in Requests \ {r} PROVE RunKnows(discPc[q], discMem[q])'
  <2>1. PICK k \in DiscountPlaces, n \in DiscountLocal : k = discPc[q] /\ n = discMem[q]
    BY DEF DiscountIInv
  <2>2. RunKnows(k, n)
    BY <2>1 DEF DiscountIInv
  <2>3. RunKnows(k, n)'
    BY <2>2, RunKnowsStays
  <2>4. k = discPc'[q] /\ n = discMem'[q]
    BY <1>1, <2>1
  <2> QED BY <2>3, <2>4
<1>3. \A q \in Requests : RunKnows(discPc[q], discMem[q])'
  BY <1>1, <1>2
<1>4. ~discOverlap' => OneRunAtATime'
  BY <1>1 DEF DiscountIInv, OneRunAtATime, DiscountsIdle
<1> QED BY <1>1, <1>3, <1>4 DEF DiscountIInv

\* One run at a time: it is enough to say how the one stands.
LEMMA TurnMove ==
  ASSUME DiscountIInv, NEW r \in Requests, NEW l \in DiscountPlaces, NEW m \in DiscountLocal,
         DiscGoto(r, l), DiscRemember(r, m), ~discOverlap,
         DiscountsIdle \/ discPc[r] # "idle",
         (discount \cap dropped = {})', InTurn(l, m)',
         \A s \in DiscountSchedules, k \in discount' \cup dropped' :
             k.of = s /\ Planned(s)' /\ ~(l \in {"post", "mark"} /\ m.cur = s) => k.date <= plan'[s].last
  PROVE  NeverAgain'
<1>1. /\ discPc'[r] = l /\ discMem'[r] = m
      /\ \A q \in Requests \ {r} : discPc'[q] = discPc[q]
  BY DEF DiscountIInv, DiscGoto, DiscRemember
<1>2. \A q \in Requests \ {r} : discPc'[q] = "idle"
  BY <1>1 DEF DiscountIInv, OneRunAtATime, DiscountsIdle
<1>3. \A q \in Requests \ {r} : InTurn(discPc[q], discMem[q])'
  BY <1>2 DEF InTurn
<1>4. \A q \in Requests : InTurn(discPc[q], discMem[q])'
  BY <1>1, <1>3
<1>5. \A s \in DiscountSchedules : Working(s)' <=> l \in {"post", "mark"} /\ m.cur = s
  BY <1>1, <1>2 DEF Working
<1> QED BY <1>4, <1>5 DEF NeverAgain

LEMMA RowsStay ==
  ASSUME DiscountData, UNCHANGED discRows
  PROVE  /\ DiscountData' /\ SchedulesStay
         /\ \A l, m : RunKnows(l, m)' <=> RunKnows(l, m)
         /\ \A l, m : InTurn(l, m)' <=> InTurn(l, m)
<1>1. DiscountData'
  BY DEF DiscountData, discRows, Planned, DoneTo, Done, Dates
<1>2. SchedulesStay
  BY DEF SchedulesStay, discRows, Planned, Done
<1>3. \A l, m : RunKnows(l, m)' <=> RunKnows(l, m)
  BY DEF RunKnows, RowsRead, discRows, Planned, DoneTo, Done, Dates
<1>4. \A l, m : InTurn(l, m)' <=> InTurn(l, m)
  BY DEF InTurn, discRows
<1> QED BY <1>1, <1>2, <1>3, <1>4

LEMMA LastIsNatural == \A row \in PlanRow : row.last \in Nat
<1> SUFFICES ASSUME NEW row \in PlanRow PROVE row.last \in Nat
  OBVIOUS
<1>1. row.last \in Days \/ row.last = 0
  BY DEF PlanRow, NoDay
<1>2. Days \subseteq Nat /\ 0 \in Nat
  BY DaysAre
<1> QED BY <1>1, <1>2, Zenon

-----------------------------------------------------------------------------
(* Runs.                                                                   *)

LEMMA DiscBlankType == DiscBlank \in DiscountLocal
  BY DaysAre DEF DiscBlank, DiscountLocal, NoDay

\* A request moves while the rows stay.
LEMMA RunMove ==
  ASSUME DiscountIInv, NEW r \in Requests, NEW l \in DiscountPlaces, NEW m \in DiscountLocal,
         DiscGoto(r, l), DiscRemember(r, m), UNCHANGED <<today, discRows, discOverlap>>,
         ~discOverlap => DiscountsIdle \/ discPc[r] # "idle",
         discCuts' \in Nat, discCuts' = 0 => discCuts = 0,
         RunKnows(l, m),
         ~discOverlap /\ discCuts' = 0 =>
            /\ InTurn(l, m)
            /\ \A s \in DiscountSchedules, k \in discount \cup dropped :
                  k.of = s /\ Planned(s) /\ ~(l \in {"post", "mark"} /\ m.cur = s) => k.date <= plan[s].last
  PROVE  DiscountIInv'
<1>1. DiscountData' /\ SchedulesStay /\ RunKnows(l, m)' /\ (InTurn(l, m)' <=> InTurn(l, m))
  BY RowsStay DEF DiscountIInv
<1>2. ~discOverlap /\ discCuts' = 0 => NeverAgain'
  <2> SUFFICES ASSUME ~discOverlap, discCuts' = 0 PROVE NeverAgain'
    OBVIOUS
  <2>1. (discount \cap dropped = {})'
    BY DEF DiscountIInv, NeverAgain, discRows
  <2>2. \A s \in DiscountSchedules, k \in discount' \cup dropped' :
           k.of = s /\ Planned(s)' /\ ~(l \in {"post", "mark"} /\ m.cur = s) => k.date <= plan'[s].last
    BY DEF discRows, Planned
  <2> QED BY <1>1, <2>1, <2>2, TurnMove
<1>3. today' \in Days
  BY DEF DiscountIInv
<1> QED BY <1>1, <1>2, <1>3, DiscountMove

\* Nothing is at hand between two schedules.
LEMMA NobodyWorks ==
  ASSUME DiscountIInv, NEW r \in Requests, ~discOverlap, discCuts = 0,
         DiscountsIdle \/ discPc[r] \in {"list", "next"}
  PROVE  \A s \in DiscountSchedules, k \in discount \cup dropped : k.of = s /\ Planned(s) => k.date <= plan[s].last
<1>1. \A s : ~Working(s)
  BY DEF DiscountIInv, Working, DiscountsIdle, OneRunAtATime
<1> QED BY <1>1 DEF DiscountIInv, NeverAgain

LEMMA LookDiscountsInv ==
  ASSUME DiscountIInv, NEW r \in Requests, LookDiscounts(r) \/ ListPlans(r)
  PROVE  DiscountIInv'
<1>1. CASE LookDiscounts(r)
  <2>1. PICK m \in DiscountLocal : m = discMem[r]
    BY DEF DiscountIInv
  <2>2. DiscGoto(r, "list") /\ DiscRemember(r, m) /\ UNCHANGED <<today, discRows, discOverlap, discCuts>>
    BY <1>1, <2>1 DEF LookDiscounts, DiscRemember, DiscountIInv
  <2>3. ~discOverlap => DiscountsIdle
    BY <1>1 DEF LookDiscounts, EnterDiscount
  <2>4. RunKnows("list", m) /\ InTurn("list", m) /\ "list" \in DiscountPlaces
    BY DEF RunKnows, InTurn, DiscountPlaces
  <2> QED BY <2>2, <2>3, <2>4, NobodyWorks, RunMove DEF DiscountIInv
<1>2. CASE ListPlans(r)
  <2> DEFINE m == [DiscBlank EXCEPT !.now = today, !.rows = plan, !.todo = {s \in DiscountSchedules : Planned(s)}]
  <2>1. /\ discPc[r] = "list" /\ DiscGoto(r, "next") /\ DiscRemember(r, m)
        /\ UNCHANGED <<today, discRows, discOverlap, discCuts>>
    BY <1>2 DEF ListPlans
  <2>2. /\ m \in DiscountLocal /\ m.rows = plan /\ m.todo = {s \in DiscountSchedules : Planned(s)}
    <3>1. today \in 0 .. LastDay
      BY DaysAre DEF DiscountIInv, Days
    <3>2. plan \in [DiscountSchedules -> PlanRow \cup {None}]
      BY DEF DiscountIInv, DiscountData
    <3>3. {s \in DiscountSchedules : Planned(s)} \in SUBSET DiscountSchedules
      OBVIOUS
    <3> QED BY <3>1, <3>2, <3>3, DiscBlankType DEF DiscBlank, DiscountLocal
  <2> HIDE DEF m
  <2>3. RowsRead(m)
    BY <2>2 DEF RowsRead, DiscountIInv, DiscountData, Planned
  <2>4. RunKnows("next", m) /\ InTurn("next", m) /\ "next" \in DiscountPlaces
    BY <2>2, <2>3 DEF RunKnows, InTurn, DiscountPlaces
  <2> QED BY <2>1, <2>2, <2>4, NobodyWorks, RunMove DEF DiscountIInv
<1> QED BY <1>1, <1>2

\* What is left of a schedule that was read are all its dates after lastApplied.
LEMMA NextPlanInv ==
  ASSUME DiscountIInv, NEW r \in Requests, NEW s \in DiscountSchedules, NextPlan(r, s)
  PROVE  DiscountIInv'
<1>1. PICK m \in DiscountLocal : m = discMem[r]
  BY DEF DiscountIInv
<1>2. PICK row \in PlanRow : row = m.rows[s]
  BY <1>1 DEF NextPlan, DiscountIInv, RunKnows, RowsRead, DiscountLocal
<1>3. PICK left \in SUBSET Days : left = {d \in DiscountDates(row.start, row.step) : d <= m.now /\ d > row.last}
  BY DatesAreDays
<1> DEFINE n == [m EXCEPT !.todo = @ \ {s}, !.cur = s, !.left = left]
<1>4. /\ discPc[r] = "next" /\ s \in m.todo
      /\ DiscGoto(r, IF left = {} THEN "next" ELSE "post") /\ DiscRemember(r, n)
      /\ UNCHANGED <<today, discRows, discOverlap, discCuts>>
  <2>1. {d \in OccurrencesUpTo(m.rows[s].start, m.rows[s].step, m.now) : d > m.rows[s].last} = left
    BY <1>2, <1>3, OccurrencesTo
  <2> QED BY <1>1, <2>1 DEF NextPlan
<1>5. /\ n \in DiscountLocal /\ n.rows = m.rows /\ n.todo = m.todo \ {s} /\ n.cur = s /\ n.left = left
  BY DEF DiscountLocal
<1>6. /\ RunKnows("next", m)
      /\ ~discOverlap /\ discCuts = 0 => InTurn("next", m)
  BY <1>1, <1>4 DEF DiscountIInv, NeverAgain
<1> HIDE DEF n
<1>7. RowsRead(n) /\ s \in plansMade
  BY <1>2, <1>4, <1>5, <1>6, DiscountAssumption DEF RunKnows, RowsRead, DiscountLocal
<1>8. ASSUME Planned(s), left # {}
      PROVE  left \subseteq Dates(s) /\ \A d \in left : DoneTo(s, d, left)
  <2>1. row # None /\ row.start = plan[s].start /\ row.step = plan[s].step /\ DoneTo(s, row.last, {})
    BY <1>2, <1>6, <1>8, DiscountAssumption DEF RunKnows, RowsRead
  <2>2. left = {d \in Dates(s) : d <= m.now /\ d > row.last}
    BY <1>3, <2>1 DEF Dates
  <2>3. /\ Dates(s) \subseteq Nat /\ m.now \in Int /\ row.last \in Int
    <3>1. Dates(s) \subseteq Nat
      BY DatesAreDays, DaysAre DEF Dates
    <3>2. m.now \in Int
      <4>1. m.now \in 0 .. LastDay
        BY DEF DiscountLocal
      <4> QED BY <4>1, DaysAre
    <3>3. row.last \in Int
      BY LastIsNatural
    <3> QED BY <3>1, <3>2, <3>3
  <2>4. ASSUME NEW d \in left, NEW e \in Dates(s), e <= d PROVE e \in left \/ Done(s, e)
    <3>1. e <= m.now
      BY <2>2, <2>3, <2>4
    <3>2. e <= row.last => Done(s, e)
      BY <2>1 DEF DoneTo
    <3> QED BY <2>2, <2>3, <3>1, <3>2
  <2> QED BY <2>2, <2>4 DEF DoneTo
<1>9. RunKnows("next", n) /\ (left # {} => RunKnows("post", n))
  BY <1>5, <1>7, <1>8 DEF RunKnows
<1>10. ASSUME ~discOverlap, discCuts = 0
       PROVE  /\ InTurn("next", n) /\ (left # {} => InTurn("post", n))
              /\ \A t \in DiscountSchedules, k \in discount \cup dropped : k.of = t /\ Planned(t) => k.date <= plan[t].last
  <2>1. \A t \in DiscountSchedules, k \in discount \cup dropped : k.of = t /\ Planned(t) => k.date <= plan[t].last
    BY <1>4, <1>10, NobodyWorks
  <2>2. InTurn("next", n)
    BY <1>5, <1>6, <1>10 DEF InTurn
  <2>3. ASSUME NEW k \in discount \cup dropped, NEW e \in left, k.of = s PROVE k.date < e
    <3>1. row = plan[s] /\ Planned(s)
      BY <1>2, <1>4, <1>6, <1>10, DiscountAssumption DEF InTurn, Planned
    <3>2. k.date <= row.last
      BY <2>1, <2>3, <3>1
    <3>3. k.date \in Nat /\ e \in Nat /\ row.last \in Int /\ e > row.last
      <4>1. k.date \in Days
        BY DEF DiscountIInv, DiscountData, DiscountKey
      <4>2. row.last \in Nat
        BY LastIsNatural
      <4>3. e \in Days /\ e > row.last
        BY <1>3
      <4>4. k.date \in Nat /\ e \in Nat
        BY <4>1, <4>3, DaysAre, Zenon
      <4> QED BY <4>2, <4>3, <4>4
    <3> QED BY <3>2, <3>3
  <2> QED BY <1>5, <2>1, <2>2, <2>3 DEF InTurn
<1>11. CASE left = {}
  BY <1>4, <1>5, <1>9, <1>10, <1>11, RunMove DEF DiscountIInv, DiscountPlaces
<1>12. CASE left # {}
  BY <1>4, <1>5, <1>9, <1>10, <1>12, RunMove DEF DiscountIInv, DiscountPlaces
<1> QED BY <1>11, <1>12

LEMMA DiscountStopInv ==
  ASSUME DiscountIInv, NEW r \in Requests, DiscountsListed(r) \/ RefusePlan(r) \/ CutDiscounts(r)
  PROVE  DiscountIInv'
<1>1. /\ discPc[r] # "idle" /\ DiscEnd(r) /\ UNCHANGED <<today, discRows, discOverlap>>
      /\ discCuts' \in Nat /\ (discCuts' = 0 => discCuts = 0 /\ ~CutDiscounts(r))
  BY DEF DiscountsListed, RefusePlan, CutDiscounts, DiscountIInv
<1>2. RunKnows("idle", DiscBlank) /\ InTurn("idle", DiscBlank) /\ "idle" \in DiscountPlaces
  BY DEF RunKnows, InTurn, DiscountPlaces
<1>3. ASSUME ~discOverlap, discCuts' = 0, NEW s \in DiscountSchedules, NEW k \in discount \cup dropped,
             k.of = s, Planned(s)
      PROVE  k.date <= plan[s].last
  <2>1. ~Working(s)
    BY <1>1, <1>3 DEF DiscountsListed, RefusePlan, DiscountIInv, OneRunAtATime, Working
  <2> QED BY <1>1, <1>3, <2>1 DEF DiscountIInv, NeverAgain
<1> QED BY <1>1, <1>2, <1>3, DiscBlankType, RunMove DEF DiscEnd

\* The earliest of the days that are left.
LEMMA EarliestIs ==
  ASSUME NEW left \in SUBSET Days, left # {}
  PROVE  Min(left) \in left /\ \A e \in left : Min(left) <= e
<1>1. left \subseteq Nat
  BY DaysAre
<1>2. \E x \in left : \A y \in left : x <= y
  BY <1>1, LeastOf
<1> QED BY <1>2 DEF Min

\* The date at hand is done, and every other that is left is later.
LEMMA PostDiscountInv ==
  ASSUME DiscountIInv, NEW r \in Requests, PostDiscount(r)
  PROVE  DiscountIInv'
<1>1. PICK m \in DiscountLocal : m = discMem[r]
  BY DEF DiscountIInv
<1>2. discPc[r] = "post" /\ RunKnows("post", m)
  BY <1>1 DEF PostDiscount, DiscountIInv
<1>3. PICK s \in plansMade : s = m.cur
  BY <1>2 DEF RunKnows
<1>4. PICK left \in SUBSET Days : left = m.left /\ left # {}
  BY <1>2 DEF RunKnows, DiscountLocal
<1>5. PICK d \in left : d = Min(left) /\ \A e \in left : d <= e
  BY <1>4, EarliestIs
<1>6. d \in Nat /\ d \in Days /\ s \in DiscountSchedules /\ s # None
  BY DaysAre, DiscountAssumption DEF DiscountIInv, DiscountData
<1> DEFINE key == [of |-> s, date |-> d]
           n == [m EXCEPT !.left = left \ {d}, !.key = d]
           l == IF left = {d} THEN "mark" ELSE "post"
<1>7. /\ DiscGoto(r, l) /\ DiscRemember(r, n)
      /\ UNCHANGED <<today, plan, plansMade, dropped, discOverlap, discCuts>>
      /\ discount \subseteq discount' /\ worthless \subseteq worthless' /\ discount' = discountTx'
      /\ worthless' \subseteq worthless \cup {key}
      /\ discount' # discount => discount' = discount \cup {key} /\ Planned(s)
      /\ key \in discount' \cup worthless'
  BY <1>1, <1>3, <1>4, <1>5 DEF PostDiscount, PostedOnce, DiscountIInv, DiscountData
<1>8. /\ n \in DiscountLocal /\ n.rows = m.rows /\ n.todo = m.todo /\ n.cur = s
      /\ n.left = left \ {d} /\ n.key = d
  BY <1>3, <1>6 DEF DiscountLocal
<1>9. key \in DiscountKey /\ key.of = s /\ key.date = d
  BY <1>6 DEF DiscountKey
<1>10. ASSUME Planned(s) PROVE left \subseteq Dates(s) /\ \A e \in left : DoneTo(s, e, left)
  BY <1>2, <1>3, <1>4, <1>10 DEF RunKnows
<1>11. SchedulesStay /\ Done(s, d)'
  BY <1>7 DEF SchedulesStay, Planned, Done
<1> HIDE DEF key, n
<1>12. \A t : Planned(t)' <=> Planned(t)
  BY <1>7 DEF Planned
<1>13. \A t : Dates(t)' = Dates(t)
  BY <1>7 DEF Dates
<1>14. DiscountData'
  <2>1. \A k \in discount' : k \in discount \/ (k = key /\ Planned(s))
    BY <1>7
  <2>2. (discount \cup discountTx \cup worthless \cup dropped \subseteq DiscountKey)'
    BY <1>7, <1>9 DEF DiscountIInv, DiscountData
  <2>3. ASSUME NEW t \in DiscountSchedules, Planned(t)'
        PROVE  t \in plansMade' /\ DoneTo(t, plan[t].last, {})'
    <3>1. t \in plansMade /\ DoneTo(t, plan[t].last, {}) /\ plan'[t].last = plan[t].last
      BY <1>7, <1>12, <2>3 DEF DiscountIInv, DiscountData
    <3> QED BY <1>7, <1>11, <1>13, <2>3, <3>1 DEF DoneTo, SchedulesStay
  <2>4. \A k \in discount' \cup dropped' : k.of # None => k.of \in plansMade'
    BY <1>7, <1>9, <2>1 DEF DiscountIInv, DiscountData
  <2>5. \A k \in discount' : k.of # None /\ Planned(k.of)' => k.date \in Dates(k.of)'
    BY <1>9, <1>10, <1>12, <1>13, <2>1 DEF DiscountIInv, DiscountData
  <2>6. (plan \in [DiscountSchedules -> PlanRow \cup {None}] /\ plansMade \subseteq DiscountSchedules)'
    BY <1>7 DEF DiscountIInv, DiscountData
  <2> QED BY <1>7, <2>2, <2>3, <2>4, <2>5, <2>6 DEF DiscountData
<1>15. RowsRead(n)'
  <2>1. RunKnows("next", m)
    BY <1>2 DEF RunKnows
  <2>2. RunKnows("next", m)'
    BY <1>11, <2>1, RunKnowsStays DEF DiscountPlaces
  <2> QED BY <1>8, <2>2 DEF RunKnows, RowsRead
<1>16. RunKnows(l, n)'
  <2>1. CASE left = {d}
    <3>1. ASSUME Planned(s)' PROVE DoneTo(s, d, {})'
      BY <1>10, <1>11, <1>12, <1>13, <2>1, <3>1 DEF DoneTo, SchedulesStay
    <3> QED BY <1>6, <1>7, <1>8, <1>15, <2>1, <3>1 DEF RunKnows
  <2>2. CASE left # {d}
    <3>1. ASSUME Planned(s)' PROVE \A e \in left \ {d} : DoneTo(s, e, left \ {d})'
      BY <1>10, <1>11, <1>12, <1>13, <3>1 DEF DoneTo, SchedulesStay
    <3>2. left \ {d} # {}
      BY <2>2
    <3>3. ASSUME Planned(s)' PROVE left \ {d} \subseteq Dates(s)'
      BY <1>10, <1>12, <1>13, <3>3
    <3> QED BY <1>7, <1>8, <1>15, <2>2, <3>1, <3>2, <3>3 DEF RunKnows
  <2> QED BY <2>1, <2>2
<1>17. ASSUME ~discOverlap, discCuts' = 0
       PROVE  NeverAgain'
  <2>1. InTurn("post", m) /\ discount \cap dropped = {}
    BY <1>1, <1>2, <1>7, <1>17 DEF DiscountIInv, NeverAgain
  <2>2. \A k \in discount \cup dropped : k.of = s => k.date < d
    BY <1>3, <1>4, <2>1 DEF InTurn
  <2>3. key \notin dropped
    BY <1>6, <1>9, <2>2
  <2>4. (discount \cap dropped = {})'
    BY <1>7, <2>1, <2>3
  <2>5. \A k \in discount' \cup dropped' : k \in discount \cup dropped \/ k = key
    BY <1>7
  <2>6. ASSUME NEW k \in discount' \cup dropped', k.of = s PROVE k.date \in Nat /\ k.date <= d
    <3>1. CASE k = key
      BY <1>6, <1>9, <3>1
    <3>2. CASE k \in discount \cup dropped
      <4>1. k.date \in Days
        BY <3>2 DEF DiscountIInv, DiscountData, DiscountKey
      <4>2. k.date \in Nat /\ k.date < d
        BY <2>2, <2>6, <3>2, <4>1, DaysAre, Zenon
      <4> QED BY <1>6, <4>2
    <3> QED BY <2>5, <3>1, <3>2
  <2>7. \A e \in left \ {d} : e \in Nat /\ d < e
    <3> SUFFICES ASSUME NEW e \in left \ {d} PROVE e \in Nat /\ d < e
      OBVIOUS
    <3>1. e \in Nat
      BY DaysAre, Zenon
    <3> QED BY <1>5, <1>6, <3>1
  <2>8. InTurn(l, n)'
    <3>1. \A t \in n.todo : n.rows[t] = plan'[t]
      BY <1>7, <1>8, <2>1 DEF InTurn
    <3>2. n.cur \notin n.todo
      BY <1>3, <1>8, <2>1 DEF InTurn
    <3>3. \A k \in discount' \cup dropped', e \in n.left : k.of = n.cur => k.date < e
      <4> SUFFICES ASSUME NEW k \in discount' \cup dropped', NEW e \in left \ {d}, k.of = s
                   PROVE  k.date < e
        BY <1>8
      <4>1. k.date \in Nat /\ k.date <= d /\ e \in Nat /\ d < e
        BY <2>6, <2>7
      <4> QED BY <1>6, <4>1
    <3>4. \A k \in discount' \cup dropped' : k.of = n.cur => k.date <= n.key
      BY <1>8, <2>6
    <3> QED BY <3>1, <3>2, <3>3, <3>4 DEF InTurn
  <2>9. ASSUME NEW t \in DiscountSchedules, NEW k \in discount' \cup dropped', k.of = t, Planned(t)', t # s
        PROVE  k.date <= plan'[t].last
    <3>1. ~Working(t)
      BY <1>1, <1>2, <1>3, <1>17, <2>9 DEF Working, DiscountIInv, OneRunAtATime
    <3>2. k \in discount \cup dropped /\ Planned(t)
      BY <1>9, <1>12, <2>5, <2>9
    <3>3. k.date <= plan[t].last
      BY <1>7, <1>17, <2>9, <3>1, <3>2 DEF DiscountIInv, NeverAgain
    <3> QED BY <1>7, <3>3
  <2> QED BY <1>2, <1>7, <1>8, <1>17, <2>4, <2>8, <2>9, TurnMove DEF DiscountPlaces
<1>18. today' \in Days /\ discCuts' \in Nat /\ discOverlap' = discOverlap /\ l \in DiscountPlaces
  BY <1>7 DEF DiscountIInv, DiscountPlaces
<1> HIDE DEF l
<1> QED BY <1>2, <1>7, <1>8, <1>11, <1>14, <1>16, <1>17, <1>18, DiscountMove

\* lastApplied moves up to a date with everything before it done.
LEMMA MarkPlanInv ==
  ASSUME DiscountIInv, NEW r \in Requests, MarkPlan(r)
  PROVE  DiscountIInv'
<1>1. PICK m \in DiscountLocal : m = discMem[r]
  BY DEF DiscountIInv
<1>2. PICK s \in plansMade : s = m.cur
  BY <1>1 DEF MarkPlan, DiscountIInv, RunKnows
<1>3. /\ discPc[r] = "mark" /\ Planned(s) /\ s \in DiscountSchedules
      /\ m.key \in Days /\ DoneTo(s, m.key, {}) /\ RowsRead(m)
  BY <1>1, <1>2 DEF MarkPlan, DiscountIInv, DiscountData, RunKnows
<1>4. PICK row \in PlanRow : row = plan[s]
  BY <1>3 DEF DiscountIInv, DiscountData, Planned
<1> DEFINE new == [row EXCEPT !.last = m.key]
<1>5. /\ plan' = [plan EXCEPT ![s] = new]
      /\ DiscGoto(r, "next") /\ DiscRemember(r, m)
      /\ UNCHANGED <<today, plansMade, discount, discountTx, worthless, dropped, discOverlap, discCuts>>
  BY <1>1, <1>2, <1>4 DEF MarkPlan, AppliedLast, DiscRemember, DiscountIInv
<1>6. /\ new \in PlanRow /\ new.start = row.start /\ new.step = row.step /\ new.last = m.key /\ new # None
  BY <1>3, DiscountAssumption DEF PlanRow
<1> HIDE DEF new
<1>7. /\ plan' \in [DiscountSchedules -> PlanRow \cup {None}]
      /\ plan'[s] = new /\ \A t \in DiscountSchedules \ {s} : plan'[t] = plan[t]
  BY <1>3, <1>5, <1>6 DEF DiscountIInv, DiscountData
<1>8. \A t \in DiscountSchedules : (Planned(t)' <=> Planned(t)) /\ Dates(t)' = Dates(t)
  BY <1>3, <1>4, <1>6, <1>7 DEF Planned, Dates
<1>9. SchedulesStay
  BY <1>3, <1>4, <1>5, <1>6, <1>7, <1>8 DEF SchedulesStay, Done, DiscountIInv, DiscountData
<1>10. \A t \in DiscountSchedules : \A u, left : DoneTo(t, u, left) => DoneTo(t, u, left)'
  BY <1>8, <1>9 DEF DoneTo, SchedulesStay
<1>11. DiscountData'
  <2>1. ASSUME NEW t \in DiscountSchedules, Planned(t)'
        PROVE  t \in plansMade' /\ DoneTo(t, plan[t].last, {})'
    <3>1. t \in plansMade /\ DoneTo(t, plan[t].last, {})
      BY <1>8, <2>1 DEF DiscountIInv, DiscountData
    <3>2. CASE t = s
      <4>1. DoneTo(s, m.key, {})' /\ plan'[t].last = m.key
        BY <1>3, <1>6, <1>7, <1>10, <3>2
      <4> QED BY <1>5, <3>1, <3>2, <4>1 DEF DoneTo
    <3>3. CASE t # s
      <4>1. PICK u : u = plan[t].last
        OBVIOUS
      <4>2. u = plan'[t].last
        BY <1>7, <3>3, <4>1
      <4>3. DoneTo(t, u, {})'
        BY <1>10, <3>1, <4>1
      <4> QED BY <1>5, <3>1, <4>2, <4>3 DEF DoneTo
    <3> QED BY <3>2, <3>3
  <2>2. \A k \in discount' : k.of # None /\ Planned(k.of)' => k.date \in Dates(k.of)'
    BY <1>5, <1>8 DEF DiscountIInv, DiscountData
  <2> QED BY <1>5, <1>7, <2>1, <2>2 DEF DiscountIInv, DiscountData
<1>12. RunKnows("next", m)'
  <2>1. RunKnows("next", m)
    BY <1>3 DEF RunKnows
  <2> QED BY <1>9, <2>1, RunKnowsStays DEF DiscountPlaces
<1>13. ASSUME ~discOverlap, discCuts' = 0
       PROVE  NeverAgain'
  <2>1. InTurn("mark", m) /\ discount \cap dropped = {}
    BY <1>1, <1>3, <1>5, <1>13 DEF DiscountIInv, NeverAgain
  <2>2. InTurn("next", m)'
    BY <1>2, <1>7, <2>1 DEF InTurn, DiscountLocal
  <2>3. ASSUME NEW t \in DiscountSchedules, NEW k \in discount' \cup dropped', k.of = t, Planned(t)'
        PROVE  k.date <= plan'[t].last
    <3>1. CASE t = s
      BY <1>2, <1>5, <1>6, <1>7, <2>1, <2>3, <3>1 DEF InTurn
    <3>2. CASE t # s
      <4>1. ~Working(t)
        BY <1>1, <1>2, <1>3, <1>13, <3>2 DEF Working, DiscountIInv, OneRunAtATime
      <4>2. k.date <= plan[t].last
        BY <1>5, <1>8, <1>13, <2>3, <4>1 DEF DiscountIInv, NeverAgain
      <4> QED BY <1>7, <3>2, <4>2
    <3> QED BY <3>1, <3>2
  <2>4. (discount \cap dropped = {})'
    BY <1>5, <2>1
  <2> QED BY <1>3, <1>5, <1>13, <2>2, <2>3, <2>4, TurnMove DEF DiscountPlaces
<1>14. today' \in Days /\ discCuts' \in Nat /\ "next" \in DiscountPlaces
  BY <1>5 DEF DiscountIInv, DiscountPlaces
<1> QED BY <1>3, <1>5, <1>9, <1>11, <1>12, <1>13, <1>14, DiscountMove

\* The rows change while no request moves.
LEMMA DiscountRows ==
  ASSUME DiscountIInv, UNCHANGED <<discPc, discMem, discOverlap>>, discCuts' = discCuts,
         today' \in Days, DiscountData', SchedulesStay,
         ~discOverlap /\ discCuts = 0 => NeverAgain'
  PROVE  DiscountIInv'
<1>1. ASSUME NEW q \in Requests PROVE RunKnows(discPc[q], discMem[q])'
  <2>1. PICK k \in DiscountPlaces, n \in DiscountLocal : k = discPc[q] /\ n = discMem[q]
    BY DEF DiscountIInv
  <2>2. RunKnows(k, n)
    BY <2>1 DEF DiscountIInv
  <2>3. RunKnows(k, n)'
    BY <2>2, RunKnowsStays
  <2>4. k = discPc'[q] /\ n = discMem'[q]
    BY <2>1
  <2> QED BY <2>3, <2>4
<1>2. (~discOverlap => OneRunAtATime)'
  BY DEF DiscountIInv, OneRunAtATime
<1> QED BY <1>1, <1>2 DEF DiscountIInv

LEMMA IdleInTurn ==
  ASSUME DiscountsIdle, UNCHANGED discPc
  PROVE  /\ \A r \in Requests : InTurn(discPc[r], discMem[r])'
         /\ \A s : ~Working(s) /\ ~Working(s)'
  BY DEF DiscountsIdle, InTurn, Working

LEMMA CreatePlanInv ==
  ASSUME DiscountIInv, NEW r \in Requests, NEW s \in DiscountSchedules,
         NEW start \in StartDays \cap 1 .. today, NEW step \in Periods, NEW percent \in BOOLEAN,
         CreatePlan(r, s, start, step, percent)
  PROVE  DiscountIInv'
<1>1. PICK m \in DiscountLocal : m = discMem[r]
  BY DEF DiscountIInv
<1> DEFINE row == [start |-> start, step |-> step, percent |-> percent, last |-> NoDay]
<1>2. row \in PlanRow /\ row # None /\ row.last = 0
  BY DiscountAssumption DEF PlanRow, NoDay
<1>3. /\ s \notin plansMade /\ plansMade' = plansMade \cup {s} /\ plan' = [plan EXCEPT ![s] = row]
      /\ DiscGoto(r, "list") /\ DiscRemember(r, m)
      /\ UNCHANGED <<today, discount, discountTx, worthless, dropped, discOverlap, discCuts>>
      /\ discPc[r] = "idle" /\ (~discOverlap => DiscountsIdle)
  BY <1>1 DEF CreatePlan, EnterDiscount, DiscRemember, DiscountIInv
<1> HIDE DEF row
<1>4. /\ plan' \in [DiscountSchedules -> PlanRow \cup {None}]
      /\ plan'[s] = row /\ \A t \in DiscountSchedules \ {s} : plan'[t] = plan[t]
  BY <1>2, <1>3 DEF DiscountIInv, DiscountData
<1>5. plansMade \subseteq DiscountSchedules /\ s # None /\ \A t \in plansMade : t # s
  BY <1>3, DiscountAssumption DEF DiscountIInv, DiscountData
<1>6. SchedulesStay
  BY <1>3, <1>4, <1>5 DEF SchedulesStay, Planned, Done
<1>7. \A k \in discount \cup dropped : k.of # s
  BY <1>3, <1>5 DEF DiscountIInv, DiscountData
<1>8. DiscountData'
  <2>1. ASSUME NEW t \in DiscountSchedules, Planned(t)'
        PROVE  t \in plansMade' /\ DoneTo(t, plan[t].last, {})'
    <3>1. CASE t = s
      <4>1. Dates(s)' \subseteq Nat \ {0} /\ plan'[t].last = 0
        BY <1>2, <1>4, <3>1, DatesAreDays, DaysAre DEF Dates
      <4>2. \A d \in Dates(s)' : ~(d <= 0)
        BY <4>1
      <4> QED BY <1>3, <3>1, <4>1, <4>2 DEF DoneTo
    <3>2. CASE t # s
      <4>1. t \in plansMade /\ DoneTo(t, plan[t].last, {}) /\ plan'[t].last = plan[t].last
        BY <1>4, <2>1, <3>2 DEF Planned, DiscountIInv, DiscountData
      <4>2. Dates(t)' = Dates(t)
        BY <1>4, <3>2 DEF Dates
      <4> QED BY <1>3, <1>6, <4>1, <4>2 DEF DoneTo, SchedulesStay
    <3> QED BY <3>1, <3>2
  <2>2. ASSUME NEW k \in discount', k.of # None, Planned(k.of)' PROVE k.date \in Dates(k.of)'
    <3>1. k \in discount /\ k.of \in plansMade /\ k.of # s
      BY <1>3, <1>7, <2>2 DEF DiscountIInv, DiscountData
    <3>2. plan'[k.of] = plan[k.of] /\ Planned(k.of)
      BY <1>4, <1>5, <2>2, <3>1 DEF Planned
    <3>3. k.date \in Dates(k.of)
      BY <2>2, <3>1, <3>2 DEF DiscountIInv, DiscountData
    <3> QED BY <3>2, <3>3 DEF Dates
  <2>3. /\ plansMade' \subseteq DiscountSchedules /\ discount' = discountTx'
        /\ (discount \cup discountTx \cup worthless \cup dropped \subseteq DiscountKey)'
        /\ \A k \in discount' \cup dropped' : k.of # None => k.of \in plansMade'
    BY <1>3, <1>5 DEF DiscountIInv, DiscountData
  <2> QED BY <1>4, <2>1, <2>2, <2>3 DEF DiscountData
<1>9. RunKnows("list", m)' /\ InTurn("list", m)' /\ "list" \in DiscountPlaces
  BY DEF RunKnows, InTurn, DiscountPlaces
<1>10. ASSUME ~discOverlap, discCuts' = 0 PROVE NeverAgain'
  <2>1. (discount \cap dropped = {})'
    BY <1>3, <1>10 DEF DiscountIInv, NeverAgain
  <2>2. ASSUME NEW t \in DiscountSchedules, NEW k \in discount' \cup dropped', k.of = t, Planned(t)'
        PROVE  k.date <= plan'[t].last
    <3>1. t # s /\ k \in discount \cup dropped /\ plan'[t] = plan[t] /\ Planned(t)
      BY <1>3, <1>4, <1>7, <2>2 DEF Planned
    <3>2. ~Working(t)
      BY <1>3, <1>10 DEF Working, DiscountsIdle
    <3>3. k.date <= plan[t].last
      BY <1>3, <1>10, <2>2, <3>1, <3>2 DEF DiscountIInv, NeverAgain
    <3> QED BY <3>1, <3>3
  <2> QED BY <1>3, <1>9, <1>10, <2>1, <2>2, TurnMove
<1>11. today' \in Days /\ discCuts' \in Nat
  BY <1>3 DEF DiscountIInv
<1> QED BY <1>3, <1>6, <1>8, <1>9, <1>10, <1>11, DiscountMove

LEMMA RemovePlanInv ==
  ASSUME DiscountIInv, NEW s \in DiscountSchedules, RemovePlan(s)
  PROVE  DiscountIInv'
<1>1. /\ plan' = [plan EXCEPT ![s] = None] /\ (~discOverlap => DiscountsIdle)
      /\ UNCHANGED <<today, plansMade, discount, discountTx, worthless, dropped, discPc, discMem,
                     discOverlap, discCuts>>
  BY DEF RemovePlan
<1>2. /\ plan' \in [DiscountSchedules -> PlanRow \cup {None}]
      /\ ~Planned(s)' /\ \A t \in DiscountSchedules \ {s} : plan'[t] = plan[t]
  BY <1>1 DEF DiscountIInv, DiscountData, Planned
<1>3. SchedulesStay
  BY <1>1, <1>2 DEF SchedulesStay, Planned, Done, DiscountIInv, DiscountData
<1>4. \A t \in DiscountSchedules : Planned(t)' => t # s /\ Planned(t) /\ plan'[t] = plan[t] /\ Dates(t)' = Dates(t)
  BY <1>2 DEF Planned, Dates
<1>5. DiscountData'
  <2>1. ASSUME NEW t \in DiscountSchedules, Planned(t)'
        PROVE  t \in plansMade' /\ DoneTo(t, plan[t].last, {})'
    <3>1. t \in plansMade /\ DoneTo(t, plan[t].last, {}) /\ plan'[t].last = plan[t].last
      BY <1>4, <2>1 DEF DiscountIInv, DiscountData
    <3> QED BY <1>1, <1>3, <1>4, <2>1, <3>1 DEF DoneTo, SchedulesStay
  <2>2. ASSUME NEW k \in discount', k.of # None, Planned(k.of)' PROVE k.date \in Dates(k.of)'
    <3>1. k \in discount /\ k.of \in DiscountSchedules
      BY <1>1, <2>2 DEF DiscountIInv, DiscountData, DiscountKey
    <3> QED BY <1>4, <2>2, <3>1 DEF DiscountIInv, DiscountData
  <2> QED BY <1>1, <1>2, <2>1, <2>2 DEF DiscountIInv, DiscountData
<1>6. ASSUME ~discOverlap, discCuts = 0 PROVE NeverAgain'
  <2>1. /\ \A r \in Requests : InTurn(discPc[r], discMem[r])'
        /\ \A t : ~Working(t) /\ ~Working(t)'
    BY <1>1, <1>6, IdleInTurn
  <2>2. NeverAgain
    BY <1>6 DEF DiscountIInv
  <2>3. \A t \in DiscountSchedules, k \in discount' \cup dropped' :
           k.of = t /\ Planned(t)' => k.date <= plan'[t].last
    BY <1>1, <1>4, <2>1, <2>2 DEF NeverAgain
  <2> QED BY <1>1, <2>1, <2>2, <2>3 DEF NeverAgain
<1> QED BY <1>1, <1>3, <1>5, <1>6, DiscountRows DEF DiscountIInv

\* A discount by hand is of no schedule, and a discount that somebody deletes stays known.
LEMMA HandInv ==
  ASSUME DiscountIInv,
         (\E d \in StartDays : CreateDiscount(d))
            \/ \E key \in discount, cascade \in BOOLEAN : RemoveDiscount(key, cascade)
  PROVE  DiscountIInv'
<1>1. /\ (~discOverlap => DiscountsIdle)
      /\ UNCHANGED <<today, plan, plansMade, worthless, discPc, discMem, discOverlap, discCuts>>
  BY DEF CreateDiscount, RemoveDiscount
<1>2. /\ discount' = discountTx' /\ discount \cup dropped \subseteq discount' \cup dropped'
      /\ \A k \in discount' \cup dropped' : k \in discount \cup dropped \/ k.of = None
      /\ \A k \in discount' : k \in discount \/ k.of = None
      /\ discount' \cup dropped' \subseteq DiscountKey
      /\ discount \cap dropped = {} => discount' \cap dropped' = {}
  <2>1. discount = discountTx /\ discount \cup dropped \subseteq DiscountKey
    BY DEF DiscountIInv, DiscountData
  <2>2. ASSUME NEW d \in StartDays, CreateDiscount(d) PROVE <1>2!:
    <3>1. /\ discount' = discount \cup {[of |-> None, date |-> d]} /\ discountTx' = discountTx \cup {[of |-> None, date |-> d]}
          /\ dropped' = dropped /\ \A k \in dropped : k.of # None
      BY <2>2 DEF CreateDiscount, PostedOnce
    <3>2. [of |-> None, date |-> d] \in DiscountKey /\ [of |-> None, date |-> d].of = None
      BY DiscountAssumption DEF DiscountKey
    <3> QED BY <2>1, <3>1, <3>2
  <2>3. ASSUME NEW key \in discount, NEW cascade \in BOOLEAN, RemoveDiscount(key, cascade) PROVE <1>2!:
    BY <2>1, <2>3 DEF RemoveDiscount
  <2> QED BY <2>2, <2>3
<1>3. SchedulesStay
  BY <1>1, <1>2 DEF SchedulesStay, Planned, Done
<1>4. \A t : (Planned(t)' <=> Planned(t)) /\ Dates(t)' = Dates(t) /\ plan'[t] = plan[t]
  BY <1>1 DEF Planned, Dates
<1>5. DiscountData'
  <2>1. ASSUME NEW t \in DiscountSchedules, Planned(t)'
        PROVE  t \in plansMade' /\ DoneTo(t, plan[t].last, {})'
    <3>1. t \in plansMade /\ DoneTo(t, plan[t].last, {}) /\ plan'[t].last = plan[t].last
      BY <1>4, <2>1 DEF DiscountIInv, DiscountData
    <3> QED BY <1>1, <1>3, <1>4, <2>1, <3>1 DEF DoneTo, SchedulesStay
  <2>2. \A k \in discount' : k.of # None /\ Planned(k.of)' => k.date \in Dates(k.of)'
    BY <1>2, <1>4 DEF DiscountIInv, DiscountData
  <2>3. \A k \in discount' \cup dropped' : k.of # None => k.of \in plansMade'
    BY <1>1, <1>2 DEF DiscountIInv, DiscountData
  <2>4. (discount \cup discountTx \cup worthless \cup dropped \subseteq DiscountKey)'
    BY <1>1, <1>2 DEF DiscountIInv, DiscountData
  <2>5. (plan \in [DiscountSchedules -> PlanRow \cup {None}] /\ plansMade \subseteq DiscountSchedules)'
    BY <1>1 DEF DiscountIInv, DiscountData
  <2> QED BY <1>2, <2>1, <2>2, <2>3, <2>4, <2>5 DEF DiscountData
<1>6. ASSUME ~discOverlap, discCuts = 0 PROVE NeverAgain'
  <2>1. /\ \A r \in Requests : InTurn(discPc[r], discMem[r])'
        /\ \A t : ~Working(t) /\ ~Working(t)'
    BY <1>1, <1>6, IdleInTurn
  <2>2. NeverAgain
    BY <1>6 DEF DiscountIInv
  <2>3. ASSUME NEW t \in DiscountSchedules, NEW k \in discount' \cup dropped', k.of = t, Planned(t)'
        PROVE  k.date <= plan'[t].last
    <3>1. k \in discount \cup dropped
      BY <1>2, <2>3, DiscountAssumption
    <3>2. Planned(t) /\ ~Working(t) /\ plan'[t] = plan[t]
      BY <1>4, <2>1, <2>3
    <3> QED BY <2>2, <2>3, <3>1, <3>2 DEF NeverAgain
  <2> QED BY <1>2, <2>1, <2>2, <2>3 DEF NeverAgain
<1> QED BY <1>1, <1>3, <1>5, <1>6, DiscountRows DEF DiscountIInv

LEMMA NextDayInv ==
  ASSUME DiscountIInv, NextDay
  PROVE  DiscountIInv'
<1>1. UNCHANGED <<discRows, discPc, discMem, discOverlap, discCuts>>
  BY DEF NextDay
<1>2. today' \in Days
  <2>1. today \in Nat /\ 1 <= today /\ today < LastDay /\ LastDay \in Nat /\ today' = today + 1
    BY DaysAre DEF NextDay, DiscountIInv, Days
  <2> QED BY <2>1 DEF Days
<1>3. DiscountData' /\ SchedulesStay /\ \A l, m : InTurn(l, m)' <=> InTurn(l, m)
  BY <1>1, RowsStay DEF DiscountIInv
<1>4. NeverAgain => NeverAgain'
  BY <1>1 DEF NeverAgain, Working, Planned, discRows, InTurn
<1> QED BY <1>1, <1>2, <1>3, <1>4, DiscountRows DEF DiscountIInv

LEMMA DiscountInitInv == DiscountInit => DiscountIInv
<1> SUFFICES ASSUME DiscountInit PROVE DiscountIInv
  OBVIOUS
<1>1. today \in Days /\ discCuts \in Nat
  BY DaysAre DEF DiscountInit, Days
<1>2. DiscountData
  BY DEF DiscountInit, DiscountData, Planned
<1>3. discPc \in [Requests -> DiscountPlaces] /\ discMem \in [Requests -> DiscountLocal]
  BY DiscBlankType DEF DiscountInit, DiscountPlaces
<1>4. \A r \in Requests : discPc[r] = "idle"
  BY DEF DiscountInit
<1>5. \A r \in Requests : RunKnows(discPc[r], discMem[r]) /\ InTurn(discPc[r], discMem[r])
  BY <1>4 DEF RunKnows, InTurn
<1>6. OneRunAtATime
  BY <1>4 DEF OneRunAtATime
<1>7. NeverAgain
  BY <1>5 DEF NeverAgain, DiscountInit
<1> QED BY <1>1, <1>2, <1>3, <1>5, <1>6, <1>7 DEF DiscountIInv

LEMMA DiscountStep == DiscountIInv /\ [DiscountNext]_discVars => DiscountIInv'
<1> SUFFICES ASSUME DiscountIInv, [DiscountNext]_discVars PROVE DiscountIInv'
  OBVIOUS
<1>1. CASE NextDay
  BY <1>1, NextDayInv
<1>2. ASSUME NEW s \in DiscountSchedules, RemovePlan(s) PROVE DiscountIInv'
  BY <1>2, RemovePlanInv
<1>3. CASE \/ \E d \in StartDays : CreateDiscount(d)
           \/ \E key \in discount, cascade \in BOOLEAN : RemoveDiscount(key, cascade)
  BY <1>3, HandInv
<1>4. ASSUME NEW r \in Requests, LookDiscounts(r) PROVE DiscountIInv'
  BY <1>4, LookDiscountsInv
<1>5. ASSUME NEW r \in Requests, StepDiscount(r) PROVE DiscountIInv'
  <2>1. CASE ListPlans(r)
    BY <2>1, LookDiscountsInv
  <2>2. ASSUME NEW s \in DiscountSchedules, NextPlan(r, s) PROVE DiscountIInv'
    BY <2>2, NextPlanInv
  <2>3. CASE PostDiscount(r)
    BY <2>3, PostDiscountInv
  <2>4. CASE MarkPlan(r)
    BY <2>4, MarkPlanInv
  <2>5. CASE DiscountsListed(r) \/ RefusePlan(r)
    BY <2>5, DiscountStopInv
  <2> QED BY <1>5, <2>1, <2>2, <2>3, <2>4, <2>5 DEF StepDiscount
<1>6. ASSUME NEW r \in Requests, CutDiscounts(r) PROVE DiscountIInv'
  BY <1>6, DiscountStopInv
<1>7. ASSUME NEW r \in Requests, NEW s \in DiscountSchedules, NEW start \in StartDays \cap 1 .. today,
             NEW step \in Periods, NEW percent \in BOOLEAN, CreatePlan(r, s, start, step, percent)
      PROVE  DiscountIInv'
  BY <1>7, CreatePlanInv
<1>8. CASE UNCHANGED discVars
  <2>1. UNCHANGED <<today, discRows, discPc, discMem, discOverlap, discCuts>>
    BY <1>8 DEF discVars
  <2>2. DiscountData' /\ SchedulesStay
    BY <2>1, RowsStay DEF DiscountIInv
  <2>3. NeverAgain => NeverAgain'
    BY <2>1 DEF NeverAgain, Working, Planned, discRows, InTurn
  <2> QED BY <2>1, <2>2, <2>3, DiscountRows DEF DiscountIInv
<1> QED BY <1>1, <1>2, <1>3, <1>4, <1>5, <1>6, <1>7, <1>8 DEF DiscountNext

LEMMA DiscountsInvariant == DiscountSpec => []DiscountIInv
  BY DiscountInitInv, DiscountStep, PTL DEF DiscountSpec

\* Every column and every local of a request has its type.
THEOREM DiscountTypeCorrect == DiscountSpec => []DiscountTypeOK
<1>1. DiscountIInv => DiscountTypeOK
  BY DEF DiscountIInv, DiscountData, DiscountPlaces, DiscountTypeOK
<1> QED BY <1>1, DiscountsInvariant, PTL

\* Nothing up to lastApplied is skipped, however runs of processDue overlap and wherever they are
\* cut off; the dates hold to the calendar; a discount and its entry are never apart; and one
\* run at a time brings no deleted discount back.
THEOREM DiscountsAlwaysPosted == DiscountSpec => []DiscountsPosted
<1>1. ASSUME DiscountIInv PROVE DiscountsPosted
  <2>1. NothingSkipped
    <3> SUFFICES ASSUME NEW s \in DiscountSchedules, Planned(s),
                        NEW d \in OccurrencesUpTo(plan[s].start, plan[s].step, plan[s].last)
                 PROVE  [of |-> s, date |-> d] \in discount \cup worthless \cup dropped
      BY DEF NothingSkipped
    <3>1. d \in Dates(s) /\ d <= plan[s].last
      BY OccurrencesTo DEF Dates
    <3>2. DoneTo(s, plan[s].last, {})
      BY <1>1 DEF DiscountIInv, DiscountData
    <3> QED BY <3>1, <3>2 DEF DoneTo, Done
  <2>2. DaysHold
    <3> SUFFICES ASSUME NEW s \in DiscountSchedules, Planned(s)
                 PROVE  LET row == plan[s]
                            day == row.start - MonthStart[MonthOf(row.start)]
                            dates == {d \in Days : [of |-> s, date |-> d] \in discount}
                        IN  /\ \A d, e \in dates : MonthOf(d) = MonthOf(e) => d = e
                            /\ (\A m \in MonthNo : day <= MonthLength[m]) => \A d \in dates :
                                  /\ d - MonthStart[MonthOf(d)] = day
                                  /\ (MonthOf(d) - MonthOf(row.start)) % row.step = 0
      BY DEF DaysHold
    <3>1. PICK start \in Days, step \in Periods : start = plan[s].start /\ step = plan[s].step
      BY <1>1 DEF DiscountIInv, DiscountData, Planned, PlanRow
    <3>2. step \in Nat \ {0}
      BY DiscountAssumption
    <3>3. s # None
      BY DiscountAssumption
    <3>4. {d \in Days : [of |-> s, date |-> d] \in discount} \subseteq DiscountDates(start, step)
      BY <1>1, <3>1, <3>3 DEF DiscountIInv, DiscountData, Dates
    <3> QED BY <3>1, <3>2, <3>4, DatesHold
  <2> QED BY <1>1, <2>1, <2>2 DEF DiscountsPosted, DiscountIInv, DiscountData, NeverAgain
<1> QED BY <1>1, DiscountsInvariant, PTL

-----------------------------------------------------------------------------
(* Labels.  Ids are used once and a label never changes its kind, so what a *)
(* request has looked up of it holds as long as it is there.                *)

LabelPlaces == {"idle", "write", "rename", "hide", "drop"}

\* What a request under way knows of its label; of one request at a time, that nothing
\* points at what it is about to delete.
LabelKnows(l, m) ==
    /\ l = "write" => m.name \in LabelNames
    /\ l \in {"rename", "hide", "drop"} => m.of \in Labels
    /\ l \in {"write", "rename", "hide", "drop"} => m.of = None \/ m.of \in labelsMade
    /\ l = "rename" => m.name \in LabelNames /\ (IsLabel(m.of) => m.category = label[m.of].category)
    /\ l = "drop" /\ ~labelOverlap => UsesOf(m.of) = {}

LabelNamesApart ==
    \A b, c \in Labels : IsLabel(b) /\ IsLabel(c) /\ b # c /\ ~label[b].category /\ ~label[c].category =>
        label[b].name # label[c].name

LabelData ==
    /\ label \in [Labels -> LabelRow \cup {None}] /\ labelsMade \subseteq Labels
    /\ use \in [Uses -> Labels \cup {None}] /\ used \subseteq Uses
    /\ \A b \in Labels : IsLabel(b) => b \in labelsMade
    /\ \A u \in Uses : use[u] # None => IsLabel(use[u])
    /\ \A u \in used : use[u] = None => labelOverlap
    /\ LabelNamesApart

LabelIInv ==
    /\ LabelData
    /\ labelPc \in [Requests -> LabelPlaces] /\ labelMem \in [Requests -> LabelLocal]
    /\ \A r \in Requests : LabelKnows(labelPc[r], labelMem[r])
    /\ ~labelOverlap => \A r, s \in Requests : r # s => labelPc[r] = "idle" \/ labelPc[s] = "idle"

\* What the others know stays: labels are not made anew and keep their kind, and of one
\* request at a time nobody else knows anything.
LEMMA LabelMove ==
  ASSUME LabelIInv, NEW r \in Requests, NEW l \in LabelPlaces, NEW m \in LabelLocal,
         LabelGoto(r, l), LabelRemember(r, m), labelOverlap' = labelOverlap,
         ~labelOverlap => LabelsIdle \/ labelPc[r] # "idle",
         labelsMade \subseteq labelsMade',
         \A b \in labelsMade : IsLabel(b)' => IsLabel(b) /\ label'[b].category = label[b].category,
         LabelData', LabelKnows(l, m)'
  PROVE  LabelIInv'
<1>1. /\ labelPc' \in [Requests -> LabelPlaces] /\ labelMem' \in [Requests -> LabelLocal]
      /\ labelPc'[r] = l /\ labelMem'[r] = m
      /\ \A q \in Requests \ {r} : labelPc'[q] = labelPc[q] /\ labelMem'[q] = labelMem[q]
  BY DEF LabelIInv, LabelGoto, LabelRemember
<1>2. ~labelOverlap => \A q \in Requests \ {r} : labelPc[q] = "idle"
  BY DEF LabelIInv, LabelsIdle
<1>3. ASSUME NEW q \in Requests PROVE LabelKnows(labelPc[q], labelMem[q])'
  <2>1. CASE q = r
    BY <1>1, <2>1
  <2>2. CASE q # r
    <3>1. LabelKnows(labelPc[q], labelMem[q])
      BY DEF LabelIInv
    <3>2. labelPc'[q] = labelPc[q] /\ labelMem'[q] = labelMem[q] /\ (~labelOverlap => labelPc[q] = "idle")
      BY <1>1, <1>2, <2>2
    <3>3. labelPc[q] = "rename" => (labelMem[q].of \in Labels /\ labelMem[q].of # None /\ labelMem[q].of \in labelsMade)
      BY <3>1, LabelAssumption DEF LabelKnows
    <3> QED BY <3>1, <3>2, <3>3 DEF LabelKnows
  <2> QED BY <2>1, <2>2
<1>4. ~labelOverlap' => \A p, q \in Requests : p # q => labelPc'[p] = "idle" \/ labelPc'[q] = "idle"
  BY <1>1, <1>2
<1> QED BY <1>1, <1>3, <1>4 DEF LabelIInv

LEMMA LabelDataStay ==
  ASSUME LabelData, UNCHANGED <<labelRows, labelOverlap>>
  PROVE  /\ LabelData' /\ labelsMade \subseteq labelsMade'
         /\ \A b \in labelsMade : IsLabel(b)' => IsLabel(b) /\ label'[b].category = label[b].category
  BY DEF LabelData, labelRows, IsLabel, LabelNamesApart

LEMMA LabelBlankType == LabelBlank \in LabelLocal
  BY DEF LabelBlank, LabelLocal

LEMMA LabelBeginInv ==
  ASSUME LabelIInv, NEW r \in Requests,
         \/ \E n \in LabelNames, category \in BOOLEAN : BeginCreateLabel(r, n, category)
         \/ \E b \in Labels, n \in LabelNames, hidden \in BOOLEAN : BeginRename(r, b, n, hidden)
         \/ \E b \in Labels : BeginRemoveLabel(r, b)
  PROVE  LabelIInv'
<1>1. EnterLabel(r) /\ UNCHANGED <<labelRows, labelOverlap>>
  BY DEF BeginCreateLabel, BeginRename, BeginRemoveLabel
<1>2. \A b : IsLabel(b)' = IsLabel(b) /\ UsesOf(b)' = UsesOf(b)
  BY <1>1 DEF labelRows, IsLabel, UsesOf
<1>3. ASSUME NEW l \in LabelPlaces, NEW m \in LabelLocal, LabelGoto(r, l), LabelRemember(r, m), LabelKnows(l, m)
      PROVE  LabelIInv'
  <2>1. LabelKnows(l, m)'
    BY <1>1, <1>2, <1>3 DEF LabelKnows, labelRows
  <2>2. ~labelOverlap => LabelsIdle
    BY <1>1 DEF EnterLabel
  <2>3. labelOverlap' = labelOverlap /\ LabelData
    BY <1>1 DEF LabelIInv
  <2> QED BY <1>1, <1>3, <2>1, <2>2, <2>3, LabelDataStay, LabelMove
<1>4. ASSUME NEW b \in Labels, IsLabel(b) PROVE b \in labelsMade /\ label[b].category \in BOOLEAN
  BY <1>4 DEF LabelIInv, LabelData, IsLabel, LabelRow
<1>5. ASSUME NEW n \in LabelNames, NEW category \in BOOLEAN, BeginCreateLabel(r, n, category)
      PROVE  LabelIInv'
  <2>1. PICK b \in Labels \cup {None} :
          /\ LabelRemember(r, [of |-> b, name |-> n, category |-> category])
          /\ b = None \/ b \in labelsMade
    BY <1>4, <1>5 DEF BeginCreateLabel, Found, Named
  <2>2. [of |-> b, name |-> n, category |-> category] \in LabelLocal
    BY DEF LabelLocal
  <2>3. LabelKnows("write", [of |-> b, name |-> n, category |-> category])
    BY <2>1 DEF LabelKnows
  <2> QED BY <1>3, <1>5, <2>1, <2>2, <2>3 DEF BeginCreateLabel, LabelPlaces
<1>6. ASSUME NEW b \in Labels, NEW n \in LabelNames, NEW hidden \in BOOLEAN, BeginRename(r, b, n, hidden)
      PROVE  LabelIInv'
  <2> DEFINE m == [of |-> b, name |-> n, category |-> label[b].category]
  <2>1. IsLabel(b) /\ LabelRemember(r, m) /\ b \in labelsMade /\ label[b].category \in BOOLEAN
    BY <1>4, <1>6 DEF BeginRename
  <2>2. m \in LabelLocal /\ LabelKnows("rename", m) /\ LabelKnows("hide", m)
    BY <2>1 DEF LabelLocal, LabelKnows
  <2>3. LabelGoto(r, "rename") \/ LabelGoto(r, "hide")
    BY <1>6 DEF BeginRename
  <2> HIDE DEF m
  <2> QED BY <1>3, <2>1, <2>2, <2>3 DEF LabelPlaces
<1>7. ASSUME NEW b \in Labels, BeginRemoveLabel(r, b) PROVE LabelIInv'
  <2> DEFINE m == [LabelBlank EXCEPT !.of = b]
  <2>1. IsLabel(b) /\ LabelRemember(r, m) /\ b \in labelsMade
    BY <1>4, <1>7 DEF BeginRemoveLabel
  <2>2. m \in LabelLocal /\ m.of = b
    BY DEF LabelBlank, LabelLocal
  <2>3. (LabelGoto(r, "hide") /\ UsesOf(b) # {}) \/ (LabelGoto(r, "drop") /\ UsesOf(b) = {})
    BY <1>7 DEF BeginRemoveLabel, AfterUsage
  <2> HIDE DEF m
  <2>4. LabelKnows("hide", m) /\ (UsesOf(b) = {} => LabelKnows("drop", m))
    BY <2>1, <2>2 DEF LabelKnows
  <2> QED BY <1>3, <2>1, <2>2, <2>3, <2>4 DEF LabelPlaces
<1> QED BY <1>5, <1>6, <1>7

\* A request that ends knows nothing.
LEMMA LabelEnds ==
  ASSUME LabelIInv, NEW r \in Requests, labelPc[r] # "idle", LabelEnd(r), labelOverlap' = labelOverlap,
         labelsMade \subseteq labelsMade',
         \A b \in labelsMade : IsLabel(b)' => IsLabel(b) /\ label'[b].category = label[b].category,
         LabelData'
  PROVE  LabelIInv'
  BY LabelMove, LabelBlankType DEF LabelEnd, LabelKnows, LabelPlaces

\* The label b is written, anew or with another name or mark.
LEMMA LabelWritten ==
  ASSUME LabelData, NEW b \in Labels, NEW row \in LabelRow, label' = [label EXCEPT ![b] = row],
         UNCHANGED <<use, used, labelOverlap>>, labelsMade' = labelsMade \cup {b},
         ~row.category => Named(row.name, FALSE) \subseteq {b}
  PROVE  LabelData'
<1>1. /\ label' \in [Labels -> LabelRow \cup {None}] /\ label'[b] = row
      /\ \A c \in Labels \ {b} : label'[c] = label[c]
  BY DEF LabelData
<1>2. row # None /\ row.category \in BOOLEAN
  BY LabelAssumption DEF LabelRow
<1>3. ASSUME NEW c \in Labels, IsLabel(c), c # b, ~label[c].category, ~row.category
      PROVE  label[c].name # row.name
  <2>1. label[c].category = FALSE
    BY <1>3 DEF IsLabel, LabelData, LabelRow
  <2> QED BY <1>3, <2>1 DEF Named
<1>4. LabelNamesApart'
  BY <1>1, <1>2, <1>3 DEF LabelData, LabelNamesApart, IsLabel
<1>5. ASSUME NEW u \in Uses, use[u] # None PROVE label'[use[u]] # None
  <2>1. use[u] \in Labels /\ label[use[u]] # None
    BY <1>5 DEF LabelData, IsLabel
  <2> QED BY <1>1, <1>2, <2>1
<1> QED BY <1>1, <1>2, <1>4, <1>5 DEF LabelData, IsLabel

LEMMA WriteLabelInv ==
  ASSUME LabelIInv, NEW r \in Requests, WriteLabel(r)
  PROVE  LabelIInv'
<1>0. PICK m : m = labelMem[r]
  OBVIOUS
<1>1. /\ labelPc[r] = "write" /\ m \in LabelLocal /\ m.name \in LabelNames /\ m.category \in BOOLEAN
      /\ m.of = None \/ m.of \in labelsMade
      /\ LabelEnd(r) /\ UNCHANGED <<use, used, labelOverlap>> /\ LabelData
  BY <1>0 DEF WriteLabel, LabelIInv, LabelKnows, LabelLocal
<1>2. CASE /\ m.of # None /\ IsLabel(m.of)
           /\ label' = [label EXCEPT ![m.of].hidden = FALSE] /\ UNCHANGED labelsMade
  <2> DEFINE b == m.of
             row == [label[b] EXCEPT !.hidden = FALSE]
  <2>1. b \in Labels /\ b \in labelsMade /\ label[b] \in LabelRow
    BY <1>1, <1>2 DEF LabelData, IsLabel
  <2>2. row \in LabelRow /\ row.name = label[b].name /\ row.category = label[b].category
    BY <2>1 DEF LabelRow
  <2>3. label' = [label EXCEPT ![b] = row] /\ labelsMade' = labelsMade \cup {b}
    BY <1>2, <2>1
  <2> HIDE DEF row
  <2>4. ~row.category => Named(row.name, FALSE) \subseteq {b}
    BY <1>1, <1>2, <2>1, <2>2 DEF Named, LabelData, LabelNamesApart
  <2>5. LabelData'
    BY <1>1, <2>1, <2>2, <2>3, <2>4, LabelWritten
  <2>6. \A c \in labelsMade : IsLabel(c)' => IsLabel(c) /\ label'[c].category = label[c].category
    BY <1>1, <1>2, <2>1, <2>2, <2>3 DEF LabelData, IsLabel
  <2> QED BY <1>1, <1>2, <2>5, <2>6, LabelEnds
<1>3. ASSUME m.category \/ Named(m.name, FALSE) = {}, NEW b \in Labels \ labelsMade,
             label' = [label EXCEPT ![b] = [name |-> m.name, category |-> m.category, hidden |-> FALSE]],
             labelsMade' = labelsMade \cup {b}
      PROVE  LabelIInv'
  <2> DEFINE row == [name |-> m.name, category |-> m.category, hidden |-> FALSE]
  <2>1. row \in LabelRow /\ row.name = m.name /\ row.category = m.category
    BY <1>1 DEF LabelRow
  <2>2. label' = [label EXCEPT ![b] = row]
    BY <1>3
  <2> HIDE DEF row
  <2>3. LabelData'
    BY <1>1, <1>3, <2>1, <2>2, LabelWritten
  <2>4. \A c \in labelsMade : IsLabel(c)' => IsLabel(c) /\ label'[c].category = label[c].category
    BY <1>1, <1>3, <2>2 DEF LabelData, IsLabel
  <2> QED BY <1>1, <1>3, <2>3, <2>4, LabelEnds
<1> QED BY <1>0, <1>2, <1>3 DEF WriteLabel

LEMMA RenameInv ==
  ASSUME LabelIInv, NEW r \in Requests, Rename(r)
  PROVE  LabelIInv'
<1>0. PICK m : m = labelMem[r]
  OBVIOUS
<1> DEFINE b == m.of
           row == [label[b] EXCEPT !.name = m.name]
<1>1. /\ labelPc[r] = "rename" /\ m \in LabelLocal /\ m.name \in LabelNames
      /\ b \in Labels /\ IsLabel(b) /\ m.category = label[b].category
      /\ m.category \/ Named(m.name, FALSE) \subseteq {b}
      /\ label' = [label EXCEPT ![b].name = m.name]
      /\ LabelEnd(r) /\ UNCHANGED <<labelsMade, use, used, labelOverlap>> /\ LabelData
  BY <1>0 DEF Rename, LabelIInv, LabelKnows
<1>2. b \in labelsMade /\ label[b] \in LabelRow
  BY <1>1 DEF LabelData, IsLabel
<1>3. row \in LabelRow /\ row.name = m.name /\ row.category = label[b].category
  BY <1>1, <1>2 DEF LabelRow
<1>4. label' = [label EXCEPT ![b] = row] /\ labelsMade' = labelsMade \cup {b}
  BY <1>1, <1>2
<1> HIDE DEF row
<1>5. ~row.category => Named(row.name, FALSE) \subseteq {b}
  BY <1>1, <1>3
<1>6. LabelData'
  BY <1>1, <1>3, <1>4, <1>5, LabelWritten
<1>7. \A c \in labelsMade : IsLabel(c)' => IsLabel(c) /\ label'[c].category = label[c].category
  BY <1>1, <1>2, <1>3, <1>4 DEF LabelData, IsLabel
<1> QED BY <1>1, <1>6, <1>7, LabelEnds

LEMMA HideLabelInv ==
  ASSUME LabelIInv, NEW r \in Requests, HideLabel(r)
  PROVE  LabelIInv'
<1>0. PICK b : b = labelMem[r].of
  OBVIOUS
<1> DEFINE row == [label[b] EXCEPT !.hidden = TRUE]
<1>1. /\ labelPc[r] = "hide" /\ b \in Labels /\ IsLabel(b)
      /\ label' = [label EXCEPT ![b].hidden = TRUE]
      /\ LabelEnd(r) /\ UNCHANGED <<labelsMade, use, used, labelOverlap>> /\ LabelData
  BY <1>0 DEF HideLabel, LabelIInv, LabelKnows
<1>2. b \in labelsMade /\ label[b] \in LabelRow
  BY <1>1 DEF LabelData, IsLabel
<1>3. row \in LabelRow /\ row.name = label[b].name /\ row.category = label[b].category
  BY <1>2 DEF LabelRow
<1>4. label' = [label EXCEPT ![b] = row] /\ labelsMade' = labelsMade \cup {b}
  BY <1>1, <1>2
<1> HIDE DEF row
<1>5. ~row.category => Named(row.name, FALSE) \subseteq {b}
  BY <1>1, <1>3 DEF Named, LabelData, LabelNamesApart
<1>6. LabelData'
  BY <1>1, <1>3, <1>4, <1>5, LabelWritten
<1>7. \A c \in labelsMade : IsLabel(c)' => IsLabel(c) /\ label'[c].category = label[c].category
  BY <1>1, <1>2, <1>3, <1>4 DEF LabelData, IsLabel
<1> QED BY <1>1, <1>6, <1>7, LabelEnds

\* Of one request at a time the rows looked up are all there are, so no use loses its label.
LEMMA DropLabelInv ==
  ASSUME LabelIInv, NEW r \in Requests, DropLabel(r)
  PROVE  LabelIInv'
<1>0. PICK b : b = labelMem[r].of
  OBVIOUS
<1>1. /\ labelPc[r] = "drop" /\ b \in Labels /\ IsLabel(b)
      /\ label' = [label EXCEPT ![b] = None]
      /\ use' = [u \in Uses |-> IF use[u] = b THEN None ELSE use[u]]
      /\ LabelEnd(r) /\ UNCHANGED <<labelsMade, used, labelOverlap>> /\ LabelData
      /\ ~labelOverlap => UsesOf(b) = {}
  BY <1>0 DEF DropLabel, LabelIInv, LabelKnows
<1>2. /\ label' \in [Labels -> LabelRow \cup {None}] /\ use' \in [Uses -> Labels \cup {None}]
      /\ label'[b] = None /\ \A c \in Labels \ {b} : label'[c] = label[c]
  BY <1>1 DEF LabelData
<1>3. LabelNamesApart'
  BY <1>1, <1>2 DEF LabelData, LabelNamesApart, IsLabel
<1>4. ASSUME NEW u \in Uses, use'[u] # None PROVE label'[use'[u]] # None
  <2>1. use'[u] = use[u] /\ use[u] \in Labels /\ use[u] # b /\ label[use[u]] # None
    BY <1>1, <1>2, <1>4 DEF LabelData, IsLabel
  <2> QED BY <1>2, <2>1
<1>5. \A u \in used : use'[u] = None => labelOverlap
  BY <1>1 DEF LabelData, UsesOf
<1>6. LabelData'
  BY <1>1, <1>2, <1>3, <1>4, <1>5 DEF LabelData, IsLabel
<1>7. \A c \in labelsMade : IsLabel(c)' => IsLabel(c) /\ label'[c].category = label[c].category
  BY <1>1, <1>2 DEF LabelData, IsLabel
<1> QED BY <1>1, <1>6, <1>7, LabelEnds

LEMMA UseLabelInv ==
  ASSUME LabelIInv, NEW u \in Uses, NEW b \in Labels, UseLabel(u, b)
  PROVE  LabelIInv'
<1>1. /\ labelOverlap \/ LabelsIdle
      /\ IsLabel(b) /\ use' = [use EXCEPT ![u] = b] /\ used' = used \cup {u}
      /\ UNCHANGED <<label, labelsMade, labelPc, labelMem, labelOverlap>> /\ LabelData
  BY DEF UseLabel, LabelIInv
<1>2. /\ use' \in [Uses -> Labels \cup {None}] /\ use'[u] = b
      /\ \A v \in Uses \ {u} : use'[v] = use[v]
  BY <1>1 DEF LabelData
<1>3. ASSUME NEW v \in Uses, use'[v] # None PROVE label[use'[v]] # None
  <2>1. CASE v = u
    BY <1>1, <1>2, <2>1 DEF IsLabel
  <2>2. CASE v # u
    <3>1. use'[v] = use[v]
      BY <1>2, <2>2
    <3> QED BY <1>1, <1>3, <3>1 DEF LabelData, IsLabel
  <2> QED BY <2>1, <2>2
<1>4. \A v \in used' : use'[v] = None => labelOverlap
  BY <1>1, <1>2, LabelAssumption DEF LabelData
<1>5. LabelData'
  BY <1>1, <1>2, <1>3, <1>4 DEF LabelData, IsLabel, LabelNamesApart
<1>6. ASSUME NEW q \in Requests PROVE LabelKnows(labelPc[q], labelMem[q])'
  <2>1. LabelKnows(labelPc[q], labelMem[q]) /\ (~labelOverlap => labelPc[q] = "idle")
    BY <1>1 DEF LabelIInv, LabelsIdle
  <2> QED BY <1>1, <2>1 DEF LabelKnows, IsLabel
<1> QED BY <1>1, <1>5, <1>6 DEF LabelIInv

LEMMA RefuseLabelInv ==
  ASSUME LabelIInv, NEW r \in Requests, RefuseLabel(r)
  PROVE  LabelIInv'
<1>1. labelPc[r] # "idle" /\ LabelEnd(r) /\ UNCHANGED <<labelRows, labelOverlap>>
  BY DEF RefuseLabel, LabelRefused
<1> QED BY <1>1, LabelDataStay, LabelEnds DEF LabelIInv

LEMMA LabelInitInv == LabelInit => LabelIInv
<1> SUFFICES ASSUME LabelInit PROVE LabelIInv
  OBVIOUS
<1>1. LabelData
  BY DEF LabelInit, LabelData, LabelNamesApart, IsLabel
<1>2. \A r \in Requests : LabelKnows(labelPc[r], labelMem[r])
  BY DEF LabelInit, LabelKnows
<1> QED BY <1>1, <1>2, LabelBlankType DEF LabelInit, LabelIInv, LabelPlaces

LEMMA LabelNextInv == LabelIInv /\ [LabelNext]_labelVars => LabelIInv'
<1> SUFFICES ASSUME LabelIInv, [LabelNext]_labelVars PROVE LabelIInv'
  OBVIOUS
<1>1. CASE LabelNext
  BY <1>1, UseLabelInv, WriteLabelInv, RenameInv, HideLabelInv, DropLabelInv, RefuseLabelInv,
     LabelBeginInv
     DEF LabelNext
<1>2. CASE UNCHANGED labelVars
  BY <1>2 DEF labelVars, labelRows, LabelIInv, LabelData, LabelNamesApart, LabelKnows, IsLabel, UsesOf
<1> QED BY <1>1, <1>2

LEMMA LabelsInvariant == LabelSpec => []LabelIInv
  BY LabelInitInv, LabelNextInv, PTL DEF LabelSpec

\* Charge types and categories, and what requests hold of them, always have their types
\* (charge-types.repository.ts, expense-categories.repository.ts).
THEOREM LabelTypeCorrect == LabelSpec => []LabelTypeOK
<1>1. LabelIInv => LabelTypeOK
  BY DEF LabelIInv, LabelData, LabelPlaces, LabelTypeOK
<1> QED BY <1>1, LabelsInvariant, PTL

\* A charge keeps its type through every removal and revival, an entry its category when
\* requests come one at a time, and two charge types never have one name, for any number
\* of labels, uses and requests in any order (charge-types.service.ts: remove).
THEOREM LabelsAlwaysKept == LabelSpec => []LabelsKept
<1>1. LabelIInv => LabelsKept
  BY DEF LabelIInv, LabelData, LabelNamesApart, LabelsKept
<1> QED BY <1>1, LabelsInvariant, PTL

-----------------------------------------------------------------------------
(* Products.  A merge reads and writes in one commit; what it relies on is  *)
(* that a product is on a paper once and that no line points at a product   *)
(* that is gone, whatever is merged, archived or removed around it.         *)

ProductPlaces == {"idle", "merge", "archive", "adjustments", "loans", "product"}
ProductLocal == [of : Products \cup {None}, from : SUBSET Products]

ProductKnows(l, m) == (l # "idle" => m.of \in Products) /\ (l = "merge" => m.of \notin m.from)

LinesKnown == \A l \in Lines : line[l] # None => product[line[l].product] # None
\* only the entries of price lists have prices
LinesFit ==
    \A l \in Lines : line[l] # None =>
        /\ line[l].kind \in Keyed => line[l].paper \in Papers
        /\ line[l].kind # "listItem" => line[l].price = 0
KeyedOnce ==
    \A k, l \in Lines :
        /\ line[k] # None /\ line[l] # None
        /\ line[k].kind \in Keyed /\ line[k].kind = line[l].kind
        /\ line[k].product = line[l].product /\ line[k].paper = line[l].paper
        => k = l

ProductData ==
    /\ product \in [Products -> ProductRow \cup {None}]
    /\ line \in [Lines -> LineRow \cup {None}]
    /\ LinesKnown /\ LinesFit /\ KeyedOnce

ProductIInv ==
    /\ ProductData
    /\ prodPc \in [Requests -> ProductPlaces] /\ prodMem \in [Requests -> ProductLocal]
    /\ \A r \in Requests : ProductKnows(prodPc[r], prodMem[r])

LEMMA ProductMove ==
  ASSUME ProductIInv, NEW r \in Requests, NEW l \in ProductPlaces, NEW m \in ProductLocal,
         ProductGoto(r, l), ProductRemember(r, m), ProductKnows(l, m), ProductData'
  PROVE  ProductIInv'
<1>1. /\ prodPc' \in [Requests -> ProductPlaces] /\ prodMem' \in [Requests -> ProductLocal]
      /\ prodPc'[r] = l /\ prodMem'[r] = m
      /\ \A q \in Requests \ {r} : prodPc'[q] = prodPc[q] /\ prodMem'[q] = prodMem[q]
  BY DEF ProductIInv, ProductGoto, ProductRemember
<1>2. \A q \in Requests : ProductKnows(prodPc'[q], prodMem'[q])
  BY <1>1 DEF ProductIInv
<1> QED BY <1>1, <1>2 DEF ProductIInv, ProductKnows

LEMMA ProductEnds ==
  ASSUME ProductIInv, NEW r \in Requests, ProductEnd(r), ProductData'
  PROVE  ProductIInv' /\ prodPc'[r] = "idle"
<1>1. ProductBlank \in ProductLocal /\ ProductKnows("idle", ProductBlank) /\ "idle" \in ProductPlaces
  BY DEF ProductBlank, ProductLocal, ProductKnows, ProductPlaces
<1> QED BY <1>1, ProductMove DEF ProductEnd, ProductGoto, ProductIInv

LEMMA ProductDataStay ==
  ASSUME ProductData, UNCHANGED productRows
  PROVE  ProductData'
  BY DEF ProductData, productRows, LinesKnown, LinesFit, KeyedOnce

\* Lines taken away leave no line pointing anywhere else.
LEMMA LinesTaken ==
  ASSUME ProductData, NEW ls \in SUBSET Lines, line' = WithoutLines(ls),
         product' \in [Products -> ProductRow \cup {None}],
         \A l \in Lines \ ls : line[l] # None => product'[line[l].product] # None
  PROVE  /\ ProductData'
         /\ \A l \in Lines \ ls : line'[l] = line[l]
<1>1. /\ \A l \in ls : line'[l] = None
      /\ \A l \in Lines \ ls : line'[l] = line[l]
      /\ line' \in [Lines -> LineRow \cup {None}]
  BY DEF WithoutLines, ProductData
<1>2. LinesKnown' /\ LinesFit' /\ KeyedOnce'
  BY <1>1 DEF ProductData, LinesKnown, LinesFit, KeyedOnce
<1> QED BY <1>1, <1>2 DEF ProductData

\* A product that stays known is changed.
LEMMA ProductChanged ==
  ASSUME ProductData, NEW p \in Products, NEW row \in ProductRow, product' = [product EXCEPT ![p] = row],
         UNCHANGED line
  PROVE  ProductData'
<1>1. product' \in [Products -> ProductRow \cup {None}] /\ product'[p] # None
      /\ \A q \in Products \ {p} : product'[q] = product[q]
  BY ProductAssumption DEF ProductData
<1>2. ASSUME NEW l \in Lines, line[l] # None PROVE product'[line[l].product] # None
  <2>1. line[l].product \in Products /\ product[line[l].product] # None
    BY <1>2 DEF ProductData, LinesKnown, LineRow
  <2> QED BY <1>1, <2>1
<1> QED BY <1>1, <1>2 DEF ProductData, LinesKnown, LinesFit, KeyedOnce

LEMMA WriteLineData ==
  ASSUME ProductData, NEW l \in Lines, NEW kind \in LineKinds, NEW p \in Products,
         NEW paper \in Papers \cup {None}, NEW price \in Prices, WriteLine(l, kind, p, paper, price)
  PROVE  ProductData'
<1> DEFINE row == [kind |-> kind, product |-> p, paper |-> paper, price |-> price]
<1>1. /\ row \in LineRow /\ row # None
      /\ row.kind = kind /\ row.product = p /\ row.paper = paper /\ row.price = price
  BY ProductAssumption DEF LineRow
<1>2. /\ Known(p) /\ product' = product /\ line' = [line EXCEPT ![l] = row]
      /\ kind \in Keyed => paper # None
      /\ kind # "listItem" => price = 0
      /\ kind \in Keyed => \A k \in LinesOf({p}, {kind}) : line[k].paper # paper
  BY DEF WriteLine
<1> HIDE DEF row
<1>3. /\ line' \in [Lines -> LineRow \cup {None}] /\ line'[l] = row
      /\ \A k \in Lines \ {l} : line'[k] = line[k]
  BY <1>1, <1>2 DEF ProductData
<1>4. LinesKnown' /\ LinesFit'
  BY <1>1, <1>2, <1>3 DEF ProductData, LinesKnown, LinesFit, Known
<1>5. ASSUME NEW k \in Lines \ {l}, line[k] # None, line[k].kind \in Keyed, line[k].kind = kind,
             line[k].product = p, line[k].paper = paper
      PROVE  FALSE
  BY <1>2, <1>5 DEF LinesOf
<1>6. KeyedOnce'
  BY <1>1, <1>3, <1>5 DEF ProductData, KeyedOnce
<1> QED BY <1>2, <1>3, <1>4, <1>6 DEF ProductData

-----------------------------------------------------------------------------
(* Merging.                                                                *)

\* The price of an entry that stays is its own if it has one, and is positive if one
\* of them was.
LEMMA PricesFilledFacts ==
  ASSUME ProductData, NEW own \in SUBSET Lines, NEW others \in SUBSET Lines,
         \A l \in own \cup others : line[l] # None,
         NEW v \in PricesFilled(own, others)
  PROVE  /\ \A l \in Lines : own = {l} /\ line[l].price > 0 => v = line[l].price
         /\ \A l \in own \cup others : line[l].price > 0 => v > 0
         /\ v \in Prices
<1>1. \A l \in own \cup others : line[l].price \in Prices
  BY DEF ProductData, LineRow
<1>2. CASE Positive(own) # {}
  <2>1. PICK k \in own : line[k].price > 0 /\ v = line[k].price
    BY <1>2 DEF PricesFilled, Positive
  <2> QED BY <1>1, <2>1
<1>3. CASE Positive(own) = {} /\ Positive(others) # {}
  <2>1. PICK k \in others : line[k].price > 0 /\ v = line[k].price
    BY <1>3 DEF PricesFilled, Positive
  <2> QED BY <1>1, <1>3, <2>1 DEF Positive
<1>4. CASE Positive(own) = {} /\ Positive(others) = {}
  BY <1>4, ProductAssumption DEF PricesFilled, Positive
<1> QED BY <1>2, <1>3, <1>4

\* What a merge has written of each line.
LEMMA MergedLineFacts ==
  ASSUME ProductData, NEW t \in Products, NEW S \in SUBSET Products, t \notin S,
         NEW stays, NEW priced \in [Papers -> Prices],
         NEW l \in Lines, line' = MergedLines(t, S, stays, priced)
  PROVE  /\ line[l] = None => line'[l] = None
         /\ line[l] # None =>
            /\ line[l].kind \in Keyed /\ line[l].product \in S \cup {t} =>
                 IF l = stays[line[l].kind][line[l].paper]
                 THEN /\ line'[l] \in LineRow
                      /\ line'[l].kind = line[l].kind /\ line'[l].paper = line[l].paper /\ line'[l].product = t
                      /\ line'[l].price = IF line[l].kind = "listItem" THEN priced[line[l].paper] ELSE line[l].price
                 ELSE line'[l] = None
            /\ line[l].kind \notin Keyed /\ line[l].kind \in Moved /\ line[l].product \in S =>
                 /\ line'[l] \in LineRow
                 /\ line'[l].kind = line[l].kind /\ line'[l].paper = line[l].paper /\ line'[l].product = t
                 /\ line'[l].price = line[l].price
            /\ line[l].kind \notin Keyed /\ line[l].kind \notin Moved /\ line[l].product \in S => line'[l] = None
            /\ line[l].product \notin S /\ (line[l].product # t \/ line[l].kind \notin Keyed) => line'[l] = line[l]
<1>1. CASE line[l] = None
  BY <1>1 DEF MergedLines
<1>2. CASE line[l] # None
  <2>1. PICK x \in LineRow : x = line[l] /\ (x.kind \in Keyed => x.paper \in Papers)
    BY <1>2 DEF ProductData, LinesFit
  <2>2. PICK w : w = stays[x.kind][x.paper]
    OBVIOUS
  <2>3. PICK v : v = IF x.kind = "listItem" THEN priced[x.paper] ELSE x.price
    OBVIOUS
  <2>4. x.kind \in Keyed => v \in Prices
    BY <2>1, <2>3 DEF LineRow, Keyed
  <2>5. line'[l] =
             IF x.kind \in Keyed /\ x.product \in S \cup {t} THEN
                 IF l = w THEN [x EXCEPT !.product = t, !.price = v] ELSE None
             ELSE IF x.product \notin S THEN x
             ELSE IF x.kind \in Moved THEN [x EXCEPT !.product = t]
             ELSE None
    BY <1>2, <2>1, <2>2, <2>3, Zenon DEF MergedLines
  <2>6. CASE x.kind \in Keyed /\ x.product \in S \cup {t}
    <3>1. l # w => line'[l] = None
      BY <2>5, <2>6
    <3>2. ASSUME l = w
          PROVE  /\ line'[l] \in LineRow /\ line'[l].kind = x.kind /\ line'[l].paper = x.paper
                 /\ line'[l].product = t /\ line'[l].price = v
      <4>1. line'[l] = [x EXCEPT !.product = t, !.price = v]
        BY <2>5, <2>6, <3>2
      <4> QED BY <4>1, <2>4, <2>6 DEF LineRow
    <3> QED BY <1>2, <2>1, <2>2, <2>3, <2>6, <3>1, <3>2
  <2>7. CASE ~(x.kind \in Keyed /\ x.product \in S \cup {t})
    <3>1. x.product \in S /\ x.kind \in Moved =>
            /\ line'[l] \in LineRow /\ line'[l].kind = x.kind /\ line'[l].paper = x.paper
            /\ line'[l].product = t /\ line'[l].price = x.price
      <4>1. x.product \in S /\ x.kind \in Moved => line'[l] = [x EXCEPT !.product = t]
        BY <2>5, <2>7
      <4> QED BY <4>1 DEF LineRow
    <3> QED BY <1>2, <2>1, <2>5, <2>7, <3>1
  <2> QED BY <2>6, <2>7
<1> QED BY <1>1, <1>2

LEMMA MergeInv ==
  ASSUME ProductIInv, NEW r \in Requests, Merge(r)
  PROVE  ProductIInv' /\ MergeKept
<1>0. /\ prodPc[r] = "merge" /\ prodMem[r].of \in Products /\ prodMem[r].of \notin prodMem[r].from
      /\ prodMem[r].from \subseteq Products /\ product[prodMem[r].of] # None /\ ProductEnd(r) /\ ProductData
  BY DEF Merge, ProductIInv, ProductKnows, ProductLocal, Known
<1>1. PICK t \in Products : t = prodMem[r].of
  BY <1>0
<1>2. PICK S \in SUBSET Products : S = {p \in prodMem[r].from : Known(p)}
  BY <1>0
<1>3. t \notin S /\ product[t] # None
  BY <1>0, <1>1, <1>2
<1>4. PICK stays \in [Keyed -> [Papers -> Lines \cup {None}]], priced \in [Papers -> Prices] :
        /\ \A k \in Keyed, paper \in Papers :
             LET may == Stayers(OnPaper({t}, k, paper), OnPaper(S, k, paper)) IN
             may # {} => stays[k][paper] \in may
        /\ \A paper \in Papers :
             priced[paper] \in PricesFilled(OnPaper({t}, "listItem", paper), OnPaper(S, "listItem", paper))
        /\ line' = MergedLines(t, S, stays, priced)
  BY <1>1, <1>2, Zenon DEF Merge
<1>5. /\ product' \in [Products -> ProductRow \cup {None}]
      /\ \A p \in S : product'[p] = None
      /\ \A p \in Products \ (S \cup {t}) : product'[p] = product[p]
      /\ product'[t] # None
      /\ product[t].price > 0 => product'[t].price = product[t].price
      /\ (\E p \in S \cup {t} : product[p].price > 0) => product'[t].price > 0
  <2>1. PICK price \in Prices :
          /\ IF product[t].price > 0 \/ {product[p].price : p \in S} \ {0} = {} THEN price = product[t].price
             ELSE price \in {product[p].price : p \in S} \ {0}
          /\ product' = [p \in Products |-> IF p \in S THEN None
                            ELSE IF p = t THEN [product[p] EXCEPT !.price = price] ELSE product[p]]
    BY <1>1, <1>2, Zenon DEF Merge
  <2>2. \A p \in S \cup {t} : product[p] \in ProductRow /\ product[p].price \in Nat
    BY <1>0, <1>2, <1>3, ProductAssumption DEF ProductData, ProductRow, Known
  <2>3. [product[t] EXCEPT !.price = price] \in ProductRow /\ [product[t] EXCEPT !.price = price].price = price
    BY <2>2 DEF ProductRow
  <2>4. /\ product'[t] = [product[t] EXCEPT !.price = price]
        /\ product' \in [Products -> ProductRow \cup {None}]
        /\ \A p \in S : product'[p] = None
        /\ \A p \in Products \ (S \cup {t}) : product'[p] = product[p]
    BY <1>0, <1>3, <2>1, <2>3 DEF ProductData
  <2>5. (\E p \in S \cup {t} : product[p].price > 0) => price > 0
    <3>1. ASSUME NEW p \in S, product[p].price > 0
          PROVE  product[p].price \in {product[q].price : q \in S} \ {0}
      BY <3>1, <2>2
    <3>2. \A v \in {product[p].price : p \in S} \ {0} : v > 0
      BY <2>2
    <3> QED BY <2>1, <2>2, <3>1, <3>2
  <2>6. product[t].price > 0 => price = product[t].price
    BY <2>1
  <2> QED BY <2>3, <2>4, <2>5, <2>6, ProductAssumption
<1>6. ASSUME NEW l \in Lines, line[l] # None
      PROVE  /\ line[l] \in LineRow
             /\ line[l].kind \in Keyed /\ line[l].product \in S \cup {t} =>
                  IF l = stays[line[l].kind][line[l].paper]
                  THEN /\ line'[l] \in LineRow
                       /\ line'[l].kind = line[l].kind /\ line'[l].paper = line[l].paper /\ line'[l].product = t
                       /\ line'[l].price = IF line[l].kind = "listItem" THEN priced[line[l].paper] ELSE line[l].price
                  ELSE line'[l] = None
             /\ line[l].kind \notin Keyed /\ line[l].kind \in Moved /\ line[l].product \in S =>
                  /\ line'[l] \in LineRow
                  /\ line'[l].kind = line[l].kind /\ line'[l].paper = line[l].paper /\ line'[l].product = t
                  /\ line'[l].price = line[l].price
             /\ line[l].kind \notin Keyed /\ line[l].kind \notin Moved /\ line[l].product \in S => line'[l] = None
             /\ line[l].product \notin S /\ (line[l].product # t \/ line[l].kind \notin Keyed) => line'[l] = line[l]
  BY <1>0, <1>3, <1>4, <1>6, MergedLineFacts DEF ProductData
<1>7. \A l \in Lines : line[l] = None => line'[l] = None
  BY <1>4 DEF MergedLines
<1>8. ASSUME NEW l \in Lines, line'[l] # None
      PROVE  /\ line[l] # None /\ line'[l] \in LineRow
             /\ line'[l].kind = line[l].kind /\ line'[l].paper = line[l].paper
             /\ line[l].kind # "listItem" => line'[l].price = line[l].price
             /\ IF line[l].product \in S \cup {t} THEN line'[l].product = t
                ELSE line'[l].product = line[l].product
             /\ line[l].kind \in Keyed /\ line[l].product \in S \cup {t} => l = stays[line[l].kind][line[l].paper]
  BY <1>6, <1>7, <1>8
<1>9. ProductData'
  <2>1. line' \in [Lines -> LineRow \cup {None}]
    <3>1. line' = [l \in Lines |-> line'[l]]
      BY <1>4 DEF MergedLines
    <3> QED BY <1>8, <3>1
  <2>2. ASSUME NEW l \in Lines, line'[l] # None PROVE product'[line'[l].product] # None
    <3>1. line[l].product \in Products /\ product[line[l].product] # None
      BY <1>0, <1>6, <1>8, <2>2 DEF ProductData, LinesKnown, LineRow
    <3> QED BY <1>5, <1>8, <2>2, <3>1
  <2>3. LinesFit'
    BY <1>0, <1>8 DEF ProductData, LinesFit
  <2>4. KeyedOnce'
    BY <1>0, <1>3, <1>8 DEF ProductData, KeyedOnce
  <2> QED BY <1>5, <2>1, <2>2, <2>3, <2>4 DEF ProductData, LinesKnown
<1>10. LinesStay
  <2> SUFFICES ASSUME NEW l \in Lines, line[l] # None, line[l].kind \in {"invoiceItem", "dealItem", "returnItem"}
               PROVE  line'[l] # None /\ product'[line'[l].product] # None
    BY DEF LinesStay
  <2>1. line[l].kind \notin Keyed /\ line[l].kind \in Moved
    BY DEF Keyed, Moved
  <2>2. line'[l] # None
    BY <1>6, <2>1, ProductAssumption
  <2> QED BY <1>9, <2>2 DEF ProductData, LinesKnown
<1>11. ASSUME NEW k \in Keyed, NEW paper \in Papers PROVE KeyedMerged(t, S \cup {t}, k, paper)
  <2> DEFINE own == OnPaper({t}, k, paper)
             others == OnPaper(S, k, paper)
             before == OnPaper(S \cup {t}, k, paper)
             after == {l \in Lines : line'[l] # None /\ line'[l].product \in S \cup {t}
                                     /\ line'[l].kind = k /\ line'[l].paper = paper}
             w == stays[k][paper]
  <2>1. before = own \cup others
    BY DEF OnPaper, LinesOf
  <2>2. \A l \in before : /\ l \in Lines /\ line[l] # None /\ line[l].kind = k /\ line[l].paper = paper
                          /\ line[l].product \in S \cup {t}
    BY DEF OnPaper, LinesOf
  <2>3. after \subseteq before
    BY <1>8 DEF OnPaper, LinesOf
  <2>4. \A l \in after : l = w
    BY <1>8, <2>2, <2>3
  <2>5. CASE before = {}
    BY <2>3, <2>5 DEF KeyedMerged
  <2>6. CASE before # {}
    <3>1. w \in Stayers(own, others)
      BY <1>4, <2>1, <2>6 DEF Stayers
    <3>2. w \in before /\ (own # {} => w \in own)
      BY <2>1, <3>1 DEF Stayers
    <3>3. /\ line'[w] \in LineRow /\ line'[w].kind = k /\ line'[w].paper = paper /\ line'[w].product = t
          /\ line'[w].price = IF k = "listItem" THEN priced[paper] ELSE line[w].price
      BY <1>6, <2>2, <3>2
    <3>4. after = {w}
      BY <2>2, <2>4, <3>2, <3>3, ProductAssumption
    <3>5. own # {} => own = {w}
      <4>1. ASSUME NEW l \in own PROVE l = w
        BY <1>0, <3>2, <4>1 DEF OnPaper, LinesOf, ProductData, KeyedOnce
      <4> QED BY <3>2, <4>1
    <3>6. CASE k = "listItem"
      <4>1. /\ own \in SUBSET Lines /\ others \in SUBSET Lines
            /\ \A l \in own \cup others : line[l] # None
        BY DEF OnPaper, LinesOf
      <4>2. priced[paper] \in PricesFilled(own, others)
        BY <1>4, <3>6
      <4> HIDE DEF own, others, before, after, w
      <4>3. /\ \A l \in Lines : own = {l} /\ line[l].price > 0 => priced[paper] = line[l].price
            /\ \A l \in own \cup others : line[l].price > 0 => priced[paper] > 0
        <5>1. ProductData
          BY <1>0
        <5> QED BY <5>1, <4>1, <4>2, PricesFilledFacts
      <4>4. w \in Positive(own) => line'[w].price = line[w].price
        BY <2>2, <3>2, <3>3, <3>5, <3>6, <4>3 DEF Positive
      <4>5. Positive(before) # {} => line'[w].price > 0
        BY <2>1, <3>3, <3>6, <4>3 DEF Positive
      <4> QED BY <2>2, <3>2, <3>3, <3>4, <4>4, <4>5, <2>6 DEF KeyedMerged, own, before, after
    <3>7. CASE k # "listItem"
      <4>1. \A l \in before : line[l].price = 0
        BY <1>0, <2>2, <3>7 DEF ProductData, LinesFit
      <4> HIDE DEF before
      <4>2. Positive(before) = {}
        BY <4>1 DEF Positive
      <4> USE DEF before
      <4> QED BY <2>2, <2>6, <3>2, <3>3, <3>4, <3>7, <4>2 DEF KeyedMerged
    <3> QED BY <3>6, <3>7
  <2> QED BY <2>5, <2>6
<1>12. \A l \in LinesOf(S \cup {t}, Moved) : line'[l] # None /\ line'[l].product = t
  <2> SUFFICES ASSUME NEW l \in LinesOf(S \cup {t}, Moved) PROVE line'[l] # None /\ line'[l].product = t
    OBVIOUS
  <2>1. l \in Lines /\ line[l] # None /\ line[l].product \in S \cup {t} /\ line[l].kind \in Moved /\ line[l].kind \notin Keyed
    BY DEF LinesOf, Moved, Keyed
  <2> QED BY <1>3, <1>6, <2>1, ProductAssumption
<1>13. Merged(t, S \cup {t})
  BY <1>5, <1>11, <1>12 DEF Merged
<1>14. ProductIInv' /\ \A q \in Requests \ {r} : prodPc'[q] = prodPc[q]
  BY <1>0, <1>9, ProductEnds DEF ProductEnd, ProductGoto, ProductIInv
<1>15. ASSUME NEW q \in Requests, prodPc[q] = "merge", prodPc'[q] = "idle"
       PROVE  Merged(prodMem[q].of, {p \in prodMem[q].from : Known(p)} \cup {prodMem[q].of})
  <2>1. q = r
    BY <1>14, <1>15
  <2> QED BY <1>1, <1>2, <1>13, <2>1
<1> QED BY <1>10, <1>14, <1>15, Zenon DEF MergeKept

-----------------------------------------------------------------------------
(* The other requests.                                                     *)

\* A step that is not a merge keeps the lines of goods.
LEMMA NoMerge ==
  ASSUME ProductIInv',
         \A l \in Lines : line[l] # None /\ line[l].kind \in {"invoiceItem", "dealItem", "returnItem"} =>
             line'[l] # None,
         \A r \in Requests : prodPc[r] = "merge" /\ prodPc'[r] = "idle" => product' = product
  PROVE  MergeKept
<1>1. LinesStay
  BY DEF LinesStay, ProductIInv, ProductData, LinesKnown
<1> QED BY <1>1, Zenon DEF MergeKept

LEMMA ProductFormInv ==
  ASSUME ProductIInv, NEW p \in Products, NEW form \in ProductForms, CreateProduct(p, form) \/ UpdateProduct(p, form)
  PROVE  ProductIInv' /\ MergeKept
<1>1. PICK row \in ProductRow : product' = [product EXCEPT ![p] = row]
  <2>1. CASE CreateProduct(p, form)
    <3>1. [service |-> form.service, price |-> form.price, hidden |-> FALSE] \in ProductRow
      BY ProductAssumption DEF ProductRow
    <3> QED BY <2>1, <3>1 DEF CreateProduct
  <2>2. CASE UpdateProduct(p, form)
    <3>1. product[p] \in ProductRow
      BY <2>2 DEF UpdateProduct, Known, ProductIInv, ProductData
    <3>2. [[product[p] EXCEPT !.service = form.service] EXCEPT !.price = form.price] \in ProductRow
      BY <3>1, ProductAssumption DEF ProductRow
    <3>3. product' = [product EXCEPT ![p] = [[product[p] EXCEPT !.service = form.service] EXCEPT !.price = form.price]]
      BY <2>2 DEF UpdateProduct, ProductIInv, ProductData
    <3> QED BY <3>2, <3>3
  <2> QED BY <2>1, <2>2
<1>2. UNCHANGED <<line, prodPc, prodMem>>
  BY DEF CreateProduct, UpdateProduct
<1>3. ProductData'
  BY <1>1, <1>2, ProductChanged DEF ProductIInv
<1>4. ProductIInv'
  BY <1>2, <1>3 DEF ProductIInv, ProductKnows
<1> QED BY <1>2, <1>4, NoMerge

LEMMA WriteLineInv ==
  ASSUME ProductIInv, NEW l \in Lines, NEW kind \in LineKinds, NEW p \in Products,
         NEW paper \in Papers \cup {None}, NEW price \in Prices, WriteLine(l, kind, p, paper, price)
  PROVE  ProductIInv' /\ MergeKept
<1>1. line[l] = None /\ UNCHANGED <<product, prodPc, prodMem>> /\ \A k \in Lines \ {l} : line'[k] = line[k]
  BY DEF WriteLine, ProductIInv, ProductData
<1>2. ProductData'
  BY WriteLineData DEF ProductIInv
<1>3. ProductIInv'
  BY <1>1, <1>2 DEF ProductIInv, ProductKnows
<1> QED BY <1>1, <1>3, NoMerge

LEMMA ProductBeginInv ==
  ASSUME ProductIInv, NEW r \in Requests,
         \/ \E target \in Products, sources \in SUBSET Products : BeginMerge(r, target, sources)
         \/ \E p \in Products, mode \in {"strict", "cascade", "archive"} : BeginRemoveProduct(r, p, mode)
  PROVE  ProductIInv' /\ MergeKept
<1>1. prodPc[r] = "idle" /\ UNCHANGED productRows
  BY DEF BeginMerge, BeginRemoveProduct, EnterProduct
<1>2. PICK l \in ProductPlaces, m \in ProductLocal :
        ProductGoto(r, l) /\ ProductRemember(r, m) /\ ProductKnows(l, m)
  <2>1. ASSUME NEW target \in Products, NEW sources \in SUBSET Products, BeginMerge(r, target, sources)
        PROVE  \E l \in ProductPlaces, m \in ProductLocal :
                   ProductGoto(r, l) /\ ProductRemember(r, m) /\ ProductKnows(l, m)
    <3> DEFINE m == [ProductBlank EXCEPT !.of = target, !.from = sources]
    <3>1. m \in ProductLocal /\ m.of = target /\ m.from = sources
      BY DEF ProductBlank, ProductLocal
    <3>2. ProductGoto(r, "merge") /\ ProductRemember(r, m) /\ target \notin sources
      BY <2>1 DEF BeginMerge
    <3> HIDE DEF m
    <3> QED BY <3>1, <3>2 DEF ProductKnows, ProductPlaces
  <2>2. ASSUME NEW p \in Products, NEW mode \in {"strict", "cascade", "archive"}, BeginRemoveProduct(r, p, mode)
        PROVE  \E l \in ProductPlaces, m \in ProductLocal :
                   ProductGoto(r, l) /\ ProductRemember(r, m) /\ ProductKnows(l, m)
    <3> DEFINE m == [ProductBlank EXCEPT !.of = p]
    <3>1. m \in ProductLocal /\ m.of = p
      BY DEF ProductBlank, ProductLocal
    <3>2. ProductRemember(r, m)
      BY <2>2 DEF BeginRemoveProduct
    <3> HIDE DEF m
    <3>3. ProductGoto(r, "adjustments") \/ ProductGoto(r, "archive")
      BY <2>2 DEF BeginRemoveProduct, Way
    <3> QED BY <3>1, <3>2, <3>3 DEF ProductKnows, ProductPlaces
  <2> QED BY <2>1, <2>2
<1>3. ProductIInv'
  BY <1>1, <1>2, ProductDataStay, ProductMove DEF ProductIInv
<1> QED BY <1>1, <1>3, NoMerge DEF productRows

LEMMA ArchiveProductInv ==
  ASSUME ProductIInv, NEW r \in Requests, ArchiveProduct(r)
  PROVE  ProductIInv' /\ MergeKept
<1>1. PICK p \in Products :
        /\ p = prodMem[r].of /\ product[p] \in ProductRow
        /\ product' = [product EXCEPT ![p].hidden = TRUE]
  BY DEF ArchiveProduct, Known, ProductIInv, ProductKnows, ProductData
<1>2. [product[p] EXCEPT !.hidden = TRUE] \in ProductRow /\ product' = [product EXCEPT ![p] = [product[p] EXCEPT !.hidden = TRUE]]
  BY <1>1 DEF ProductRow
<1>3. prodPc[r] = "archive" /\ UNCHANGED line /\ ProductEnd(r) /\ ProductData
  BY DEF ArchiveProduct, ProductIInv
<1>4. ProductData'
  BY <1>2, <1>3, ProductChanged
<1>5. ProductIInv' /\ \A q \in Requests \ {r} : prodPc'[q] = prodPc[q]
  BY <1>3, <1>4, ProductEnds DEF ProductIInv, ProductEnd, ProductGoto
<1> QED BY <1>3, <1>5, NoMerge

\* Adjustments and loans go one commit before the other, and before the product.
LEMMA DropLinesInv ==
  ASSUME ProductIInv, NEW r \in Requests, DropAdjustments(r) \/ DropLoans(r)
  PROVE  ProductIInv' /\ MergeKept
<1>1. PICK kind \in {"adjustment", "loan"}, to \in {"loans", "product"} :
        /\ prodPc[r] \in {"adjustments", "loans"}
        /\ line' = WithoutLines(LinesOf({prodMem[r].of}, {kind}))
        /\ ProductGoto(r, to) /\ UNCHANGED <<product, prodMem>>
  BY DEF DropAdjustments, DropLoans
<1>2. PICK ls \in SUBSET Lines : ls = LinesOf({prodMem[r].of}, {kind})
  BY DEF LinesOf
<1>3. ProductData' /\ \A l \in Lines \ ls : line'[l] = line[l]
  <2>1. ProductData /\ line' = WithoutLines(ls)
    BY <1>1, <1>2 DEF ProductIInv
  <2>2. product' \in [Products -> ProductRow \cup {None}] /\ \A l \in Lines \ ls : line[l] # None => product'[line[l].product] # None
    BY <1>1, <2>1 DEF ProductData, LinesKnown
  <2> QED BY <2>1, <2>2, LinesTaken
<1>4. prodMem[r] \in ProductLocal /\ ProductRemember(r, prodMem[r]) /\ ProductKnows(to, prodMem[r]) /\ to \in ProductPlaces
  BY <1>1 DEF ProductIInv, ProductRemember, ProductKnows, ProductPlaces
<1>5. ProductIInv'
  BY <1>1, <1>3, <1>4, ProductMove
<1>6. \A q \in Requests : prodPc[q] = "merge" => prodPc'[q] # "idle"
  BY <1>1 DEF ProductGoto, ProductIInv
<1>7. ASSUME NEW l \in Lines, line[l] # None, line[l].kind \in {"invoiceItem", "dealItem", "returnItem"}
      PROVE  line'[l] # None
  <2>1. l \notin ls
    BY <1>2, <1>7 DEF LinesOf
  <2> QED BY <1>3, <1>7, <2>1
<1> QED BY <1>5, <1>6, <1>7, NoMerge

LEMMA DropProductInv ==
  ASSUME ProductIInv, NEW r \in Requests, DropProduct(r)
  PROVE  ProductIInv' /\ MergeKept
<1>1. PICK p \in Products :
        /\ p = prodMem[r].of
        /\ prodPc[r] = "product"
        /\ LinesOf({p}, Restricting) = {}
        /\ product' = [product EXCEPT ![p] = None]
        /\ line' = WithoutLines(LinesOf({p}, Cascading))
        /\ ProductEnd(r) /\ ProductData
  BY DEF DropProduct, ProductIInv, ProductKnows
<1>2. PICK ls \in SUBSET Lines : ls = LinesOf({p}, Cascading)
  BY DEF LinesOf
<1>3. /\ product' \in [Products -> ProductRow \cup {None}]
      /\ \A q \in Products \ {p} : product'[q] = product[q]
  BY <1>1 DEF ProductData
<1>4. ASSUME NEW l \in Lines, line[l] # None, line[l].product = p
      PROVE  l \in ls /\ line[l].kind \in Cascading
  <2>1. line[l].kind \in LineKinds
    BY <1>1, <1>4 DEF ProductData, LineRow
  <2> QED BY <1>1, <1>2, <1>4, <2>1 DEF LinesOf, Restricting
<1>5. ASSUME NEW l \in Lines \ ls, line[l] # None PROVE product'[line[l].product] # None
  <2>1. line[l].product \in Products \ {p} /\ product[line[l].product] # None
    BY <1>1, <1>4, <1>5 DEF ProductData, LinesKnown, LineRow
  <2> QED BY <1>3, <2>1
<1>6. ProductData' /\ \A l \in Lines \ ls : line'[l] = line[l]
  BY <1>1, <1>2, <1>3, <1>5, LinesTaken
<1>7. ProductIInv' /\ \A q \in Requests \ {r} : prodPc'[q] = prodPc[q]
  BY <1>1, <1>6, ProductEnds DEF ProductIInv, ProductEnd, ProductGoto
<1>8. ASSUME NEW l \in Lines, line[l] # None, line[l].kind \in {"invoiceItem", "dealItem", "returnItem"}
      PROVE  line'[l] # None
  <2>1. l \notin ls
    BY <1>2, <1>8 DEF LinesOf, Cascading
  <2> QED BY <1>6, <1>8, <2>1
<1> QED BY <1>1, <1>7, <1>8, NoMerge

LEMMA ProductStopInv ==
  ASSUME ProductIInv, NEW r \in Requests, RefuseProduct(r) \/ CutProduct(r)
  PROVE  ProductIInv' /\ MergeKept
<1>1. ProductEnd(r) /\ UNCHANGED productRows
  BY DEF RefuseProduct, CutProduct
<1>2. ProductIInv'
  BY <1>1, ProductDataStay, ProductEnds DEF ProductIInv
<1> QED BY <1>1, <1>2, NoMerge DEF productRows

LEMMA ProductInitInv == ProductInit => ProductIInv
<1> SUFFICES ASSUME ProductInit PROVE ProductIInv
  OBVIOUS
<1>1. ProductBlank \in ProductLocal
  BY DEF ProductBlank, ProductLocal
<1>2. \A r \in Requests : ProductKnows(prodPc[r], prodMem[r])
  BY DEF ProductInit, ProductKnows
<1>3. ProductData
  BY DEF ProductInit, ProductData, LinesKnown, LinesFit, KeyedOnce
<1> QED BY <1>1, <1>2, <1>3 DEF ProductInit, ProductIInv, ProductPlaces

LEMMA ProductNextInv == ProductIInv /\ [ProductNext]_prodVars => ProductIInv' /\ [MergeKept]_prodVars
<1> SUFFICES ASSUME ProductIInv, [ProductNext]_prodVars PROVE ProductIInv' /\ [MergeKept]_prodVars
  OBVIOUS
<1>1. CASE ProductNext
  <2>1. CASE \E p \in Products, form \in ProductForms : CreateProduct(p, form) \/ UpdateProduct(p, form)
    BY <2>1, ProductFormInv
  <2>2. CASE \E l \in Lines, kind \in LineKinds, p \in Products, paper \in Papers \cup {None}, price \in Prices :
               WriteLine(l, kind, p, paper, price)
    BY <2>2, WriteLineInv
  <2>3. ASSUME NEW r \in Requests, StepProduct(r) PROVE ProductIInv' /\ MergeKept
    BY <2>3, MergeInv, ArchiveProductInv, DropLinesInv, DropProductInv, ProductStopInv DEF StepProduct
  <2>4. ASSUME NEW r \in Requests,
               \/ \E target \in Products, sources \in SUBSET Products : BeginMerge(r, target, sources)
               \/ \E p \in Products, mode \in {"strict", "cascade", "archive"} : BeginRemoveProduct(r, p, mode)
        PROVE  ProductIInv' /\ MergeKept
    BY <2>4, ProductBeginInv
  <2> QED BY <1>1, <2>1, <2>2, <2>3, <2>4 DEF ProductNext
<1>2. CASE UNCHANGED prodVars
  BY <1>2, ProductDataStay DEF prodVars, productRows, ProductIInv, ProductKnows
<1> QED BY <1>1, <1>2

LEMMA ProductsInvariant == ProductSpec => []ProductIInv
  BY ProductInitInv, ProductNextInv, PTL DEF ProductSpec

\* Products, the lines that point at them and what requests hold of them always have
\* their types (products.repository.ts).
THEOREM ProductTypeCorrect == ProductSpec => []ProductTypeOK
<1>1. ProductIInv => ProductTypeOK
  BY DEF ProductIInv, ProductData, ProductPlaces, ProductTypeOK
<1> QED BY <1>1, ProductsInvariant, PTL

\* A merge loses no line of goods, no entry of a price list and no price, whatever is
\* written, archived or removed between its look at the products and its commit, and
\* nothing that happens to a product takes a line of goods away (products.repository.ts: merge,
\* removeCascade).
THEOREM MergesKeep == ProductSpec => MergeKeeps
  BY ProductInitInv, ProductNextInv, PTL DEF ProductSpec, MergeKeeps

-----------------------------------------------------------------------------
(* Reviews.  A request that takes something back works from the entry of    *)
(* the log it read at its start; the invariant says what that entry and the *)
(* record still are, of requests one at a time, when it writes.             *)

ReviewPlaces == {"idle", "handle", "log", "look", "revert", "mark", "uncreate", "restore", "unlog"}

\* What a request carries, however others run.
ReviewCarries(l, m) ==
    /\ l # "idle" => m.of \in Records
    /\ l \in {"handle", "log"} =>
        /\ m.do # "none"
        /\ m.do \in {"CREATE", "UPDATE"} => m.set \in [Fields -> FieldValues]
        /\ m.do \in {"UPDATE", "DELETE"} => m.before # None
        /\ l = "log" /\ m.do = "UPDATE" => m.body # None
    /\ l \in {"look", "revert", "mark"} => m.verdict # "none"
    /\ l \in {"look", "revert", "mark", "uncreate", "restore", "unlog"} => m.entry \in 1 .. Len(logged)
    /\ l = "restore" => m.before # None

\* Nobody else has touched what a request found out, if requests come one at a time.
ReviewHolds(l, m) ==
    LET e == logged[m.entry] IN
    /\ l \in {"look", "revert", "mark", "uncreate", "restore", "unlog"} => e # None /\ e.of = m.of
    /\ l \in {"look", "revert", "mark"} => e.status = "PENDING"
    /\ l = "revert" => LeftAlone(m.of, m.diff)
    /\ l = "uncreate" => e.do = "CREATE"
    /\ l = "restore" => e.do = "DELETE" /\ m.before = e.snapshot
    /\ l = "unlog" =>
        IF e.do = "CREATE" THEN rec[m.of] = None
        ELSE rec[m.of] # None /\ rec[m.of].fields = e.snapshot.fields

ReviewData ==
    /\ rec \in [Records -> RecordType \cup {None}] /\ recsMade \subseteq Records
    /\ logged \in Seq(LogEntry \cup {None})
    /\ \A e \in Entries : logged[e].do = "DELETE" => logged[e].snapshot # None

ReviewIInv ==
    /\ ReviewData
    /\ reviewPc \in [Requests -> ReviewPlaces] /\ reviewMem \in [Requests -> ReviewLocal]
    /\ reviewCuts \in 0 .. MaxCuts
    /\ \A r \in Requests : ReviewCarries(reviewPc[r], reviewMem[r])
    /\ ~reviewOverlap => \A r \in Requests : ReviewHolds(reviewPc[r], reviewMem[r])
    /\ ~reviewOverlap => \A r, s \in Requests : r # s => reviewPc[r] = "idle" \/ reviewPc[s] = "idle"

LEMMA ReviewMove ==
  ASSUME ReviewIInv, NEW r \in Requests, NEW l \in ReviewPlaces, NEW m \in ReviewLocal,
         ReviewGoto(r, l), ReviewRemember(r, m), reviewOverlap' = reviewOverlap,
         ~reviewOverlap => ReviewsIdle \/ reviewPc[r] # "idle",
         ReviewData', Len(logged) <= Len(logged)', reviewCuts' \in 0 .. MaxCuts,
         ReviewCarries(l, m)', ~reviewOverlap => ReviewHolds(l, m)'
  PROVE  ReviewIInv'
<1>1. /\ reviewPc' \in [Requests -> ReviewPlaces] /\ reviewMem' \in [Requests -> ReviewLocal]
      /\ reviewPc'[r] = l /\ reviewMem'[r] = m
      /\ \A q \in Requests \ {r} : reviewPc'[q] = reviewPc[q] /\ reviewMem'[q] = reviewMem[q]
  BY DEF ReviewIInv, ReviewGoto, ReviewRemember
<1>2. ~reviewOverlap => \A q \in Requests \ {r} : reviewPc[q] = "idle"
  BY DEF ReviewIInv, ReviewsIdle
<1>3. Len(logged) \in Nat /\ Len(logged)' \in Nat
  BY DEF ReviewIInv, ReviewData
<1>4. ASSUME NEW q \in Requests \ {r}
      PROVE  ReviewCarries(reviewPc[q], reviewMem[q])' /\ (~reviewOverlap => ReviewHolds(reviewPc[q], reviewMem[q])')
  <2>1. /\ ReviewCarries(reviewPc[q], reviewMem[q])
        /\ reviewPc'[q] = reviewPc[q] /\ reviewMem'[q] = reviewMem[q] /\ (~reviewOverlap => reviewPc[q] = "idle")
    BY <1>1, <1>2 DEF ReviewIInv
  <2>2. ReviewCarries(reviewPc[q], reviewMem[q])'
    BY <1>3, <2>1 DEF ReviewCarries
  <2>3. ~reviewOverlap => ReviewHolds(reviewPc[q], reviewMem[q])'
    BY <2>1 DEF ReviewHolds
  <2> QED BY <2>2, <2>3
<1>5. /\ \A q \in Requests : ReviewCarries(reviewPc[q], reviewMem[q])'
      /\ ~reviewOverlap' => \A q \in Requests : ReviewHolds(reviewPc[q], reviewMem[q])'
  BY <1>1, <1>4
<1>6. ~reviewOverlap' => \A p, q \in Requests : p # q => reviewPc'[p] = "idle" \/ reviewPc'[q] = "idle"
  BY <1>1, <1>2
<1> QED BY <1>1, <1>5, <1>6 DEF ReviewIInv

LEMMA NoDiff == <<>> \in Diffs
<1>1. <<>> \in [{} -> [from : FieldValues, to : FieldValues]]
  OBVIOUS
<1> QED BY <1>1 DEF Diffs

LEMMA ReviewBlankFacts ==
  /\ ReviewBlank \in ReviewLocal
  /\ ReviewCarries("idle", ReviewBlank) /\ ReviewHolds("idle", ReviewBlank)
<1>1. ReviewBlank \in ReviewLocal
  BY NoDiff DEF ReviewBlank, ReviewLocal
<1> QED BY <1>1 DEF ReviewCarries, ReviewHolds

LEMMA ReviewEnds ==
  ASSUME ReviewIInv, NEW r \in Requests, reviewPc[r] # "idle", ReviewEnd(r),
         reviewOverlap' = reviewOverlap, ReviewData', Len(logged) <= Len(logged)', reviewCuts' \in 0 .. MaxCuts
  PROVE  ReviewIInv'
<1>1. ReviewCarries("idle", ReviewBlank)' /\ ReviewHolds("idle", ReviewBlank)'
  BY DEF ReviewCarries, ReviewHolds
<1>2. "idle" \in ReviewPlaces
  BY DEF ReviewPlaces
<1> QED BY <1>1, <1>2, ReviewBlankFacts, ReviewMove DEF ReviewEnd

LEMMA ReviewDataStay ==
  ASSUME ReviewData, UNCHANGED reviewRows
  PROVE  ReviewData' /\ Len(logged) <= Len(logged)'
  BY DEF ReviewData, reviewRows, Entries

-----------------------------------------------------------------------------
(* What a handler leaves of a record, and what the log says of it.         *)

LEMMA DiffValues ==
  ASSUME NEW d \in Diffs
  PROVE  /\ DOMAIN d \subseteq Fields
         /\ \A f \in DOMAIN d : d[f] \in [from : FieldValues, to : FieldValues]
<1>1. PICK fs \in SUBSET Fields : d \in [fs -> [from : FieldValues, to : FieldValues]]
  BY DEF Diffs
<1> QED BY <1>1

LEMMA PatchedType ==
  ASSUME NEW x \in RecordType, NEW set, \A f \in Fields : f \in DOMAIN set => set[f] \in FieldValues
  PROVE  Patched(x, set) \in RecordType
<1>1. x.fields \in [Fields -> FieldValues]
  BY DEF RecordType
<1>2. [f \in Fields |-> IF f \in DOMAIN set THEN set[f] ELSE x.fields[f]] \in [Fields -> FieldValues]
  BY <1>1
<1> QED BY <1>2 DEF Patched, RecordType

LEMMA DiffType ==
  ASSUME NEW before \in RecordType, NEW body \in RecordType
  PROVE  Diff(before, body) \in Diffs
<1> DEFINE fs == {f \in Fields : before.fields[f] # body.fields[f]}
<1>1. \A f \in fs : before.fields[f] \in FieldValues /\ body.fields[f] \in FieldValues
  BY DEF RecordType
<1>2. Diff(before, body) \in [fs -> [from : FieldValues, to : FieldValues]]
  BY <1>1 DEF Diff
<1> QED BY <1>2 DEF Diffs

\* A step that leaves the log as it is and takes nothing back.
LEMMA NothingTakenBack ==
  ASSUME \A e \in Entries : logged'[e] = logged[e],
         \A r \in Requests : ~(reviewPc[r] = "revert" /\ reviewPc'[r] = "mark")
  PROVE  Reverted
  BY DEF Reverted, Entries

-----------------------------------------------------------------------------
(* A handler and its log.                                                  *)

LEMMA RowsType == \A u \in Records : RecordRows[KindOf[u]] \in SUBSET {"items", "payments", "entries", "charges", "requests"}
<1> SUFFICES ASSUME NEW u \in Records
             PROVE  RecordRows[KindOf[u]] \in SUBSET {"items", "payments", "entries", "charges", "requests"}
  OBVIOUS
<1>1. KindOf[u] \in {"product", "order", "trip", "invoice", "deal", "party"}
  BY ReviewAssumption DEF RecordKinds
<1> QED BY <1>1 DEF RecordRows

\* A request that begins writes nothing.
LEMMA ReviewBegins ==
  ASSUME ReviewIInv, NEW r \in Requests, NEW l \in ReviewPlaces, NEW m \in ReviewLocal,
         EnterReview(r), ReviewGoto(r, l), ReviewRemember(r, m), UNCHANGED <<reviewRows, reviewOverlap, reviewCuts>>,
         ReviewCarries(l, m), ~reviewOverlap => ReviewHolds(l, m)
  PROVE  ReviewIInv' /\ Reverted
<1>1. ReviewCarries(l, m)' /\ (~reviewOverlap => ReviewHolds(l, m)')
  BY DEF ReviewCarries, ReviewHolds, LeftAlone, reviewRows
<1>2. reviewPc[r] = "idle" /\ (~reviewOverlap => ReviewsIdle)
  BY DEF EnterReview
<1>3. ReviewIInv'
  BY <1>1, <1>2, ReviewDataStay, ReviewMove DEF ReviewIInv
<1>4. \A q \in Requests : ~(reviewPc[q] = "revert" /\ reviewPc'[q] = "mark")
  BY <1>2 DEF ReviewIInv, ReviewGoto
<1> QED BY <1>3, <1>4, NothingTakenBack DEF reviewRows

LEMMA BeginHandlerInv ==
  ASSUME ReviewIInv, NEW r \in Requests, NEW u \in Records, NEW do \in {"CREATE", "UPDATE", "DELETE"},
         NEW set \in [Fields -> FieldValues] \cup {<<>>}, do # "DELETE" => set \in [Fields -> FieldValues],
         NEW admin \in BOOLEAN, BeginHandler(r, u, do, set, admin)
  PROVE  ReviewIInv' /\ Reverted
<1> DEFINE m == [ReviewBlank EXCEPT !.of = u, !.do = do, !.admin = admin, !.set = set, !.before = rec[u]]
<1>1. /\ EnterReview(r) /\ ReviewGoto(r, "handle") /\ ReviewRemember(r, m)
      /\ UNCHANGED <<reviewRows, reviewOverlap, reviewCuts>>
      /\ do # "CREATE" => rec[u] # None
      /\ rec[u] \in RecordType \cup {None}
  BY DEF BeginHandler, ReviewIInv, ReviewData
<1>2. m \in ReviewLocal /\ m.of = u /\ m.do = do /\ m.set = set /\ m.before = rec[u]
  BY <1>1, NoDiff DEF ReviewBlank, ReviewLocal
<1> HIDE DEF m
<1>3. ReviewCarries("handle", m) /\ ReviewHolds("handle", m) /\ "handle" \in ReviewPlaces
  BY <1>1, <1>2 DEF ReviewCarries, ReviewHolds, ReviewPlaces
<1> QED BY <1>1, <1>2, <1>3, ReviewBegins

LEMMA HandleRequestInv ==
  ASSUME ReviewIInv, NEW r \in Requests, HandleRequest(r)
  PROVE  ReviewIInv' /\ Reverted
<1>1. PICK m \in ReviewLocal : m = reviewMem[r]
  BY DEF ReviewIInv
<1>2. PICK u \in Records : u = m.of
  BY <1>1 DEF HandleRequest, ReviewIInv, ReviewCarries
<1>3. /\ reviewPc[r] = "handle" /\ ReviewCarries("handle", m) /\ ReviewData
      /\ ReviewGoto(r, "log") /\ ReviewRemember(r, [m EXCEPT !.body = rec'[u]])
      /\ recsMade' = recsMade \cup {u} /\ UNCHANGED <<logged, reviewOverlap, reviewCuts>>
  BY <1>1, <1>2 DEF HandleRequest, ReviewIInv
<1>4. PICK y \in RecordType \cup {None} : rec' = [rec EXCEPT ![u] = y] /\ (m.do = "UPDATE" => y \in RecordType)
  <2>1. CASE m.do = "CREATE" /\ rec' = [rec EXCEPT ![u] = [fields |-> m.set, rows |-> RecordRows[KindOf[u]]]]
    <3>1. m.set \in [Fields -> FieldValues] /\ RecordRows[KindOf[u]] \in SUBSET {"items", "payments", "entries", "charges", "requests"}
      BY <1>3, <2>1, RowsType DEF ReviewCarries
    <3>2. [fields |-> m.set, rows |-> RecordRows[KindOf[u]]] \in RecordType
      BY <3>1 DEF RecordType
    <3> QED BY <2>1, <3>2
  <2>2. CASE m.do = "UPDATE" /\ rec[u] # None /\ rec' = [rec EXCEPT ![u] = Patched(@, m.set)]
    <3>1. rec[u] \in RecordType /\ m.set \in [Fields -> FieldValues]
      BY <1>3, <2>2 DEF ReviewCarries, ReviewData
    <3>2. Patched(rec[u], m.set) \in RecordType
      BY <3>1, PatchedType
    <3>3. rec' = [rec EXCEPT ![u] = Patched(rec[u], m.set)]
      BY <2>2
    <3> QED BY <3>2, <3>3
  <2>3. CASE m.do = "DELETE" /\ rec' = [rec EXCEPT ![u] = None]
    BY <2>3
  <2> QED BY <1>1, <1>2, <2>1, <2>2, <2>3 DEF HandleRequest
<1>5. rec'[u] = y /\ rec' \in [Records -> RecordType \cup {None}]
  BY <1>3, <1>4 DEF ReviewData
<1> DEFINE n == [m EXCEPT !.body = y]
<1>6. n \in ReviewLocal /\ n.of = m.of /\ n.do = m.do /\ n.set = m.set /\ n.before = m.before /\ n.body = y
  BY DEF ReviewLocal
<1>7. ReviewRemember(r, n)
  BY <1>3, <1>5
<1> HIDE DEF n
<1>8. ReviewCarries("log", n)' /\ ReviewHolds("log", n)' /\ "log" \in ReviewPlaces
  BY <1>2, <1>3, <1>4, <1>6, ReviewAssumption DEF ReviewCarries, ReviewHolds, ReviewPlaces
<1>9. ReviewData' /\ Len(logged) <= Len(logged)'
  BY <1>3, <1>5 DEF ReviewData, Entries
<1>10. ReviewIInv'
  BY <1>3, <1>6, <1>7, <1>8, <1>9, ReviewMove DEF HandleRequest, ReviewIInv
<1>11. \A q \in Requests : ~(reviewPc[q] = "revert" /\ reviewPc'[q] = "mark")
  BY <1>3 DEF ReviewIInv, ReviewGoto
<1> QED BY <1>3, <1>10, <1>11, NothingTakenBack

LEMMA WriteLogInv ==
  ASSUME ReviewIInv, NEW r \in Requests, WriteLog(r)
  PROVE  ReviewIInv' /\ Reverted
<1>1. PICK m \in ReviewLocal : m = reviewMem[r]
  BY DEF ReviewIInv
<1>2. PICK changed : changed = IF m.do = "UPDATE" THEN Diff(m.before, m.body) ELSE <<>>
  OBVIOUS
<1> DEFINE x == [of |-> m.of, do |-> m.do, diff |-> changed,
                 snapshot |-> IF m.do = "DELETE" THEN m.before ELSE None,
                 status |-> IF m.do = "UPDATE" /\ ~m.admin THEN "PENDING" ELSE "none"]
<1>3. /\ reviewPc[r] = "log" /\ ReviewCarries("log", m) /\ ReviewData
      /\ logged' = Append(logged, x) /\ ReviewEnd(r) /\ UNCHANGED <<rec, recsMade, reviewOverlap, reviewCuts>>
  BY <1>1, <1>2, Zenon DEF WriteLog, ReviewIInv
<1>4. changed \in Diffs
  <2>1. CASE m.do = "UPDATE"
    <3>1. m.before \in RecordType /\ m.body \in RecordType
      BY <1>3, <2>1 DEF ReviewCarries, ReviewLocal
    <3> QED BY <1>2, <2>1, <3>1, DiffType
  <2>2. CASE m.do # "UPDATE"
    BY <1>2, <2>2, NoDiff
  <2> QED BY <2>1, <2>2
<1>5. x \in LogEntry /\ (x.do = "DELETE" => x.snapshot # None)
  BY <1>3, <1>4 DEF ReviewCarries, ReviewLocal, LogEntry
<1> HIDE DEF x
<1>6. /\ logged' \in Seq(LogEntry \cup {None}) /\ Len(logged)' = Len(logged) + 1 /\ Len(logged) \in Nat
      /\ logged'[Len(logged) + 1] = x /\ \A e \in 1 .. Len(logged) : logged'[e] = logged[e]
  BY <1>3, <1>5 DEF ReviewData
<1>7. ReviewData'
  BY <1>3, <1>5, <1>6 DEF ReviewData, Entries
<1>8. ReviewIInv'
  BY <1>3, <1>6, <1>7, ReviewEnds DEF ReviewIInv
<1>9. \A q \in Requests : ~(reviewPc[q] = "revert" /\ reviewPc'[q] = "mark")
  BY <1>3 DEF ReviewIInv, ReviewGoto, ReviewEnd
<1> QED BY <1>6, <1>8, <1>9, NothingTakenBack DEF Entries

LEMMA ReviewStopInv ==
  ASSUME ReviewIInv, NEW r \in Requests, CutLog(r) \/ RefuseReview(r)
  PROVE  ReviewIInv' /\ Reverted
<1>1. reviewPc[r] # "idle" /\ ReviewEnd(r) /\ UNCHANGED <<reviewRows, reviewOverlap>> /\ reviewCuts' \in 0 .. MaxCuts
  BY OfficeAssumption DEF CutLog, RefuseReview, ReviewRefused, ReviewIInv
<1>2. ReviewIInv'
  BY <1>1, ReviewDataStay, ReviewEnds DEF ReviewIInv
<1>3. \A q \in Requests : ~(reviewPc[q] = "revert" /\ reviewPc'[q] = "mark")
  BY <1>1 DEF ReviewIInv, ReviewGoto, ReviewEnd
<1> QED BY <1>1, <1>2, <1>3, NothingTakenBack DEF reviewRows

-----------------------------------------------------------------------------
(* A review, and an undo.                                                  *)

LEMMA BeginReviewInv ==
  ASSUME ReviewIInv, NEW r \in Requests, NEW e \in Entries, NEW verdict \in {"APPROVED", "REJECTED"},
         BeginReview(r, e, verdict)
  PROVE  ReviewIInv' /\ Reverted
<1> DEFINE m == [ReviewBlank EXCEPT !.of = logged[e].of, !.entry = e, !.verdict = verdict, !.diff = logged[e].diff]
<1>1. e \in 1 .. Len(logged) /\ e \in Nat /\ logged[e] # None /\ logged[e] \in LogEntry /\ logged[e].status = "PENDING"
  BY DEF BeginReview, Awaited, ReviewIInv, ReviewData, Entries
<1>2. /\ EnterReview(r) /\ ReviewRemember(r, m) /\ UNCHANGED <<reviewRows, reviewOverlap, reviewCuts>>
      /\ ReviewGoto(r, "look") \/ ReviewGoto(r, "mark")
  BY DEF BeginReview
<1>3. /\ m \in ReviewLocal /\ m.of = logged[e].of /\ m.entry = e /\ m.verdict = verdict
      /\ m.of \in Records
  BY <1>1 DEF ReviewBlank, ReviewLocal, LogEntry
<1> HIDE DEF m
<1>4. \A l \in {"look", "mark"} : ReviewCarries(l, m) /\ ReviewHolds(l, m) /\ l \in ReviewPlaces
  BY <1>1, <1>3 DEF ReviewCarries, ReviewHolds, ReviewPlaces
<1> QED BY <1>2, <1>3, <1>4, ReviewBegins

\* What is taken back is what the change had left, if nobody came in between.
LEMMA LookSinceInv ==
  ASSUME ReviewIInv, NEW r \in Requests, LookSince(r)
  PROVE  ReviewIInv' /\ Reverted
<1>1. PICK m \in ReviewLocal : m = reviewMem[r]
  BY DEF ReviewIInv
<1>2. /\ reviewPc[r] = "look" /\ ReviewCarries("look", m) /\ (~reviewOverlap => ReviewHolds("look", m))
      /\ LeftAlone(m.of, m.diff)
      /\ ReviewGoto(r, "revert") /\ UNCHANGED <<reviewRows, reviewMem, reviewOverlap, reviewCuts>>
  BY <1>1 DEF LookSince, ReviewIInv
<1>3. ReviewRemember(r, m)
  BY <1>1, <1>2 DEF ReviewRemember, ReviewIInv
<1>4. ReviewCarries("revert", m)' /\ (~reviewOverlap => ReviewHolds("revert", m)') /\ "revert" \in ReviewPlaces
  BY <1>2 DEF ReviewCarries, ReviewHolds, ReviewPlaces, LeftAlone, reviewRows
<1>5. ReviewIInv'
  BY <1>2, <1>3, <1>4, ReviewDataStay, ReviewMove DEF ReviewIInv
<1>6. \A q \in Requests : ~(reviewPc[q] = "revert" /\ reviewPc'[q] = "mark")
  BY <1>2 DEF ReviewIInv, ReviewGoto
<1> QED BY <1>2, <1>5, <1>6, NothingTakenBack DEF reviewRows

LEMMA RevertUpdateInv ==
  ASSUME ReviewIInv, NEW r \in Requests, RevertUpdate(r)
  PROVE  ReviewIInv' /\ Reverted
<1>1. PICK m \in ReviewLocal : m = reviewMem[r]
  BY DEF ReviewIInv
<1>2. /\ reviewPc[r] = "revert" /\ ReviewCarries("revert", m) /\ (~reviewOverlap => ReviewHolds("revert", m))
      /\ m.of \in Records /\ rec[m.of] \in RecordType /\ ReviewData
      /\ rec' = [rec EXCEPT ![m.of] = Patched(@, [f \in DOMAIN m.diff |-> m.diff[f].from])]
      /\ ReviewGoto(r, "mark") /\ UNCHANGED <<recsMade, logged, reviewMem, reviewOverlap, reviewCuts>>
  BY <1>1 DEF RevertUpdate, ReviewIInv, ReviewData, ReviewCarries
<1>3. m.diff \in Diffs
  BY DEF ReviewLocal
<1>4. PICK set : set = [f \in DOMAIN m.diff |-> m.diff[f].from]
  OBVIOUS
<1>5. \A f \in Fields : f \in DOMAIN set => set[f] \in FieldValues
  BY <1>3, <1>4, DiffValues
<1>6. rec' = [rec EXCEPT ![m.of] = Patched(rec[m.of], set)] /\ Patched(rec[m.of], set) \in RecordType
  BY <1>2, <1>4, <1>5, PatchedType
<1>7. ReviewData' /\ Len(logged) <= Len(logged)'
  BY <1>2, <1>6 DEF ReviewData, Entries
<1>8. ReviewRemember(r, m)
  BY <1>1, <1>2 DEF ReviewRemember, ReviewIInv
<1>9. ReviewCarries("mark", m)' /\ (~reviewOverlap => ReviewHolds("mark", m)') /\ "mark" \in ReviewPlaces
  BY <1>2 DEF ReviewCarries, ReviewHolds, ReviewPlaces
<1>10. ReviewIInv'
  BY <1>2, <1>7, <1>8, <1>9, ReviewMove DEF ReviewIInv
<1>11. ~reviewOverlap => \A f \in DOMAIN m.diff : rec[m.of].fields[f] = m.diff[f].to
  BY <1>2 DEF ReviewHolds, LeftAlone
<1>12. \A q \in Requests : reviewPc[q] = "revert" /\ reviewPc'[q] = "mark" => q = r
  BY <1>2 DEF ReviewIInv, ReviewGoto
<1>13. \A e \in Entries : logged'[e] = logged[e] /\ logged'[e] # None
  BY <1>2 DEF Entries
<1>14. Reverted
  BY <1>1, <1>11, <1>12, <1>13 DEF Reverted
<1> QED BY <1>10, <1>14

\* A verdict falls on an entry that waits for one.
LEMMA MarkReviewedInv ==
  ASSUME ReviewIInv, NEW r \in Requests, MarkReviewed(r)
  PROVE  ReviewIInv' /\ Reverted
<1>1. PICK m \in ReviewLocal : m = reviewMem[r]
  BY DEF ReviewIInv
<1>2. /\ reviewPc[r] = "mark" /\ ReviewCarries("mark", m) /\ (~reviewOverlap => ReviewHolds("mark", m))
      /\ logged[m.entry] # None /\ ReviewData
      /\ logged' = [logged EXCEPT ![m.entry].status = m.verdict]
      /\ ReviewEnd(r) /\ UNCHANGED <<rec, recsMade, reviewOverlap, reviewCuts>>
  BY <1>1 DEF MarkReviewed, ReviewIInv
<1>3. PICK e \in 1 .. Len(logged) : e = m.entry /\ logged[e] \in LogEntry
  BY <1>2 DEF ReviewCarries, ReviewData
<1> DEFINE x == [logged[e] EXCEPT !.status = m.verdict]
<1>4. x \in LogEntry /\ x.do = logged[e].do /\ x.snapshot = logged[e].snapshot
  BY <1>2, <1>3 DEF ReviewCarries, ReviewLocal, LogEntry
<1>5. logged' = [logged EXCEPT ![e] = x]
  BY <1>2, <1>3
<1> HIDE DEF x
<1>6. /\ logged' \in Seq(LogEntry \cup {None}) /\ Len(logged)' = Len(logged) /\ Len(logged) \in Nat
      /\ logged'[e] = x /\ \A d \in (1 .. Len(logged)) \ {e} : logged'[d] = logged[d]
  <2>1. logged \in Seq(LogEntry \cup {None}) /\ x \in LogEntry \cup {None}
    BY <1>2, <1>4 DEF ReviewData
  <2> QED BY <1>5, <2>1
<1>7. ReviewData'
  BY <1>2, <1>3, <1>4, <1>6, ReviewAssumption DEF ReviewData, Entries
<1>8. ReviewIInv'
  BY <1>2, <1>6, <1>7, ReviewEnds DEF ReviewIInv
<1>9. \A q \in Requests : ~(reviewPc[q] = "revert" /\ reviewPc'[q] = "mark")
  BY <1>2 DEF ReviewIInv, ReviewGoto, ReviewEnd
<1>10. x # None
  BY <1>4, ReviewAssumption
<1>11. ~reviewOverlap => logged[e].status = "PENDING"
  BY <1>2, <1>3 DEF ReviewHolds
<1>12. Reverted
  BY <1>6, <1>9, <1>10, <1>11 DEF Reverted, Entries
<1> QED BY <1>8, <1>12

LEMMA BeginUndoInv ==
  ASSUME ReviewIInv, NEW r \in Requests, NEW e \in Entries, BeginUndo(r, e)
  PROVE  ReviewIInv' /\ Reverted
<1> DEFINE m == [ReviewBlank EXCEPT !.of = logged[e].of, !.entry = e, !.before = logged[e].snapshot]
<1>1. /\ e \in 1 .. Len(logged) /\ e \in Nat /\ logged[e] # None /\ logged[e] \in LogEntry
      /\ logged[e].do = "DELETE" => logged[e].snapshot # None
  BY DEF ReviewIInv, ReviewData, Entries
<1>2. /\ EnterReview(r) /\ ReviewRemember(r, m) /\ UNCHANGED <<reviewRows, reviewOverlap, reviewCuts>>
      /\ \/ logged[e].do = "CREATE" /\ ReviewGoto(r, "uncreate")
         \/ logged[e].do = "DELETE" /\ ReviewGoto(r, "restore")
  BY DEF BeginUndo
<1>3. /\ m \in ReviewLocal /\ m.of = logged[e].of /\ m.entry = e /\ m.before = logged[e].snapshot
      /\ m.of \in Records
  BY <1>1, NoDiff DEF ReviewBlank, ReviewLocal, LogEntry
<1> HIDE DEF m
<1>4. /\ logged[e].do = "CREATE" => ReviewCarries("uncreate", m) /\ ReviewHolds("uncreate", m)
      /\ logged[e].do = "DELETE" => ReviewCarries("restore", m) /\ ReviewHolds("restore", m)
      /\ "uncreate" \in ReviewPlaces /\ "restore" \in ReviewPlaces
  BY <1>1, <1>3 DEF ReviewCarries, ReviewHolds, ReviewPlaces
<1> QED BY <1>2, <1>3, <1>4, ReviewBegins

\* The record goes, or comes back with the fields that the log has.
LEMMA UndoInv ==
  ASSUME ReviewIInv, NEW r \in Requests, DeleteCreated(r) \/ RestoreEntity(r)
  PROVE  ReviewIInv' /\ Reverted
<1>1. PICK m \in ReviewLocal : m = reviewMem[r]
  BY DEF ReviewIInv
<1>2. /\ reviewPc[r] \in {"uncreate", "restore"} /\ ReviewCarries(reviewPc[r], m)
      /\ ~reviewOverlap => ReviewHolds(reviewPc[r], m)
      /\ m.of \in Records /\ ReviewData
      /\ ReviewGoto(r, "unlog") /\ UNCHANGED <<recsMade, logged, reviewMem, reviewOverlap, reviewCuts>>
  BY <1>1 DEF DeleteCreated, RestoreEntity, ReviewIInv, ReviewCarries
<1>3. PICK y \in RecordType \cup {None} :
        /\ rec' = [rec EXCEPT ![m.of] = y]
        /\ IF reviewPc[r] = "uncreate" THEN y = None ELSE y # None /\ y.fields = m.before.fields
  <2>1. CASE DeleteCreated(r)
    BY <1>1, <2>1 DEF DeleteCreated
  <2>2. CASE RestoreEntity(r)
    <3> DEFINE y == [m.before EXCEPT !.rows = @ \cap RowsRestored[KindOf[m.of]]]
    <3>1. m.before \in RecordType
      BY <1>2, <2>2 DEF RestoreEntity, ReviewCarries, ReviewLocal
    <3>2. y \in RecordType /\ y.fields = m.before.fields
      BY <3>1 DEF RecordType
    <3>3. reviewPc[r] = "restore" /\ rec' = [rec EXCEPT ![m.of] = y]
      BY <1>1, <2>2 DEF RestoreEntity
    <3> HIDE DEF y
    <3> QED BY <3>2, <3>3, ReviewAssumption
  <2> QED BY <2>1, <2>2
<1>4. rec'[m.of] = y /\ rec' \in [Records -> RecordType \cup {None}]
  BY <1>2, <1>3 DEF ReviewData
<1>5. ReviewData' /\ Len(logged) <= Len(logged)'
  BY <1>2, <1>4 DEF ReviewData, Entries
<1>6. ReviewRemember(r, m)
  BY <1>1, <1>2 DEF ReviewRemember, ReviewIInv
<1>7. ReviewCarries("unlog", m)' /\ "unlog" \in ReviewPlaces
  BY <1>2 DEF ReviewCarries, ReviewPlaces
<1>8. ~reviewOverlap => ReviewHolds("unlog", m)'
  BY <1>2, <1>3, <1>4 DEF ReviewHolds
<1>9. ReviewIInv'
  BY <1>2, <1>5, <1>6, <1>7, <1>8, ReviewMove DEF ReviewIInv
<1>10. \A q \in Requests : ~(reviewPc[q] = "revert" /\ reviewPc'[q] = "mark")
  BY <1>2 DEF ReviewIInv, ReviewGoto
<1> QED BY <1>2, <1>9, <1>10, NothingTakenBack

LEMMA DeleteEntryInv ==
  ASSUME ReviewIInv, NEW r \in Requests, DeleteEntry(r)
  PROVE  ReviewIInv' /\ Reverted
<1>1. PICK m \in ReviewLocal : m = reviewMem[r]
  BY DEF ReviewIInv
<1>2. /\ reviewPc[r] = "unlog" /\ ReviewCarries("unlog", m) /\ (~reviewOverlap => ReviewHolds("unlog", m))
      /\ ReviewData /\ logged' = [logged EXCEPT ![m.entry] = None]
      /\ ReviewEnd(r) /\ UNCHANGED <<rec, recsMade, reviewOverlap, reviewCuts>>
  BY <1>1 DEF DeleteEntry, ReviewIInv
<1>3. PICK e \in 1 .. Len(logged) : e = m.entry
  BY <1>2 DEF ReviewCarries
<1>4. /\ logged' \in Seq(LogEntry \cup {None}) /\ Len(logged)' = Len(logged) /\ Len(logged) \in Nat
      /\ logged'[e] = None /\ \A d \in (1 .. Len(logged)) \ {e} : logged'[d] = logged[d]
  BY <1>2, <1>3 DEF ReviewData
<1>5. ReviewData'
  BY <1>2, <1>4 DEF ReviewData, Entries
<1>6. ReviewIInv'
  BY <1>2, <1>4, <1>5, ReviewEnds DEF ReviewIInv
<1>7. \A q \in Requests : ~(reviewPc[q] = "revert" /\ reviewPc'[q] = "mark")
  BY <1>2 DEF ReviewIInv, ReviewGoto, ReviewEnd
<1>8. ~reviewOverlap => IF logged[e].do = "CREATE" THEN rec[logged[e].of] = None
                        ELSE rec[logged[e].of].fields = logged[e].snapshot.fields
  BY <1>2, <1>3 DEF ReviewHolds
<1>9. Reverted
  BY <1>4, <1>7, <1>8 DEF Reverted, Entries
<1> QED BY <1>6, <1>9

-----------------------------------------------------------------------------
LEMMA ReviewInitInv == ReviewInit => ReviewIInv
<1> SUFFICES ASSUME ReviewInit PROVE ReviewIInv
  OBVIOUS
<1>1. ReviewData
  BY DEF ReviewInit, ReviewData, Entries
<1>2. \A r \in Requests : ReviewCarries(reviewPc[r], reviewMem[r]) /\ ReviewHolds(reviewPc[r], reviewMem[r])
  BY ReviewBlankFacts DEF ReviewInit
<1>3. 0 \in 0 .. MaxCuts
  BY OfficeAssumption
<1> QED BY <1>1, <1>2, <1>3, ReviewBlankFacts DEF ReviewInit, ReviewIInv, ReviewPlaces

LEMMA ReviewNextInv == ReviewIInv /\ [ReviewNext]_reviewVars => ReviewIInv' /\ [Reverted]_reviewVars
<1> SUFFICES ASSUME ReviewIInv, [ReviewNext]_reviewVars PROVE ReviewIInv' /\ [Reverted]_reviewVars
  OBVIOUS
<1>1. CASE UNCHANGED reviewVars
  BY <1>1, ReviewDataStay
     DEF reviewVars, reviewRows, ReviewIInv, ReviewCarries, ReviewHolds, LeftAlone
<1>2. ASSUME NEW r \in Requests, NEW u \in Records, NEW admin \in BOOLEAN,
             \/ \E set \in [Fields -> FieldValues] :
                  BeginHandler(r, u, "CREATE", set, admin) \/ BeginHandler(r, u, "UPDATE", set, admin)
             \/ BeginHandler(r, u, "DELETE", <<>>, admin)
      PROVE  ReviewIInv' /\ Reverted
  BY <1>2, BeginHandlerInv
<1>3. ASSUME NEW r \in Requests, NEW e \in Entries,
             (\E verdict \in {"APPROVED", "REJECTED"} : BeginReview(r, e, verdict)) \/ BeginUndo(r, e)
      PROVE  ReviewIInv' /\ Reverted
  BY <1>3, BeginReviewInv, BeginUndoInv
<1>4. ASSUME NEW r \in Requests,
             \/ HandleRequest(r) \/ WriteLog(r) \/ CutLog(r)
             \/ LookSince(r) \/ RevertUpdate(r) \/ MarkReviewed(r)
             \/ DeleteCreated(r) \/ RestoreEntity(r) \/ DeleteEntry(r) \/ RefuseReview(r)
      PROVE  ReviewIInv' /\ Reverted
  BY <1>4, HandleRequestInv, WriteLogInv, ReviewStopInv, LookSinceInv, RevertUpdateInv, MarkReviewedInv,
     UndoInv, DeleteEntryInv
<1> QED BY <1>1, <1>2, <1>3, <1>4 DEF ReviewNext

\* Records, the log and what requests hold of them always have their types
\* (audit.interceptor.ts, audit.service.ts).
THEOREM ReviewTypeCorrect == ReviewSpec => []ReviewTypeOK
<1>1. ReviewIInv => ReviewTypeOK
  BY DEF ReviewIInv, ReviewData, ReviewPlaces, ReviewTypeOK
<1> QED BY <1>1, ReviewInitInv, ReviewNextInv, PTL DEF ReviewSpec

\* Of requests one at a time: what a rejection takes back is what the rejected change had
\* left, a verdict is never given twice, and an undo leaves the record as the log says, for
\* any records, fields and lengths of the log (audit.service.ts: review, revertUpdate, undo).
THEOREM ReviewsRevertSoundly == ReviewSpec => RevertSound
  BY ReviewInitInv, ReviewNextInv, PTL DEF ReviewSpec, RevertSound

-----------------------------------------------------------------------------
(* The modules side by side.  A step of one is a stuttering step of the     *)
(* others, so what is proved of each holds of their runs together.          *)

LEMMA AloneMoves ==
  ASSUME [UpkeepNext]_upkeepVars
  PROVE  /\ [Next]_vars /\ [DiscountNext]_discVars /\ [ProductNext]_prodVars
         /\ [LabelNext]_labelVars /\ [ReviewNext]_reviewVars /\ UNCHANGED part
<1>1. CASE UNCHANGED upkeepVars
  BY <1>1 DEF upkeepVars
<1>2. CASE Alone("dues") /\ Next
  BY <1>2 DEF Alone
<1>3. CASE Alone("discounts") /\ DiscountNext
  BY <1>3 DEF Alone
<1>4. CASE Alone("products") /\ ProductNext
  BY <1>4 DEF Alone
<1>5. CASE Alone("labels") /\ LabelNext
  BY <1>5 DEF Alone
<1>6. CASE Alone("reviews") /\ ReviewNext
  BY <1>6 DEF Alone
<1> QED BY <1>1, <1>2, <1>3, <1>4, <1>5, <1>6 DEF UpkeepNext

\* A behaviour of the modules side by side is one of each of them.
THEOREM EachUpkept ==
  UpkeepSpec => DiscountSpec /\ ProductSpec /\ LabelSpec /\ ReviewSpec /\ Init /\ [][Next]_vars
<1>1. UpkeepInit => Init /\ DiscountInit /\ ProductInit /\ LabelInit /\ ReviewInit
  BY DEF UpkeepInit
<1>2. [UpkeepNext]_upkeepVars => /\ [Next]_vars /\ [DiscountNext]_discVars /\ [ProductNext]_prodVars
                                 /\ [LabelNext]_labelVars /\ [ReviewNext]_reviewVars
  BY AloneMoves
<1> QED BY <1>1, <1>2, PTL DEF UpkeepSpec, DiscountSpec, ProductSpec, LabelSpec, ReviewSpec

\* Every column of the module that moves has its type, for any schedules, calendars, products,
\* labels, records and requests.
THEOREM UpkeepTypeCorrect == UpkeepSpec => []UpkeepTypeOK
<1>1. UpkeepInit => part \in Parts /\ TypeOK
  BY InitInv DEF UpkeepInit, IInv
<1>2. part \in Parts /\ TypeOK /\ [UpkeepNext]_upkeepVars => (part \in Parts /\ TypeOK)'
  BY AloneMoves, NextType
<1>3. /\ part \in Parts /\ TypeOK
      /\ DiscountTypeOK /\ ProductTypeOK /\ LabelTypeOK /\ ReviewTypeOK
      /\ part \in {"dues", "discounts", "products", "labels", "reviews"}
      => UpkeepTypeOK
  BY DEF UpkeepTypeOK
<1>4. part \in Parts => part \in {"dues", "discounts", "products", "labels", "reviews"}
  BY UpkeepAssumption
<1> QED BY <1>1, <1>2, <1>3, <1>4, EachUpkept, DiscountTypeCorrect, ProductTypeCorrect,
           LabelTypeCorrect,
           ReviewTypeCorrect, PTL DEF UpkeepSpec

=============================================================================
