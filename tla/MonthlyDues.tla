------------------------------ MODULE MonthlyDues ------------------------------
(***************************************************************************)
(* Fixed monthly expenses of a warehouse: schedules, the dues that         *)
(* processDue generates from them whenever somebody looks, and their       *)
(* payment.  There is no cron: every screen that shows schedules or dues   *)
(* runs processDue first, so several runs overlap, each with the schedules *)
(* and lastApplied it read at its start.                                   *)
(*                                                                         *)
(* Time is counted in half months; a schedule falls due in one half of     *)
(* each month.                                                             *)
(***************************************************************************)
EXTENDS Office

CONSTANTS
    Schedules,  \* ids of WarehouseExpenseSchedule rows; each is used once
    Horizon,    \* bound of the model: the last month
    Limit       \* the most occurrences monthlyOccurrences returns (240 in the code)

Months == 0 .. Horizon
Never == -1   \* no lastApplied yet

ASSUME DuesAssumption ==
    /\ Horizon \in Nat /\ Limit \in Nat \ {0}
    /\ MaxCuts \in Nat
    /\ None \notin Schedules
    /\ None \notin [start : Months, half : {0, 1}, last : Months \cup {Never}]

VARIABLES
    now,       \* the half month that has come
    schedule,  \* the row of each id, None while there is none
    created,   \* schedule ids given out so far
    due,       \* the WarehouseExpenseDue of each schedule and month
    payments,  \* cash-outs posted for it
    pc,        \* where each request is
    mem,       \* what each request has read
    cuts       \* requests cut off so far

vars == <<now, schedule, created, due, payments, pc, mem, cuts>>

Blank == [now |-> 0, rows |-> [s \in Schedules |-> None], todo |-> {},
          cur |-> None, left |-> {}, key |-> Never, month |-> 0]

Exists(s) == schedule[s] # None

Goto(r, l) == pc' = [pc EXCEPT ![r] = l]
Remember(r, m) == mem' = [mem EXCEPT ![r] = m]
End(r) == Goto(r, "idle") /\ Remember(r, Blank)

Tick ==
    /\ now < 2 * Horizon + 1
    /\ now' = now + 1
    /\ UNCHANGED <<schedule, created, due, payments, pc, mem, cuts>>

-----------------------------------------------------------------------------
(* processDue                                                              *)

Come(row, m, t) == row.start <= m /\ 2 * m + row.half <= t

\* monthlyOccurrences, as the months it returns dates of
Occurrences(row, t) == {m \in Months : Come(row, m, t) /\ m - row.start < Limit}

\* createSchedule runs processDue as soon as the row is there
CreateSchedule(r, s, half) ==
    /\ pc[r] = "idle"
    /\ s \notin created
    /\ created' = created \cup {s}
    /\ schedule' = [schedule EXCEPT ![s] = [start |-> now \div 2, half |-> half, last |-> Never]]
    /\ Goto(r, "list")
    /\ UNCHANGED <<now, due, payments, mem, cuts>>

\* listSchedules, listDues and dueCount
Look(r) ==
    /\ pc[r] = "idle"
    /\ Goto(r, "list")
    /\ UNCHANGED <<now, schedule, created, due, payments, mem, cuts>>

Listed == {s \in Schedules : Exists(s)}

List(r) ==
    /\ pc[r] = "list"
    /\ Goto(r, "next")
    /\ Remember(r, [Blank EXCEPT !.now = now, !.rows = schedule,
                                 !.todo = Listed])
    /\ UNCHANGED <<now, schedule, created, due, payments, cuts>>

LeftAfterNext(row, t) == {m \in Occurrences(row, t) : m > row.last + 1}   \* mutant: off by one
Left(row, t) == {m \in Occurrences(row, t) : m > row.last}

NextSchedule(r, s) ==
    LET left == Left(mem[r].rows[s], mem[r].now) IN
    /\ pc[r] = "next"
    /\ s \in mem[r].todo
    /\ Goto(r, IF left = {} THEN "next" ELSE "upsert")
    /\ Remember(r, [mem[r] EXCEPT !.todo = @ \ {s}, !.cur = s, !.left = left])
    /\ UNCHANGED <<now, schedule, created, due, payments, cuts>>

UpsertedReopened(d) == "open"   \* mutant: an existing due is written again
Upserted(d) == IF d = "none" THEN "open" ELSE d

\* the unique key (scheduleId, period): a due that is there stays as it is
UpsertDue(r, m) ==
    LET s == mem[r].cur IN
    /\ pc[r] = "upsert"
    /\ m \in mem[r].left /\ \A n \in mem[r].left : m <= n
    /\ Exists(s)
    /\ due' = [due EXCEPT ![s][m] = Upserted(@)]
    /\ Goto(r, IF mem[r].left = {m} THEN "mark" ELSE "upsert")
    /\ Remember(r, [mem[r] EXCEPT !.left = @ \ {m}, !.key = m])
    /\ UNCHANGED <<now, schedule, created, payments, cuts>>

\* mutants: the month to come next; the month of the reading, not the last generated
AppliedNext(m) == m.key + 1
AppliedNow(m) == IF m.now \div 2 \in Months THEN m.now \div 2 ELSE m.key
Applied(m) == m.key

MarkApplied(r) ==
    LET s == mem[r].cur IN
    /\ pc[r] = "mark"
    /\ Exists(s)
    /\ schedule' = [schedule EXCEPT ![s].last = Applied(mem[r])]
    /\ Goto(r, "next")
    /\ UNCHANGED <<now, created, due, payments, mem, cuts>>

Processed(r) ==
    /\ pc[r] = "next"
    /\ mem[r].todo = {}
    /\ End(r)
    /\ UNCHANGED <<now, schedule, created, due, payments, cuts>>

-----------------------------------------------------------------------------
(* payDue looks at the due first; the cash-out and the flag are one commit. *)

BeginPay(r, s, m) ==
    /\ pc[r] = "idle"
    /\ due[s][m] = "open"
    /\ Goto(r, "pay")
    /\ Remember(r, [Blank EXCEPT !.cur = s, !.month = m])
    /\ UNCHANGED <<now, schedule, created, due, payments, cuts>>

Flagged(d) == "paid"

WritePay(r) ==
    LET s == mem[r].cur
        m == mem[r].month
    IN
    /\ pc[r] = "pay"
    /\ due[s][m] # "none"
    /\ due' = [due EXCEPT ![s][m] = Flagged(@)]
    /\ payments' = [payments EXCEPT ![s][m] = @ + 1]
    /\ End(r)
    /\ UNCHANGED <<now, schedule, created, cuts>>

\* the dues of a schedule go with it (onDelete: Cascade)
RemoveSchedule(s) ==
    /\ Exists(s)
    /\ schedule' = [schedule EXCEPT ![s] = None]
    /\ due' = [due EXCEPT ![s] = [m \in Months |-> "none"]]
    /\ UNCHANGED <<now, created, payments, pc, mem, cuts>>

-----------------------------------------------------------------------------
\* A statement that finds its row gone ends processDue for the other schedules
\* too (the screen swallows the error), or undoes the payment.
Refused(r) ==
    \/ pc[r] \in {"upsert", "mark"} /\ ~Exists(mem[r].cur)
    \/ pc[r] = "pay" /\ due[mem[r].cur][mem[r].month] = "none"

Refuse(r) ==
    /\ Refused(r)
    /\ End(r)
    /\ UNCHANGED <<now, schedule, created, due, payments, cuts>>

CutOff(r) ==
    /\ cuts < MaxCuts
    /\ pc[r] # "idle"
    /\ cuts' = cuts + 1
    /\ End(r)
    /\ UNCHANGED <<now, schedule, created, due, payments>>

Step(r) ==
    \/ List(r)
    \/ \E s \in Schedules : NextSchedule(r, s)
    \/ \E m \in Months : UpsertDue(r, m)
    \/ MarkApplied(r) \/ Processed(r)
    \/ WritePay(r) \/ Refuse(r)

Init ==
    /\ now = 0
    /\ schedule = [s \in Schedules |-> None] /\ created = {}
    /\ due = [s \in Schedules |-> [m \in Months |-> "none"]]
    /\ payments = [s \in Schedules |-> [m \in Months |-> 0]]
    /\ pc = [r \in Requests |-> "idle"]
    /\ mem = [r \in Requests |-> Blank]
    /\ cuts = 0

Next ==
    \/ Tick
    \/ \E s \in Schedules : RemoveSchedule(s)
    \/ \E r \in Requests :
        \/ Look(r) \/ Step(r) \/ CutOff(r)
        \/ \E s \in Schedules, half \in {0, 1} : CreateSchedule(r, s, half)
        \/ \E s \in Schedules, m \in Months : BeginPay(r, s, m)

Spec == Init /\ [][Next]_vars

-----------------------------------------------------------------------------
(* Properties.                                                             *)

ScheduleRow == [start : Months, half : {0, 1}, last : Months \cup {Never}]

LocalState ==
    [now : 0 .. 2 * Horizon + 1, rows : [Schedules -> ScheduleRow \cup {None}],
     todo : SUBSET Schedules, cur : Schedules \cup {None}, left : SUBSET Months,
     key : Months \cup {Never}, month : Months]

\* Every column and every local of a request has its type.
TypeOK ==
    /\ now \in 0 .. 2 * Horizon + 1
    /\ schedule \in [Schedules -> ScheduleRow \cup {None}]
    /\ created \subseteq Schedules
    /\ due \in [Schedules -> [Months -> {"none", "open", "paid"}]]
    /\ payments \in [Schedules -> [Months -> Nat]]
    /\ pc \in [Requests -> {"idle", "list", "next", "upsert", "mark", "pay"}]
    /\ mem \in [Requests -> LocalState]
    /\ cuts \in Nat

\* Months up to lastApplied are never looked at again, so all of them must have
\* their due: overlapping runs that write lastApplied in any order, and runs
\* that are cut off, leave no gap behind it.
NoGaps ==
    \A s \in Schedules : Exists(s) =>
        \A m \in Months : schedule[s].start <= m /\ m <= schedule[s].last => due[s][m] # "none"

\* payDue is the only place that touches the treasury: wherever a request is cut
\* off, an open due has cost nothing and a paid one has been paid.
PaidWithCash ==
    \A s \in Schedules, m \in Months :
        /\ due[s][m] = "open" => payments[s][m] = 0
        /\ due[s][m] = "paid" => payments[s][m] > 0

\* A due that has been paid is refused (warehouse-expenses.repository.ts:99):
\* no due is paid twice.
PaidOnce == \A s \in Schedules, m \in Months : payments[s][m] <= 1

\* A request that has begun goes on, and somebody keeps looking.
Fairness == \A r \in Requests : WF_vars(Step(r)) /\ SF_vars(Look(r))

FairSpec == Spec /\ Fairness

\* Every month of a schedule, up to and including the one that has come, gets
\* its due (warehouse-expenses.repository.ts:7, 54), missed months included.
EveryMonthDue ==
    \A s \in Schedules, m \in Months :
        (Exists(s) /\ Come(schedule[s], m, now)) ~> (~Exists(s) \/ due[s][m] # "none")

=============================================================================
