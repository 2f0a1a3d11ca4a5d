------------------------------- MODULE Discounts -------------------------------
(***************************************************************************)
(* Discounts of parties: by hand, and from schedules that processDue works *)
(* off whenever somebody looks at the list.  Each is posted to the ledger  *)
(* in the commit that makes it, and the unique key (scheduleId, date)      *)
(* refuses a second one.  Runs of processDue overlap, each with the        *)
(* schedules and lastApplied that it read at its start.                    *)
(*                                                                         *)
(* Days are counted through; MonthLength has the lengths of the months.    *)
(***************************************************************************)
EXTENDS Office, Sequences, FiniteSets, FiniteSetsExt

CONSTANTS
    DiscountSchedules,  \* ids of DiscountSchedule rows; each is used once
    MonthLength,        \* a sequence
    Periods,            \* months from one occurrence to the next (1, 3 and 12 in the code)
    StartDays,          \* days that users enter
    DiscountLimit,      \* the most occurrences (240 in the code)
    MaxDropped,         \* bound of the model: discounts deleted
    MaxDiscountBegun    \* bound of the model: requests begun where they may overlap

MonthNo == 1 .. Len(MonthLength)
MonthStart[m \in 1 .. Len(MonthLength) + 1] ==
    IF m = 1 THEN 0 ELSE MonthStart[m - 1] + MonthLength[m - 1]
LastDay == MonthStart[Len(MonthLength) + 1]
Days == 1 .. LastDay
NoDay == 0   \* no lastApplied yet

PlanRow == [start : Days, step : Periods, percent : BOOLEAN, last : Days \cup {NoDay}]
DiscountKey == [of : DiscountSchedules \cup {None}, date : Days]
DiscountLocal == [now : 0 .. LastDay, rows : [DiscountSchedules -> PlanRow \cup {None}],
                  todo : SUBSET DiscountSchedules, cur : DiscountSchedules \cup {None},
                  left : SUBSET Days, key : Days \cup {NoDay}]

ASSUME DiscountAssumption ==
    /\ MonthLength \in Seq(Nat \ {0}) /\ MonthLength # <<>>
    /\ Periods \subseteq Nat \ {0} /\ StartDays \subseteq Days
    /\ DiscountLimit \in Nat \ {0} /\ MaxDropped \in Nat /\ MaxDiscountBegun \in Nat
    /\ None \notin DiscountSchedules \cup PlanRow

VARIABLES
    today,
    plan,         \* the DiscountSchedule of each id, None while there is none
    plansMade,
    discount,     \* discounts, by schedule (None: by hand) and date
    discountTx,   \* their entries in the ledger
    worthless,    \* dates of schedules whose discount came to nothing
    dropped,      \* discounts that somebody deleted
    discPc, discMem,
    discOverlap,  \* runs may be in progress together (fixed from the start)
    discBegun, discCuts

discRows == <<plan, plansMade, discount, discountTx, worthless, dropped>>
discVars == <<today, discRows, discPc, discMem, discOverlap, discBegun, discCuts>>

Planned(s) == plan[s] # None

DiscBlank == [now |-> 0, rows |-> [s \in DiscountSchedules |-> None], todo |-> {},
              cur |-> None, left |-> {}, key |-> NoDay]

DiscGoto(r, l) == discPc' = [discPc EXCEPT ![r] = l]
DiscRemember(r, m) == discMem' = [discMem EXCEPT ![r] = m]
DiscEnd(r) == DiscGoto(r, "idle") /\ DiscRemember(r, DiscBlank)
DiscountsIdle == \A r \in Requests : discPc[r] = "idle"
EnterDiscount(r) ==
    /\ discPc[r] = "idle"
    /\ IF discOverlap THEN discBegun < MaxDiscountBegun /\ discBegun' = discBegun + 1
                      ELSE DiscountsIdle /\ UNCHANGED discBegun

-----------------------------------------------------------------------------
(* occurrencesUpTo.  setMonth keeps the day of the month, and a day that   *)
(* the month does not have runs over into the next.                        *)

MonthOf(d) == CHOOSE m \in MonthNo : MonthStart[m] < d /\ d <= MonthStart[m + 1]

Later(d, step) ==
    LET m == MonthOf(d) IN
    IF m + step \in MonthNo THEN MonthStart[m + step] + (d - MonthStart[m]) ELSE LastDay + 1

DiscountDates(start, step) ==
    LET occ[n \in 0 .. DiscountLimit] ==
            IF n = 0 THEN start ELSE IF occ[n - 1] \in Days THEN Later(occ[n - 1], step) ELSE LastDay + 1
    IN {occ[n] : n \in 0 .. DiscountLimit - 1} \cap Days

OccurrencesUpTo(start, step, t) == {d \in DiscountDates(start, step) : d <= t}

-----------------------------------------------------------------------------
NextDay ==
    /\ today < LastDay
    /\ today' = today + 1
    /\ UNCHANGED <<discRows, discPc, discMem, discOverlap, discBegun, discCuts>>

\* createSchedule, and processDue as soon as the row is there
CreatePlan(r, s, start, step, percent) ==
    /\ EnterDiscount(r)
    /\ s \notin plansMade
    /\ plansMade' = plansMade \cup {s}
    /\ plan' = [plan EXCEPT ![s] = [start |-> start, step |-> step, percent |-> percent, last |-> NoDay]]
    /\ DiscGoto(r, "list")
    /\ UNCHANGED <<today, discount, discountTx, worthless, dropped, discMem, discOverlap, discCuts>>

\* the list of discounts
LookDiscounts(r) ==
    /\ EnterDiscount(r)
    /\ DiscGoto(r, "list")
    /\ UNCHANGED <<today, discRows, discMem, discOverlap, discCuts>>

ListPlans(r) ==
    /\ discPc[r] = "list"
    /\ DiscGoto(r, "next")
    /\ DiscRemember(r, [DiscBlank EXCEPT !.now = today, !.rows = plan,
                                         !.todo = {s \in DiscountSchedules : Planned(s)}])
    /\ UNCHANGED <<today, discRows, discOverlap, discBegun, discCuts>>

NextPlan(r, s) ==
    LET m == discMem[r]
        row == m.rows[s]
        left == {d \in OccurrencesUpTo(row.start, row.step, m.now) : d > row.last}
    IN
    /\ discPc[r] = "next"
    /\ s \in m.todo
    /\ DiscGoto(r, IF left = {} THEN "next" ELSE "post")
    /\ DiscRemember(r, [m EXCEPT !.todo = @ \ {s}, !.cur = s, !.left = left])
    /\ UNCHANGED <<today, discRows, discOverlap, discBegun, discCuts>>

\* the discount and its entry, unless the key is there already
PostedOnce(key) == discount' = discount \cup {key} /\ discountTx' = discountTx \cup {key}

\* Every occurrence that is left, the earliest first; a share of the goods of the
\* period (percent) may come to nothing.
PostDiscount(r) ==
    LET m == discMem[r]
        s == m.cur
        d == Min(m.left)
    IN
    /\ discPc[r] = "post"
    /\ \/ /\ Planned(s)
          /\ PostedOnce([of |-> s, date |-> d])
          /\ UNCHANGED worthless
       \/ /\ m.rows[s].percent
          /\ worthless' = worthless \cup {[of |-> s, date |-> d]}
          /\ UNCHANGED <<discount, discountTx>>
    /\ DiscGoto(r, IF m.left = {d} THEN "mark" ELSE "post")
    /\ DiscRemember(r, [m EXCEPT !.left = @ \ {d}, !.key = d])
    /\ UNCHANGED <<today, plan, plansMade, dropped, discOverlap, discBegun, discCuts>>

\* mutant: the day to look from the next time
AppliedPast(m) == IF m.key + 1 \in Days THEN m.key + 1 ELSE m.key
AppliedLast(m) == m.key

MarkPlan(r) ==
    LET s == discMem[r].cur IN
    /\ discPc[r] = "mark"
    /\ Planned(s)
    /\ plan' = [plan EXCEPT ![s].last = AppliedLast(discMem[r])]
    /\ DiscGoto(r, "next")
    /\ UNCHANGED <<today, plansMade, discount, discountTx, worthless, dropped, discMem,
                   discOverlap, discBegun, discCuts>>

DiscountsListed(r) ==
    /\ discPc[r] = "next" /\ discMem[r].todo = {}
    /\ DiscEnd(r)
    /\ UNCHANGED <<today, discRows, discOverlap, discBegun, discCuts>>

\* A row that is gone ends the run for the other schedules too: the list
\* swallows the error.
RefusePlan(r) ==
    /\ discPc[r] \in {"post", "mark"} /\ ~Planned(discMem[r].cur)
    /\ DiscEnd(r)
    /\ UNCHANGED <<today, discRows, discOverlap, discBegun, discCuts>>

CutDiscounts(r) ==
    /\ discPc[r] # "idle" /\ discCuts < MaxCuts
    /\ discCuts' = discCuts + 1
    /\ DiscEnd(r)
    /\ UNCHANGED <<today, discRows, discOverlap, discBegun>>

-----------------------------------------------------------------------------
\* the discounts of a schedule stay and forget it (onDelete: SetNull)
RemovePlan(s) ==
    /\ discOverlap \/ DiscountsIdle
    /\ Planned(s)
    /\ plan' = [plan EXCEPT ![s] = None]
    /\ UNCHANGED <<today, plansMade, discount, discountTx, worthless, dropped, discPc, discMem,
                   discOverlap, discBegun, discCuts>>

\* bound of the model: one
CreateDiscount(d) ==
    LET key == [of |-> None, date |-> d] IN
    /\ discOverlap \/ DiscountsIdle
    /\ \A k \in discount \cup dropped : k.of # None
    /\ PostedOnce(key)
    /\ UNCHANGED <<today, plan, plansMade, worthless, dropped, discPc, discMem,
                   discOverlap, discBegun, discCuts>>

\* its entry goes with it (onDelete: Cascade), if the user says so
RemoveDiscount(key, cascade) ==
    /\ discOverlap \/ DiscountsIdle
    /\ Cardinality(dropped) < MaxDropped
    /\ cascade \/ key \notin discountTx
    /\ discount' = discount \ {key}
    /\ discountTx' = discountTx \ {key}
    /\ dropped' = dropped \cup {key}
    /\ UNCHANGED <<today, plan, plansMade, worthless, discPc, discMem,
                   discOverlap, discBegun, discCuts>>

StepDiscount(r) ==
    \/ ListPlans(r)
    \/ \E s \in DiscountSchedules : NextPlan(r, s)
    \/ PostDiscount(r) \/ MarkPlan(r) \/ DiscountsListed(r) \/ RefusePlan(r)

DiscountInit ==
    /\ today = 1
    /\ plan = [s \in DiscountSchedules |-> None] /\ plansMade = {}
    /\ discount = {} /\ discountTx = {} /\ worthless = {} /\ dropped = {}
    /\ discPc = [r \in Requests |-> "idle"]
    /\ discMem = [r \in Requests |-> DiscBlank]
    /\ discOverlap \in BOOLEAN /\ discBegun = 0 /\ discCuts = 0

DiscountNext ==
    \/ NextDay
    \/ \E s \in DiscountSchedules : RemovePlan(s)
    \/ \E d \in StartDays : CreateDiscount(d)
    \/ \E key \in discount, cascade \in BOOLEAN : RemoveDiscount(key, cascade)
    \/ \E r \in Requests :
        \/ LookDiscounts(r) \/ StepDiscount(r) \/ CutDiscounts(r)
        \/ \E s \in DiscountSchedules, start \in StartDays \cap 1 .. today,
              step \in Periods, percent \in BOOLEAN : CreatePlan(r, s, start, step, percent)

DiscountSpec == DiscountInit /\ [][DiscountNext]_discVars

-----------------------------------------------------------------------------
(* Properties.                                                             *)

\* Every column and every local of a request has its type.
DiscountTypeOK ==
    /\ today \in Days
    /\ plan \in [DiscountSchedules -> PlanRow \cup {None}] /\ plansMade \subseteq DiscountSchedules
    /\ discount \cup discountTx \cup worthless \cup dropped \subseteq DiscountKey
    /\ discPc \in [Requests -> {"idle", "list", "next", "post", "mark"}]
    /\ discMem \in [Requests -> DiscountLocal]

\* However runs overlap and wherever they are cut off, a date up to lastApplied, which no
\* run looks at again, has its discount, unless that came to nothing or somebody deleted it.
NothingSkipped ==
    \A s \in DiscountSchedules : Planned(s) =>
        \A d \in OccurrencesUpTo(plan[s].start, plan[s].step, plan[s].last) :
            [of |-> s, date |-> d] \in discount \cup worthless \cup dropped

\* No occurrence falls in the month of another; a day that all months have stays the day.
DaysHold ==
    \A s \in DiscountSchedules : Planned(s) =>
        LET row == plan[s]
            day == row.start - MonthStart[MonthOf(row.start)]
            dates == {d \in Days : [of |-> s, date |-> d] \in discount}
        IN
        /\ \A d, e \in dates : MonthOf(d) = MonthOf(e) => d = e
        /\ (\A m \in MonthNo : day <= MonthLength[m]) => \A d \in dates :
              d - MonthStart[MonthOf(d)] = day /\ (MonthOf(d) - MonthOf(row.start)) % row.step = 0

\* What the schedules promise: nothing skipped, a discount and its entry in the ledger
\* never apart, and of one run at a time that is not cut off ("re-running doesn't
\* double-apply", discounts.repository.ts:67-68) no deleted discount comes back.
DiscountsPosted ==
    /\ NothingSkipped
    /\ DaysHold
    /\ discount = discountTx
    /\ ~discOverlap /\ discCuts = 0 => discount \cap dropped = {}

=============================================================================
