------------------------------- MODULE AgentLedger -------------------------------
(***************************************************************************)
(* The currency agents: their rows (DollarAgentTx), the twin that each of  *)
(* them has in the money log (Transaction), and the rows of the money log  *)
(* that are priced by the rate an agent last supplied dollars at.          *)
(*                                                                         *)
(* A supply of dollars, new or edited, reprices the priced rows in its own *)
(* data base transaction; the deletion of one does so afterwards, one      *)
(* commit a row.  Transactions run at READ COMMITTED: they read what was   *)
(* committed when a statement ran, and write at their commit.              *)
(***************************************************************************)
EXTENDS Office

CONSTANTS
    MaxAgentTx,   \* bound of the model: rows of agents, numbered as they are created
    MaxEntries,   \* bound of the model: rows of the money log, numbered likewise
    Supplies,     \* forms of a new row of an agent
    AgentEdits,   \* forms of an edit of one
    Moves,        \* forms of a new priced row
    EntryEdits,   \* forms of an edit of a row of the money log
    MaxAgentBegun \* bound of the model: requests begun where they may overlap

AgentIds == 1..MaxAgentTx
EntryIds == 1..MaxEntries
Positive == Nat \ {0}
Maybe(S) == S \cup {None}

AgentForm == [type : {"in", "out", "settle"}, date : Nat, amount : Positive, sign : {1, -1},
              rate : Nat, treasury : BOOLEAN]
AgentEdit == [date : Maybe(Nat), amount : Maybe(Positive), sign : Maybe({1, -1}),
              rate : Maybe(Positive), treasury : Maybe(BOOLEAN)]
MoveForm == [kind : {"transfer", "payment"}, date : Nat, amount : Positive]
EntryEdit == [date : Maybe(Nat), amount : Maybe(Positive)]

\* A row of an agent; a settlement has the sign of its direction.
AgentRow == [type : {"in", "out", "settle"}, date : Nat, amount : Int, rate : Nat,
             treasury : BOOLEAN, twin : Maybe(EntryIds)]
\* A row of the money log: the twin of a row of an agent, or one priced by the
\* agent, whose second amount is in the other currency.
EntryRow == [kind : {"in", "out", "settle", "transfer", "payment"}, date : Nat, amount : Int,
             rate : Nat, second : Int]

ASSUME AgentAssumption ==
    /\ MaxAgentTx \in Nat /\ MaxEntries \in Nat /\ MaxAgentBegun \in Nat
    /\ Supplies \subseteq AgentForm /\ AgentEdits \subseteq AgentEdit
    /\ Moves \subseteq MoveForm /\ EntryEdits \subseteq EntryEdit
    /\ \A f \in Supplies : f.type = "out" => f.rate > 0
    /\ \A f \in Supplies : f.type # "settle" => f.sign = 1
    /\ None \notin Int \cup BOOLEAN \cup AgentRow \cup EntryRow

VARIABLES
    agentTx,      \* the DollarAgentTx of each id, None while there is none
    agentTxs,     \* how many ids were given out
    ledgerTx,     \* the Transaction of each id, None while there is none
    entries,      \* how many ids were given out
    touched,      \* twins whose change on the screen of the money log was cut off, or
                  \* may have overlapped another; twins of a removed agent
    disturbed,    \* a rate, or the date of a priced row, changed without repricing
    agentPc,      \* where each request is
    agentMem,     \* what each request has read
    agentOverlap, \* requests may be in progress together (fixed from the start)
    agentBegun    \* requests begun so far, counted where they may overlap

agentTraffic == <<agentOverlap, agentBegun>>
agentVars == <<agentTx, agentTxs, ledgerTx, entries, touched, disturbed, agentPc, agentMem,
               agentTraffic>>

AgentBlank == [row |-> 0, new |-> None, twin |-> None, creates |-> FALSE, fresh |-> FALSE,
               entry |-> None, move |-> None, date |-> None, rates |-> {}, plan |-> {}]

AgentGoto(r, l) == agentPc' = [agentPc EXCEPT ![r] = l]
AgentRemember(r, m) == agentMem' = [agentMem EXCEPT ![r] = m]
AgentEnd(r) == AgentGoto(r, "idle") /\ AgentRemember(r, AgentBlank)
AgentsIdle == \A q \in Requests : agentPc[q] = "idle"
EnterAgent(r) ==
    /\ agentPc[r] = "idle"
    /\ IF agentOverlap THEN agentBegun < MaxAgentBegun /\ agentBegun' = agentBegun + 1
                       ELSE AgentsIdle /\ UNCHANGED agentBegun
    /\ UNCHANGED agentOverlap
\* what another screen does at once, in between or between requests
MeanwhileOrBetween == (agentOverlap \/ AgentsIdle) /\ UNCHANGED <<agentPc, agentMem, agentTraffic>>

NextEntry == entries + 1

Given(x, old) == IF x = None THEN old ELSE x

-----------------------------------------------------------------------------
(* Rates: the last one up to a date, and the first one before that.        *)

RatesOf(rows) ==
    {[date |-> rows[n].date, seq |-> n, rate |-> rows[n].rate] :
        n \in {k \in AgentIds : rows[k] # None /\ rows[k].type = "out" /\ rows[k].rate > 0}}

NotAfter(x, y) == x.date < y.date \/ (x.date = y.date /\ x.seq <= y.seq)

LastOf(rates, d) == {x \in rates : \A y \in rates : NotAfter(y, x)}   \* mutant: whatever the date
InForce(rates, d) ==
    LET before == {x \in rates : x.date <= d} IN
    IF before # {} THEN {x \in before : \A y \in before : NotAfter(y, x)}
                   ELSE {x \in rates : \A y \in rates : NotAfter(x, y)}

Priced(t) == ledgerTx[t] # None /\ ledgerTx[t].kind \in {"transfer", "payment"}

Exchanged(amount, rate) == amount * rate

Quote(t, x) == [entry |-> t, rate |-> x.rate, second |-> Exchanged(ledgerTx[t].amount, x.rate)]
\* what repriceAgentRows is going to write
Quotes(rates) ==
    UNION {{Quote(t, x) : x \in InForce(rates, ledgerTx[t].date)} : t \in {e \in EntryIds : Priced(e)}}

Quoted(t, p) == [ledgerTx[t] EXCEPT !.rate = p.rate, !.second = p.second]

-----------------------------------------------------------------------------
(* Rows of an agent and their twins.                                       *)

NewRow(f, t) == [type |-> f.type, date |-> f.date, amount |-> f.sign * f.amount, rate |-> f.rate,
                 treasury |-> f.treasury, twin |-> t]

SignOf(n) == IF n < 0 THEN -1 ELSE 1
SizeOf(n) == IF n < 0 THEN -n ELSE n

Edited(row, f) ==
    [row EXCEPT
        !.date = Given(f.date, @),
        !.amount = (IF row.type = "settle" THEN Given(f.sign, SignOf(@)) ELSE SignOf(@))
                       * Given(f.amount, SizeOf(@)),
        !.rate = IF row.type = "out" THEN Given(f.rate, @) ELSE @,
        !.treasury = IF row.type = "out" THEN @ ELSE Given(f.treasury, @)]

TwinOf(row) ==
    [kind |-> row.type, date |-> row.date, amount |-> row.amount, rate |-> row.rate, second |-> 0]

\* egpIn, settle: a settlement that passes through no treasury has no twin
AddMoney(f) ==
    LET n == agentTxs + 1 t == NextEntry IN
    /\ MeanwhileOrBetween
    /\ f.type # "out" /\ n <= MaxAgentTx
    /\ agentTxs' = n
    /\ IF f.type = "settle" /\ ~f.treasury
       THEN /\ agentTx' = [agentTx EXCEPT ![n] = NewRow(f, None)]
            /\ UNCHANGED <<ledgerTx, entries>>
       ELSE /\ t <= MaxEntries
            /\ agentTx' = [agentTx EXCEPT ![n] = NewRow(f, t)]
            /\ ledgerTx' = [ledgerTx EXCEPT ![t] = TwinOf(NewRow(f, t))]
            /\ entries' = t
    /\ UNCHANGED <<touched, disturbed>>

\* usdOut, up to its reading of the rates: its own row is among them
BeginSupply(r, f) ==
    LET n == agentTxs + 1 t == NextEntry IN
    /\ EnterAgent(r)
    /\ f.type = "out" /\ n <= MaxAgentTx /\ t <= MaxEntries
    /\ agentTxs' = n /\ entries' = t
    /\ AgentRemember(r, [AgentBlank EXCEPT
          !.row = n, !.new = NewRow(f, t), !.twin = t, !.creates = TRUE, !.fresh = TRUE,
          !.rates = RatesOf([agentTx EXCEPT ![n] = NewRow(f, t)])])
    /\ AgentGoto(r, "rows")
    /\ UNCHANGED <<agentTx, ledgerTx, touched, disturbed>>

\* updateAgentTx: the row is read, the form laid over it
BeginEdit(r, n, f) ==
    /\ EnterAgent(r)
    /\ agentTx[n] # None
    /\ AgentRemember(r, [AgentBlank EXCEPT !.row = n, !.new = Edited(agentTx[n], f),
                                           !.twin = agentTx[n].twin])
    /\ AgentGoto(r, "edit")
    /\ UNCHANGED <<agentTx, agentTxs, ledgerTx, entries, touched, disturbed>>

\* a settlement that had no treasury and has one now gets its twin
NeedsTwin(m) == m.new.type = "settle" /\ m.twin = None /\ m.new.treasury

EditRow(r) ==
    LET m == agentMem[r] t == NextEntry IN
    /\ agentPc[r] = "edit"
    /\ agentTx[m.row] # None
    /\ IF NeedsTwin(m)
       THEN /\ t <= MaxEntries
            /\ entries' = t
            /\ AgentRemember(r, [m EXCEPT !.twin = t, !.fresh = TRUE])
       ELSE /\ AgentRemember(r, IF m.new.type = "out"
                                THEN [m EXCEPT !.rates = RatesOf([agentTx EXCEPT ![m.row] = m.new])]
                                ELSE m)
            /\ UNCHANGED entries
    /\ AgentGoto(r, IF m.new.type = "out" THEN "rows" ELSE "write")
    /\ UNCHANGED <<agentTx, agentTxs, ledgerTx, touched, disturbed, agentTraffic>>

\* repriceAgentRows, in the transaction of its caller or after it
ReadPriced(r) ==
    LET m == agentMem[r] IN
    /\ agentPc[r] \in {"rows", "rowsAfter"}
    /\ AgentRemember(r, [m EXCEPT !.plan = Quotes(m.rates)])
    /\ AgentGoto(r, IF agentPc[r] = "rows" THEN "write" ELSE "price")
    /\ UNCHANGED <<agentTx, agentTxs, ledgerTx, entries, touched, disturbed, agentTraffic>>

Writable(m) ==
    /\ m.creates \/ agentTx[m.row] # None
    /\ m.fresh \/ m.twin \in {t \in EntryIds : ledgerTx[t] # None} \cup {None}
    /\ \A p \in m.plan : ledgerTx[p.entry] # None

WriteAgentTx(r) ==
    LET m == agentMem[r] IN
    /\ agentPc[r] = "write"
    /\ Writable(m)
    /\ agentTx' = [agentTx EXCEPT ![m.row] =
          IF m.creates THEN m.new
          ELSE [m.new EXCEPT !.twin = IF m.fresh THEN m.twin ELSE agentTx[m.row].twin]]
    /\ ledgerTx' = [t \in EntryIds |->
          IF t = m.twin THEN TwinOf(m.new)
          ELSE IF \E p \in m.plan : p.entry = t
               THEN Quoted(t, CHOOSE p \in m.plan : p.entry = t)
               ELSE ledgerTx[t]]
    /\ touched' = touched \ {m.twin}
    /\ disturbed' = (disturbed /\ m.new.type # "out")
    /\ AgentEnd(r)
    /\ UNCHANGED <<agentTxs, entries, agentTraffic>>

-----------------------------------------------------------------------------
(* deleteAgentTx                                                           *)

BeginDelete(r, n) ==
    /\ EnterAgent(r)
    /\ agentTx[n] # None
    /\ AgentRemember(r, [AgentBlank EXCEPT !.row = n, !.new = agentTx[n], !.twin = agentTx[n].twin])
    /\ AgentGoto(r, "cascade")
    /\ UNCHANGED <<agentTx, agentTxs, ledgerTx, entries, touched, disturbed>>

TwinsRows(t) == {n \in AgentIds : agentTx[n] # None /\ agentTx[n].twin = t}
Supplying(rows) == \E n \in rows : agentTx[n].type = "out"
WithoutEntry(t) == [ledgerTx EXCEPT ![t] = None]
WithoutRows(rows) == [n \in AgentIds |-> IF n \in rows THEN None ELSE agentTx[n]]

Cascade(r) ==
    LET m == agentMem[r] IN
    /\ agentPc[r] = "cascade"
    /\ IF m.twin # None
       THEN IF ledgerTx[m.twin] # None
            THEN /\ agentTx' = WithoutRows(TwinsRows(m.twin))
                 /\ ledgerTx' = WithoutEntry(m.twin)
            ELSE UNCHANGED <<agentTx, ledgerTx>>
       ELSE /\ agentTx[m.row] # None
            /\ agentTx' = WithoutRows({m.row})
            /\ UNCHANGED ledgerTx
    /\ IF m.new.type = "out" THEN AgentGoto(r, "rates") /\ UNCHANGED agentMem ELSE AgentEnd(r)
    /\ UNCHANGED <<agentTxs, entries, touched, disturbed, agentTraffic>>

\* without any rate the rows stay as they are
ReadRates(r) ==
    LET rates == RatesOf(agentTx) IN
    /\ agentPc[r] = "rates"
    /\ IF rates = {} THEN AgentEnd(r)
       ELSE /\ AgentRemember(r, [agentMem[r] EXCEPT !.rates = rates])
            /\ AgentGoto(r, "rowsAfter")
    /\ UNCHANGED <<agentTx, agentTxs, ledgerTx, entries, touched, disturbed, agentTraffic>>

PriceRow(r, p) ==
    LET m == agentMem[r] IN
    /\ agentPc[r] = "price"
    /\ p \in m.plan
    /\ ledgerTx[p.entry] # None
    /\ ledgerTx' = [ledgerTx EXCEPT ![p.entry] = Quoted(p.entry, p)]
    /\ AgentRemember(r, [m EXCEPT !.plan = @ \ {p}])
    /\ UNCHANGED <<agentTx, agentTxs, entries, touched, disturbed, agentPc, agentTraffic>>

AllPriced(r) ==
    /\ agentPc[r] = "price"
    /\ agentMem[r].plan = {}
    /\ disturbed' = FALSE
    /\ AgentEnd(r)
    /\ UNCHANGED <<agentTx, agentTxs, ledgerTx, entries, touched, agentTraffic>>

-----------------------------------------------------------------------------
(* Rows that are priced.  The rate is read first and the row written later. *)

BeginMove(r, f) ==
    /\ EnterAgent(r)
    /\ NextEntry <= MaxEntries
    /\ entries' = NextEntry
    /\ \E x \in InForce(RatesOf(agentTx), f.date) :
        AgentRemember(r, [AgentBlank EXCEPT !.entry = NextEntry, !.move =
              [kind |-> f.kind, date |-> f.date, amount |-> f.amount, rate |-> x.rate,
               second |-> Exchanged(f.amount, x.rate)]])
    /\ AgentGoto(r, "post")
    /\ UNCHANGED <<agentTx, agentTxs, ledgerTx, touched, disturbed>>

PostMove(r) ==
    LET m == agentMem[r] IN
    /\ agentPc[r] = "post"
    /\ ledgerTx' = [ledgerTx EXCEPT ![m.entry] = m.move]
    /\ AgentEnd(r)
    /\ UNCHANGED <<agentTx, agentTxs, entries, touched, disturbed, agentTraffic>>

\* A payment to a clearance office, edited on its own screen, is priced again.
BeginPayment(r, t, f) ==
    LET old == ledgerTx[t] date == Given(f.date, old.date) amount == Given(f.amount, old.amount) IN
    /\ EnterAgent(r)
    /\ old # None /\ old.kind = "payment"
    /\ \E x \in InForce(RatesOf(agentTx), date) :
        AgentRemember(r, [AgentBlank EXCEPT !.entry = t, !.date = f.date, !.move =
              [old EXCEPT !.amount = amount, !.rate = x.rate, !.second = Exchanged(amount, x.rate)]])
    /\ AgentGoto(r, "payment")
    /\ UNCHANGED <<agentTx, agentTxs, ledgerTx, entries, touched, disturbed>>

WritePayment(r) ==
    LET m == agentMem[r] IN
    /\ agentPc[r] = "payment"
    /\ ledgerTx[m.entry] # None
    /\ ledgerTx' = [ledgerTx EXCEPT ![m.entry] = [m.move EXCEPT !.date = Given(m.date, ledgerTx[m.entry].date)]]
    /\ AgentEnd(r)
    /\ UNCHANGED <<agentTx, agentTxs, entries, touched, disturbed, agentTraffic>>

-----------------------------------------------------------------------------
(* The screen of the money log (transactions.repository, update) writes    *)
(* the entry and then, in a commit of its own, the row it is the twin of.  *)
(* It never prices anything again.                                         *)

\* The two amounts are scaled alike, whichever of them the form names; here it
\* names the first one.
Rescaled(old, amount) ==
    [old EXCEPT !.amount = IF old.amount < 0 THEN -amount ELSE amount,
                !.second = IF old.amount = 0 THEN @ ELSE (amount * @) \div SizeOf(old.amount)]

BeginEntryEdit(r, t, f) ==
    LET old == ledgerTx[t] IN
    /\ EnterAgent(r)
    /\ old # None
    /\ AgentRemember(r, [AgentBlank EXCEPT !.entry = t, !.date = f.date,
          !.move = IF f.amount = None THEN None ELSE Rescaled(old, f.amount)])
    /\ AgentGoto(r, "entry")
    /\ UNCHANGED <<agentTx, agentTxs, ledgerTx, entries, touched, disturbed>>

WriteEntry(r) ==
    LET m == agentMem[r] old == ledgerTx[m.entry] IN
    /\ agentPc[r] = "entry"
    /\ old # None
    /\ ledgerTx' = [ledgerTx EXCEPT ![m.entry] =
          [old EXCEPT !.date = Given(m.date, @),
                      !.amount = IF m.move = None THEN @ ELSE m.move.amount,
                      !.second = IF m.move = None THEN @ ELSE m.move.second]]
    /\ disturbed' = (disturbed \/ (Priced(m.entry) /\ m.date \notin {None, old.date}))
    /\ IF Priced(m.entry) THEN AgentEnd(r) ELSE AgentGoto(r, "mirror") /\ UNCHANGED agentMem
    /\ UNCHANGED <<agentTx, agentTxs, entries, touched, agentTraffic>>

MirroredUndated(row, m) ==   \* mutant: the date is not mirrored
    [row EXCEPT !.amount = IF m.move = None THEN @ ELSE m.move.amount]
Mirrored(row, m) ==
    [row EXCEPT !.date = Given(m.date, @),
                !.amount = IF m.move = None THEN @ ELSE m.move.amount]

Mirror(r) ==
    LET m == agentMem[r] rows == TwinsRows(m.entry) IN
    /\ agentPc[r] = "mirror"
    /\ agentTx' = [n \in AgentIds |-> IF n \in rows THEN Mirrored(agentTx[n], m) ELSE agentTx[n]]
    /\ touched' = IF agentOverlap THEN touched \cup {m.entry} ELSE touched
    /\ disturbed' = (disturbed \/ \E n \in rows :
          agentTx[n].type = "out" /\ m.date \notin {None, agentTx[n].date})
    /\ AgentEnd(r)
    /\ UNCHANGED <<agentTxs, ledgerTx, entries, agentTraffic>>

\* a twin takes the row of the agent with it
RemoveEntry(t) ==
    /\ MeanwhileOrBetween
    /\ ledgerTx[t] # None
    /\ ledgerTx' = WithoutEntry(t)
    /\ agentTx' = WithoutRows(TwinsRows(t))
    /\ disturbed' = (disturbed \/ Supplying(TwinsRows(t)))
    /\ UNCHANGED <<agentTxs, entries, touched>>

\* An agent, with rows, is removed: the rows go (onDelete: Cascade), their
\* twins stay.
RemoveAgent(rows) ==
    /\ MeanwhileOrBetween
    /\ rows # {} /\ \A n \in rows : agentTx[n] # None
    /\ agentTx' = WithoutRows(rows)
    /\ touched' = touched \cup ({agentTx[n].twin : n \in rows} \ {None})
    /\ disturbed' = (disturbed \/ Supplying(rows))
    /\ UNCHANGED <<agentTxs, ledgerTx, entries>>

-----------------------------------------------------------------------------
\* A request stops: what its transaction has written goes with it, but what a
\* deletion has committed stays without its repricing.
StopAgent(r) ==
    /\ agentPc[r] # "idle"
    /\ disturbed' = (disturbed \/ agentPc[r] \in {"rates", "rowsAfter", "price"})
    /\ touched' = IF agentPc[r] = "mirror" THEN touched \cup {agentMem[r].entry} ELSE touched
    /\ AgentEnd(r)
    /\ UNCHANGED <<agentTx, agentTxs, ledgerTx, entries, agentTraffic>>

\* A request refused at once: a row or a treasury does not exist, there is no rate.
RejectAgent(r) == agentPc[r] = "idle" /\ UNCHANGED agentVars

BeginAgent(r) ==
    \/ RejectAgent(r)
    \/ \E f \in Supplies : BeginSupply(r, f)
    \/ \E n \in AgentIds : BeginDelete(r, n) \/ \E f \in AgentEdits : BeginEdit(r, n, f)
    \/ \E f \in Moves : BeginMove(r, f)
    \/ \E t \in EntryIds, f \in EntryEdits : BeginPayment(r, t, f) \/ BeginEntryEdit(r, t, f)

StepAgent(r) ==
    \/ EditRow(r) \/ ReadPriced(r) \/ WriteAgentTx(r)
    \/ Cascade(r) \/ ReadRates(r) \/ AllPriced(r)
    \/ \E p \in agentMem[r].plan : PriceRow(r, p)
    \/ PostMove(r) \/ WritePayment(r) \/ WriteEntry(r) \/ Mirror(r)
    \/ StopAgent(r)

AgentInit ==
    /\ agentTx = [n \in AgentIds |-> None] /\ agentTxs = 0
    /\ ledgerTx = [t \in EntryIds |-> None] /\ entries = 0
    /\ touched = {} /\ disturbed = FALSE
    /\ agentPc = [r \in Requests |-> "idle"]
    /\ agentMem = [r \in Requests |-> AgentBlank]
    /\ agentOverlap \in BOOLEAN /\ agentBegun = 0

AgentNext ==
    \/ \E r \in Requests : BeginAgent(r) \/ StepAgent(r)
    \/ \E f \in Supplies : AddMoney(f)
    \/ \E t \in EntryIds : RemoveEntry(t)
    \/ \E rows \in SUBSET AgentIds : RemoveAgent(rows)

AgentSpec == AgentInit /\ [][AgentNext]_agentVars

-----------------------------------------------------------------------------
(* Properties.                                                             *)

RateType == [date : Nat, seq : AgentIds, rate : Nat]
QuoteType == [entry : EntryIds, rate : Nat, second : Int]
AgentPlaces == {"idle", "rows", "write", "edit", "cascade", "rates", "rowsAfter", "price", "post",
                "payment", "entry", "mirror"}
AgentLocal ==
    [row : AgentIds \cup {0}, new : Maybe(AgentRow), twin : Maybe(EntryIds), creates : BOOLEAN,
     fresh : BOOLEAN, entry : Maybe(EntryIds), move : Maybe(EntryRow), date : Maybe(Nat),
     rates : SUBSET RateType, plan : SUBSET QuoteType]

\* Every column and every local of a request has its type.
AgentTypeOK ==
    /\ agentTx \in [AgentIds -> Maybe(AgentRow)] /\ agentTxs \in 0..MaxAgentTx
    /\ ledgerTx \in [EntryIds -> Maybe(EntryRow)]
    /\ entries \in 0..MaxEntries /\ touched \subseteq EntryIds /\ disturbed \in BOOLEAN
    /\ agentPc \in [Requests -> AgentPlaces] /\ agentMem \in [Requests -> AgentLocal]
    /\ agentOverlap \in BOOLEAN /\ agentBegun \in Nat

CalmAgents == ~agentOverlap /\ AgentsIdle
SameMoney(row, entry) ==
    entry # None /\ entry.kind = row.type /\ entry.date = row.date /\ entry.amount = row.amount
        /\ entry.rate = row.rate

Mirroring(t) == \E r \in Requests : agentPc[r] = "mirror" /\ agentMem[r].entry = t

\* "The balance of the agent, the treasury, the statement of the supplier and
\* the dollar cycle stay the same" (forex.repository.ts:146-147): a row of an
\* agent and its twin agree, however edits and deletions of rows overlap and
\* fail.  Of requests that come one at a time this holds also of settlements,
\* which may get their twin later, and after edits of the twin on the screen of
\* the money log (transactions.repository.ts:160-162).
TwinsAgree == \A n \in AgentIds :
    LET row == agentTx[n] IN
    /\ row # None /\ row.twin \notin touched \cup {None}
    /\ CalmAgents \/ (row.type # "settle" /\ ~Mirroring(row.twin))
    => SameMoney(row, ledgerTx[row.twin])

\* Of requests that come one at a time: no twin is left, or made, without a row
\* of an agent.
TwinsHaveRows == CalmAgents => \A t \in EntryIds :
    ledgerTx[t] # None /\ ~Priced(t) /\ t \notin touched => \E n \in AgentIds :
        agentTx[n] # None /\ agentTx[n].twin = t

\* "A priced row is calculated again when a rate of the agent is changed"
\* (agent-rate.ts:5-6, 24), of requests that come one at a time: after any
\* sequence of supplies, edits and deletions every priced row has a rate, and
\* the amount that it makes, later than which none was supplied up to the date
\* of the row; before the first supply the first one's.
PricesCurrent == CalmAgents /\ ~disturbed => \A t \in EntryIds : Priced(t) =>
    LET rates == RatesOf(agentTx) date == ledgerTx[t].date IN
    rates # {} => \E x \in rates :
        /\ ledgerTx[t].rate = x.rate
        /\ ledgerTx[t].second = Exchanged(ledgerTx[t].amount, x.rate)
        /\ \A y \in rates : IF x.date <= date THEN y.date <= date => NotAfter(y, x)
                                              ELSE NotAfter(x, y)

\* What the two sides of the agents' book owe each other beyond TwinsAgree.
AgentRowsKept == TwinsHaveRows /\ PricesCurrent

=============================================================================
