------------------------------ MODULE LedgerEntries ------------------------------
(***************************************************************************)
(* The log of money movements (Transaction): entries of one or two rows,   *)
(* their editing, the settlement of an unknown collection, the deletion of *)
(* an entry with its group, and the undoing of an entry from the audit     *)
(* log.  Every balance of the program is a sum over these rows.            *)
(*                                                                         *)
(* A new entry is one commit.  The other handlers read, then write, then   *)
(* repair what belongs together in further commits (syncPairedPartyLeg,    *)
(* the fee of a resolved collection), with other requests in between.      *)
(*                                                                         *)
(* Party and treasury hold the same currency, except that a transfer       *)
(* between treasuries is received times its rate.                          *)
(***************************************************************************)
EXTENDS Integers

CONSTANTS
    Requests,   \* the requests that may be in progress together
    Rows,       \* uids of Transaction rows; each is used once
    Groups,     \* values of groupId, drawn afresh by randomUUID
    Parties,
    Amounts,    \* what a user may enter as an amount, fees included
    Dates,
    Rates,      \* the agent's rate between two treasuries; 1 is the same currency
    Kinds,      \* the entries that users post
    Handlers,   \* the handlers that requests may call
    MayFail,    \* a request may be cut off between two of its commits
    None

\* what a row of Transaction holds of the columns modelled
TransactionRow ==
    [kind : {"collect", "fee", "expense", "partyExpense", "partyTransfer",
             "treasuryTransfer", "unknown"},
     group : Groups \cup {None}, party : Parties \cup {None}, date : Dates,
     debit : Nat, credit : Nat, cashIn : Nat, cashOut : Nat, cashIn2 : Nat,
     rate : Rates \cup {1}, pending : BOOLEAN]

ASSUME LedgerAssumption ==
    /\ Amounts \subseteq Nat \ {0} /\ Rates \subseteq Nat \ {0}
    /\ Kinds \subseteq {"collect", "expense", "partyTransfer", "treasuryTransfer", "unknown"}
    /\ Handlers \subseteq {"update", "resolve", "remove", "undo"}
    /\ MayFail \in BOOLEAN
    /\ None \notin Rows \cup Groups \cup Parties \cup Dates \cup Nat
    /\ None \notin TransactionRow

VARIABLES
    tx,      \* the row of each uid, None while there is none
    used,    \* uids given out so far
    issued,  \* groups given out so far
    log,     \* uids named by a CREATE entry of the audit log
    pc,      \* where each request is
    mem      \* what each request has read

vars == <<tx, used, issued, log, pc, mem>>

Blank == [row |-> None, old |-> None, amount |-> 0, date |-> None, party |-> None,
          debits |-> {}, credits |-> {}, legs |-> {}, group |-> None]

Exists(t) == tx[t] # None

-----------------------------------------------------------------------------
(* Posting: all the rows of an entry in one transaction.                   *)

Row(kind, g, p, d) ==
    [kind |-> kind, group |-> g, party |-> p, date |-> d, debit |-> 0, credit |-> 0,
     cashIn |-> 0, cashOut |-> 0, cashIn2 |-> 0, rate |-> 1, pending |-> FALSE]

PostOne(kind, row) ==
    /\ kind \in Kinds
    /\ \E t \in Rows \ used :
        /\ tx' = [tx EXCEPT ![t] = row]
        /\ used' = used \cup {t}
        /\ log' = log \cup {t}
    /\ UNCHANGED <<issued, pc, mem>>

\* two rows of a new group; the log names the first
PostTwo(kind, g, first, second) ==
    /\ kind \in Kinds
    /\ g \notin issued
    /\ \E t, u \in Rows \ used :
        /\ t # u
        /\ tx' = [tx EXCEPT ![t] = first, ![u] = second]
        /\ used' = used \cup {t, u}
        /\ log' = log \cup {t}
    /\ issued' = issued \cup {g}
    /\ UNCHANGED <<pc, mem>>

Collect(p, a, d) ==
    PostOne("collect", [Row("collect", None, p, d) EXCEPT !.credit = a, !.cashIn = a])

CollectWithFee(g, p, a, f, d) ==
    PostTwo("collect", g,
        [Row("collect", g, p, d) EXCEPT !.credit = a, !.cashIn = a],
        [Row("fee", g, p, d) EXCEPT !.debit = f])

ExpenseOnParty(g, p, a, d) ==
    PostTwo("expense", g,
        [Row("expense", g, None, d) EXCEPT !.cashOut = a],
        [Row("partyExpense", g, p, d) EXCEPT !.debit = a])

\* from one party (credit) to another (debit), or the custody of a person
\* settled on a client: the two kinds of PAIRED_PARTY_TYPES
PartyTransfer(g, p, q, a, d) ==
    /\ p # q
    /\ PostTwo("partyTransfer", g,
        [Row("partyTransfer", g, p, d) EXCEPT !.credit = a],
        [Row("partyTransfer", g, q, d) EXCEPT !.debit = a])

TreasuryTransfer(a, x, d) ==
    PostOne("treasuryTransfer",
        [Row("treasuryTransfer", None, None, d) EXCEPT
            !.cashOut = a, !.cashIn2 = a * x, !.rate = x])

UnknownCollect(a, d) ==
    PostOne("unknown",
        [Row("unknown", None, None, d) EXCEPT !.cashIn = a, !.pending = TRUE])

Post ==
    \E d \in Dates, a \in Amounts :
        \/ \E p \in Parties : Collect(p, a, d)
        \/ \E g \in Groups, p \in Parties, f \in Amounts : CollectWithFee(g, p, a, f, d)
        \/ \E g \in Groups, p \in Parties : ExpenseOnParty(g, p, a, d)
        \/ \E g \in Groups, p, q \in Parties : PartyTransfer(g, p, q, a, d)
        \/ \E x \in Rates : TreasuryTransfer(a, x, d)
        \/ UnknownCollect(a, d)

-----------------------------------------------------------------------------
(* Moves of a request.                                                     *)

Goto(r, l) == pc' = [pc EXCEPT ![r] = l]
Remember(r, m) == mem' = [mem EXCEPT ![r] = m]
End(r) == Goto(r, "idle") /\ Remember(r, Blank)

Start(r, h, m) ==
    /\ pc[r] = "idle"
    /\ h \in Handlers
    /\ Goto(r, h)
    /\ Remember(r, m)
    /\ UNCHANGED <<tx, used, issued, log>>

-----------------------------------------------------------------------------
(* update: the row is read, what its new amount implies is written, and    *)
(* the controller then repairs the other leg of a transfer between parties.*)

BeginUpdate(r, t) ==
    /\ Exists(t)
    /\ Start(r, "update", [Blank EXCEPT !.row = t, !.old = tx[t]])

\* A column that was positive when the row was read is written, the others stay.
Base(o) ==
    IF o.cashOut > 0 THEN o.cashOut ELSE IF o.cashIn > 0 THEN o.cashIn
    ELSE IF o.debit > 0 THEN o.debit ELSE o.credit

Scaled(x, a, base) == IF base > 0 THEN (a * x) \div base ELSE a

SecondLegUnscaled(o, a) == a   \* mutant: the rate of the transfer is lost
SecondLeg(o, a) == Scaled(o.cashIn2, a, Base(o))

WithAmount(row, o, a) ==
    [row EXCEPT
        !.debit   = IF o.debit > 0 THEN a ELSE @,
        !.credit  = IF o.credit > 0 THEN a ELSE @,
        !.cashIn  = IF o.cashIn > 0 THEN Scaled(o.cashIn, a, o.credit) ELSE @,
        !.cashOut = IF o.cashOut > 0 THEN Scaled(o.cashOut, a, o.debit) ELSE @,
        !.cashIn2 = IF o.cashIn2 > 0 THEN SecondLeg(o, a) ELSE @]

Edits(row, o) ==
    {row} \cup {WithAmount(row, o, a) : a \in Amounts}
          \cup {[row EXCEPT !.date = d] : d \in Dates}
          \cup {[WithAmount(row, o, a) EXCEPT !.date = d] : a \in Amounts, d \in Dates}

WriteUpdate(r) ==
    LET t == mem[r].row IN
    /\ pc[r] = "update"
    /\ Exists(t)
    /\ \E row \in Edits(tx[t], mem[r].old) : tx' = [tx EXCEPT ![t] = row]
    /\ Goto(r, "own")
    /\ UNCHANGED <<used, issued, log, mem>>

Paired(t) == Exists(t) /\ tx[t].kind = "partyTransfer"

\* syncPairedPartyLeg: the row itself, then the other legs, then their update
ReadOwn(r) ==
    LET t == mem[r].row IN
    /\ pc[r] = "own"
    /\ IF Paired(t)
       THEN /\ Goto(r, "others")
            /\ Remember(r, [mem[r] EXCEPT
                    !.amount = IF tx[t].debit > 0 THEN tx[t].debit ELSE tx[t].credit,
                    !.date = tx[t].date,
                    !.group = tx[t].group])
       ELSE End(r)
    /\ UNCHANGED <<tx, used, issued, log>>

OtherLegsNone(r) == {}   \* mutant: an edit stays on its own leg
OtherLegs(r) == {u \in Rows : Paired(u) /\ u # mem[r].row /\ tx[u].group = mem[r].group}

ReadOthers(r) ==
    /\ pc[r] = "others"
    /\ Goto(r, "sync")
    /\ Remember(r, [mem[r] EXCEPT
            !.debits = {u \in OtherLegs(r) : tx[u].debit > 0},
            !.credits = {u \in OtherLegs(r) : tx[u].debit = 0}])
    /\ UNCHANGED <<tx, used, issued, log>>

WriteOthers(r) ==
    LET m == mem[r] IN
    /\ pc[r] = "sync"
    /\ \A u \in m.debits \cup m.credits : Exists(u)
    /\ tx' = [u \in Rows |->
            IF u \in m.debits THEN [tx[u] EXCEPT !.date = m.date, !.debit = m.amount]
            ELSE IF u \in m.credits THEN [tx[u] EXCEPT !.date = m.date, !.credit = m.amount]
            ELSE tx[u]]
    /\ End(r)
    /\ UNCHANGED <<used, issued, log>>

-----------------------------------------------------------------------------
(* resolve: an unknown collection gets its party, and then its fee a row.  *)

ResolvableAny(t) == Exists(t)   \* mutant: the flag is not looked at
Resolvable(t) == Exists(t) /\ tx[t].pending

\* The fee is the one entered now, or else the one kept with the collection:
\* any amount, or none.  The group (and the uid, from the pool of the model) of
\* the fee are drawn before anything is written.
BeginResolve(r, t, p) ==
    /\ Resolvable(t)
    /\ pc[r] = "idle"
    /\ "resolve" \in Handlers
    /\ Goto(r, "resolve")
    /\ LET m == [Blank EXCEPT !.row = t, !.old = tx[t], !.party = p] IN
        \/ Remember(r, m) /\ UNCHANGED <<used, issued>>
        \/ \E f \in Amounts, u \in Rows \ used, g \in Groups \ issued :
            /\ Remember(r, [m EXCEPT !.amount = f, !.legs = {u}, !.group = g])
            /\ used' = used \cup {u}
            /\ issued' = issued \cup {g}
    /\ UNCHANGED <<tx, log>>

Resolved(row, m) ==
    [row EXCEPT !.party = m.party, !.credit = m.old.cashIn, !.kind = "collect",
                !.pending = FALSE,
                !.group = IF m.amount > 0 THEN m.group ELSE @]

WriteResolve(r) ==
    LET m == mem[r] IN
    /\ pc[r] = "resolve"
    /\ Exists(m.row)
    /\ tx' = [tx EXCEPT ![m.row] = Resolved(tx[m.row], m)]
    /\ IF m.amount > 0 THEN Goto(r, "fee") /\ UNCHANGED mem ELSE End(r)
    /\ UNCHANGED <<used, issued, log>>

\* mutant: a group of its uid
FeeGroupedByRow(m) == m.row
FeeGroup(m) == m.group

CreateFee(r) ==
    LET m == mem[r] IN
    /\ pc[r] = "fee"
    /\ tx' = [t \in Rows |->
            IF t \in m.legs
            THEN [Row("fee", FeeGroup(m), m.party, m.old.date) EXCEPT !.debit = m.amount]
            ELSE tx[t]]
    /\ End(r)
    /\ UNCHANGED <<used, issued, log>>

-----------------------------------------------------------------------------
(* remove (deleteTransactionAndEffects) and the undoing of a creation.     *)

FamilyOfOne(t) == {t}   \* mutant: the group is forgotten
Family(t) ==
    IF tx[t].group = None THEN {t}
    ELSE {u \in Rows : Exists(u) /\ tx[u].group = tx[t].group}

BeginRemove(r, t) ==
    /\ Exists(t)
    /\ Start(r, "remove", [Blank EXCEPT !.legs = Family(t)])

Without(S) == [t \in Rows |-> IF t \in S THEN None ELSE tx[t]]

WriteRemove(r) ==
    /\ pc[r] = "remove"
    /\ tx' = Without(mem[r].legs)
    /\ End(r)
    /\ UNCHANGED <<used, issued, log>>

\* AuditService.undo of a CREATE deletes the row the log names, and only that
BeginUndo(r, t) ==
    /\ t \in log
    /\ Start(r, "undo", [Blank EXCEPT !.row = t])

WriteUndo(r) ==
    /\ pc[r] = "undo"
    /\ Exists(mem[r].row)
    /\ tx' = Without({mem[r].row})
    /\ Goto(r, "unlog")
    /\ UNCHANGED <<used, issued, log, mem>>

Unlog(r) ==
    /\ pc[r] = "unlog"
    /\ log' = log \ {mem[r].row}
    /\ End(r)
    /\ UNCHANGED <<tx, used, issued>>

-----------------------------------------------------------------------------
\* A statement that finds its row gone fails, alone or with its transaction.
Refused(r) ==
    \/ pc[r] \in {"update", "resolve", "undo"} /\ ~Exists(mem[r].row)
    \/ pc[r] = "sync" /\ \E u \in mem[r].debits \cup mem[r].credits : ~Exists(u)

Refuse(r) ==
    /\ Refused(r)
    /\ End(r)
    /\ UNCHANGED <<tx, used, issued, log>>

\* a request for a row that does not exist changes nothing
NotFound(r, t) == pc[r] = "idle" /\ ~Exists(t) /\ UNCHANGED vars

CutOff(r) ==
    /\ MayFail
    /\ pc[r] # "idle"
    /\ End(r)
    /\ UNCHANGED <<tx, used, issued, log>>

Begin(r) ==
    \E t \in Rows :
        \/ BeginUpdate(r, t) \/ BeginRemove(r, t) \/ BeginUndo(r, t)
        \/ \E p \in Parties : BeginResolve(r, t, p)
        \/ NotFound(r, t)

Step(r) ==
    \/ WriteUpdate(r) \/ ReadOwn(r) \/ ReadOthers(r) \/ WriteOthers(r)
    \/ WriteResolve(r) \/ CreateFee(r)
    \/ WriteRemove(r) \/ WriteUndo(r) \/ Unlog(r) \/ Refuse(r)

Init ==
    /\ tx = [t \in Rows |-> None]
    /\ used = {} /\ issued = {} /\ log = {}
    /\ pc = [r \in Requests |-> "idle"]
    /\ mem = [r \in Requests |-> Blank]

Next ==
    \/ Post
    \/ \E r \in Requests : Begin(r) \/ Step(r) \/ CutOff(r)

Spec == Init /\ [][Next]_vars
-----------------------------------------------------------------------------
(* Properties.                                                             *)

LocalState ==
    [row : Rows \cup {None}, old : TransactionRow \cup {None}, amount : Nat,
     date : Dates \cup {None}, party : Parties \cup {None},
     debits : SUBSET Rows, credits : SUBSET Rows, legs : SUBSET Rows,
     group : Groups \cup {None}]

\* Every column of a row and every local of a request has its type; no amount
\* of a row becomes negative or a value that was never computed.
TypeOK ==
    /\ tx \in [Rows -> TransactionRow \cup {None}]
    /\ used \subseteq Rows /\ issued \subseteq Groups /\ log \subseteq Rows
    /\ pc \in [Requests -> {"idle", "update", "own", "others", "sync", "resolve", "fee",
                            "remove", "undo", "unlog"}]
    /\ mem \in [Requests -> LocalState]

Opposite(t, u) == \/ tx[t].debit > 0 /\ tx[t].credit = 0 /\ tx[u].debit = 0 /\ tx[u].credit > 0
                  \/ tx[u].debit > 0 /\ tx[u].credit = 0 /\ tx[t].debit = 0 /\ tx[t].credit > 0

\* A transfer between parties always has its two legs, one debit and one
\* credit: "a half-posted transfer (one side charged, the other never credited)
\* is impossible" (transactions.repository.ts:37-38), whatever edits and
\* deletions overlap and wherever one is cut off.
PairsWhole ==
    \A t \in Rows : Paired(t) =>
        \E u \in Rows \ {t} : Paired(u) /\ tx[u].group = tx[t].group /\ Opposite(t, u)

\* What a treasury receives is what the other paid times the rate of the
\* transfer, however often and concurrently the transfer is edited
\* (transactions.repository.ts:137-143).
RateKept ==
    \A t \in Rows : Exists(t) /\ tx[t].kind = "treasuryTransfer" =>
        tx[t].cashIn2 = tx[t].rate * tx[t].cashOut

AllIdle == \A r \in Requests : pc[r] = "idle"

\* An edit of one leg reaches the other, or the parties differ
\* (transfer-sync.ts:3-5): between requests both legs have one amount and date.
LegsAgree ==
    AllIdle => \A t, u \in Rows :
        Paired(t) /\ Paired(u) /\ tx[t].group = tx[u].group =>
            /\ tx[t].debit + tx[t].credit = tx[u].debit + tx[u].credit
            /\ tx[t].date = tx[u].date

\* No entry is left half posted: between requests a collection that was given
\* a group has the fee the group was made for (transactions.repository.ts:50-53).
FeesWithCollections ==
    AllIdle => \A t \in Rows : Exists(t) /\ tx[t].kind = "collect" /\ tx[t].group # None =>
        \E u \in Rows : Exists(u) /\ tx[u].kind = "fee" /\ tx[u].group = tx[t].group

\* What the party of a collection is credited is what the treasury received:
\* one currency, one number (transactions.service.ts:28).
CreditIsCash ==
    AllIdle => \A t \in Rows : Exists(t) /\ tx[t].kind = "collect" => tx[t].credit = tx[t].cashIn

\* A collection is resolved once (transactions.service.ts:373): nobody
\* moves one that is not pending any more into the group of another fee.
ResolvedOnce ==
    [][\A t \in Rows : Exists(t) /\ tx'[t] # None /\ ~tx[t].pending =>
            tx'[t].group = tx[t].group]_vars

\* The three of them: between requests the two sides of every entry agree.
EntriesAgree == LegsAgree /\ FeesWithCollections /\ CreditIsCash

=============================================================================
