------------------------------- MODULE Settlement -------------------------------
(***************************************************************************)
(* The fixed-basis settlement of one partner: the items chosen from the    *)
(* purchase documents, their rate, the postings that freeze their amounts, *)
(* the capital movements and payments, and the shadow of all of these in   *)
(* the partner's account (rows of Transaction linked to their source).     *)
(*                                                                         *)
(* A request is a handler of SettlementService; every await on the data    *)
(* base is a commit of its own, so a handler is a sequence of actions with *)
(* a program counter, and what it has read stays in mem[r] while the other *)
(* requests go on.  Handlers that change the settlement end in syncLedger  *)
(* (ensure .. apply), which rebuilds the account from the settlement.      *)
(***************************************************************************)
EXTENDS Integers

CONSTANTS
    Requests,    \* the requests that may be in progress together
    Items,       \* ids of PartnerItem rows; an id is used once
    Movements,   \* ids of PartnerCapitalMovement rows
    Payments,    \* ids of PartnerPayment rows
    Postings,    \* ids of PartnerPosting rows
    Accounts,    \* ids of Party rows that can become the partner's account
    Rates,       \* what the owner may write per unit of an item
    Quantities,  \* what the document says of an item, 0 while its value is not known
    Amounts,     \* sizes of a capital movement or a payment
    Capitals,    \* opening capitals
    Handlers,    \* the handlers that requests may call
    Linked,      \* the partner already has an account in the initial state
    MaxCuts,     \* bound of the model: how often a request is cut off between two commits
    None

Key == Items \cup Movements \cup Payments

AllHandlers ==
    {"addItems", "setItemRate", "removeItem", "postItems", "deletePosting",
     "addCapitalMovement", "deleteCapitalMovement", "addPayment", "deletePayment",
     "updatePartner", "overview", "report"}

ASSUME SettlementAssumption ==
    /\ Rates \subseteq Nat \ {0}
    /\ Quantities \subseteq Nat /\ Quantities # {}
    /\ Amounts \subseteq Nat \ {0}
    /\ Capitals \subseteq Nat /\ Capitals # {}
    /\ Handlers \subseteq AllHandlers
    /\ Linked \in BOOLEAN /\ MaxCuts \in Nat
    /\ Items \cap Movements = {} /\ Items \cap Payments = {} /\ Movements \cap Payments = {}
    /\ None \notin Key \cup Postings \cup Accounts \cup Int
    /\ Accounts # {} /\ {"absent", "open"} \cap Postings = {}

VARIABLES
    live,      \* rows of Key that exist
    used,      \* rows of Key that exist or existed
    approved,  \* PartnerItem.approved
    rate,      \* PartnerItem.rate (or percent); 0 is null
    qty,       \* quantity of the item on its document
    posting,   \* PartnerItem.postingId
    frozen,    \* PartnerItem.postedAmount; 0 is null
    number,    \* PartnerPosting.no; 0 is no such row
    spent,     \* posting ids handed out so far
    effect,    \* what a movement or payment does to the account (credit - debit)
    account,   \* Partner.partyId
    capital,   \* Partner.capital
    opening,   \* Party.opening, None while the Party row does not exist
    holder,    \* Transaction.partyId of the row linked to a key; None is no such row
    entry,     \* credit - debit of that row
    pc,        \* where each request is
    mem,       \* what each request has read
    cuts       \* requests cut off so far

book   == <<live, used, approved, rate, qty, posting, frozen, number, spent>>
money  == <<effect>>
party  == <<account, capital, opening>>
ledger == <<holder, entry>>
vars   == <<book, money, party, ledger, pc, mem, cuts>>

Blank ==
    [account |-> None, capital |-> 0, key |-> None, rate |-> 0, posting |-> None,
     ready |-> [i \in Items |-> 0], last |-> 0, unread |-> {"items", "money"},
     want |-> [k \in Key |-> 0], have |-> [k \in Key |-> None], lost |-> {}]

-----------------------------------------------------------------------------
(* What the settlement promises the account should hold.                   *)

\* an item is due once it is posted, at its frozen amount
Due(i) == IF i \in live /\ posting[i] # None THEN frozen[i] ELSE 0

MoneyEffect(k) == IF k \in live THEN effect[k] ELSE 0

Wanted(k) == IF k \in Items THEN Due(k) ELSE MoneyEffect(k)

\* fixedItems: priced, approved and not yet posted, with its live amount
Ready(i) == i \in live /\ posting[i] = None /\ approved[i] /\ rate[i] * qty[i] > 0

Greatest(S) == {n \in S : \A m \in S : m <= n}

\* mutant: no default for the first posting of a partner
LastNumberUnset ==
    IF \A p \in Postings : number[p] = 0 THEN {None}
    ELSE Greatest({number[p] : p \in Postings})

\* the number of the last posting, as a set of one element
LastNumber == Greatest({0} \cup {number[p] : p \in Postings})

-----------------------------------------------------------------------------
(* Moves of a request.                                                     *)

Goto(r, l) == pc' = [pc EXCEPT ![r] = l]
GotoWith(r, l, m) == Goto(r, l) /\ mem' = [mem EXCEPT ![r] = m]
End(r) == GotoWith(r, "idle", Blank)
Keep(r, l) == Goto(r, l) /\ UNCHANGED mem
\* what the sync needs of a request; the rest of its locals are dead
Sync(r, l) ==
    GotoWith(r, l, [Blank EXCEPT !.account = mem[r].account, !.capital = mem[r].capital])

\* Rows deleted by somebody else: an update of them by id finds nothing.
Losing(K, m) ==
    [q \in Requests |->
        IF pc'[q] = "apply" THEN [m[q] EXCEPT !.lost = @ \cup K] ELSE m[q]]

\* access(): the partner row is read once, at the start of the handler.
FirstStepNoRefresh(h) ==   \* mutant: the overview does not sync
    CASE h = "overview" -> "idle"
      [] h = "report"   -> "ensure"
      [] OTHER          -> h

FirstStep(h) ==
    CASE h = "overview" -> "list"
      [] h = "report"   -> "ensure"
      [] OTHER          -> h

Begin(r, h) ==
    /\ pc[r] = "idle"
    /\ h \in Handlers
    /\ GotoWith(r, FirstStep(h), [Blank EXCEPT !.account = account, !.capital = capital])
    /\ UNCHANGED <<book, money, party, ledger, cuts>>

\* addItems: createMany with skipDuplicates; only the owner's are approved.
AddItems(r) ==
    /\ pc[r] = "addItems"
    /\ \E S \in SUBSET Items \ {{}}, admin \in BOOLEAN :
        /\ S \cap (used \ live) = {}
        /\ live' = live \cup S
        /\ used' = used \cup S
        /\ approved' = [i \in Items |-> IF i \in S \ live THEN admin ELSE approved[i]]
    /\ Keep(r, "ensure")
    /\ UNCHANGED <<rate, qty, posting, frozen, number, spent, money, party, ledger, cuts>>

\* setItemRate and removeItem look at postingId first and write afterwards.
CheckUnposted(r) ==
    /\ \/ pc[r] = "setItemRate" /\ \E x \in Rates, i \in live \cap Items :
            /\ posting[i] = None
            /\ GotoWith(r, "writeRate", [mem[r] EXCEPT !.key = i, !.rate = x])
       \/ pc[r] = "removeItem" /\ \E i \in live \cap Items :
            /\ posting[i] = None
            /\ GotoWith(r, "writeRemove", [mem[r] EXCEPT !.key = i])
    /\ UNCHANGED <<book, money, party, ledger, cuts>>

WriteRate(r) ==
    LET i == mem[r].key IN
    /\ pc[r] = "writeRate"
    /\ i \in live
    /\ rate' = [rate EXCEPT ![i] = mem[r].rate]
    /\ approved' = [approved EXCEPT ![i] = TRUE]
    /\ Sync(r, "list")
    /\ UNCHANGED <<live, used, qty, posting, frozen, number, spent, money, party, ledger, cuts>>

\* Deleting a source row deletes the account row linked to it (onDelete: Cascade).
DeleteSource(r, k) ==
    /\ live' = live \ {k}
    /\ holder' = [holder EXCEPT ![k] = None]
    /\ entry' = [entry EXCEPT ![k] = 0]
    /\ Goto(r, "idle")
    /\ mem' = Losing({k}, [mem EXCEPT ![r] = Blank])

WriteRemove(r) ==
    LET i == mem[r].key IN
    /\ pc[r] = "writeRemove"
    /\ i \in live
    /\ DeleteSource(r, i)
    /\ posting' = [posting EXCEPT ![i] = None]
    /\ frozen' = [frozen EXCEPT ![i] = 0]
    /\ rate' = [rate EXCEPT ![i] = 0]
    /\ approved' = [approved EXCEPT ![i] = FALSE]
    /\ UNCHANGED <<used, qty, number, spent, money, party, cuts>>

\* Another module edits the invoice or deal: the quantity of the item changes.
EditDocument(i, q) ==
    /\ qty' = [qty EXCEPT ![i] = q]
    /\ UNCHANGED <<live, used, approved, rate, posting, frozen, number, spent,
                   money, party, ledger, pc, mem, cuts>>

-----------------------------------------------------------------------------
(* Posting: the list is made first, the amounts are frozen in a later      *)
(* transaction, which reads the last number and then writes.               *)

PostList(r) ==
    /\ pc[r] = "postItems"
    /\ \E i \in Items : Ready(i)
    /\ GotoWith(r, "postNumber",
         [mem[r] EXCEPT !.ready =
            [i \in Items |-> IF Ready(i) THEN rate[i] * qty[i] ELSE 0]])
    /\ UNCHANGED <<book, money, party, ledger, cuts>>

PostNumber(r) ==
    /\ pc[r] = "postNumber"
    /\ \E n \in LastNumber : GotoWith(r, "postWrite", [mem[r] EXCEPT !.last = n])
    /\ UNCHANGED <<book, money, party, ledger, cuts>>

Listed(r) == {i \in Items : mem[r].ready[i] > 0}

\* the unique key (partnerId, no)
NumberAlwaysFree(n) == TRUE   \* mutant: no unique key

NumberFree(n) == \A p \in Postings : number[p] # n

\* updateMany ... where postingId is null, for every listed item
StillThere(i) == i \in live   \* mutant: the update does not ask for postingId null

StillUnposted(i) == i \in live /\ posting[i] = None

\* mutant: an item posted by somebody else in between is no error
PostableUnchecked(r) == NumberFree(mem[r].last + 1) /\ Listed(r) \subseteq live

Postable(r) == NumberFree(mem[r].last + 1) /\ \A i \in Listed(r) : StillUnposted(i)

PostWrite(r) ==
    /\ pc[r] = "postWrite"
    /\ Postable(r)
    /\ \E p \in Postings \ spent :
        /\ spent' = spent \cup {p}
        /\ number' = [number EXCEPT ![p] = mem[r].last + 1]
        /\ posting' = [i \in Items |-> IF i \in Listed(r) THEN p ELSE posting[i]]
    /\ frozen' = [i \in Items |-> IF i \in Listed(r) THEN mem[r].ready[i] ELSE frozen[i]]
    /\ Sync(r, "ensure")
    /\ UNCHANGED <<live, used, approved, rate, qty, money, party, ledger, cuts>>

FindPosting(r) ==
    /\ pc[r] = "deletePosting"
    /\ \E p \in Postings :
        /\ number[p] # 0
        /\ GotoWith(r, "writeUnpost", [mem[r] EXCEPT !.posting = p])
    /\ UNCHANGED <<book, money, party, ledger, cuts>>

HeldByNone(p) == {}                              \* mutant: the items are forgotten
HeldByAny(p) == {i \in Items : posting[i] # None}  \* mutant: every posting's items
Held(p) == {i \in Items : posting[i] = p}

\* the items are released and the posting deleted in one transaction
WriteUnpost(r) ==
    LET p == mem[r].posting IN
    /\ pc[r] = "writeUnpost"
    /\ number[p] # 0
    /\ posting' = [i \in Items |-> IF i \in Held(p) THEN None ELSE posting[i]]
    /\ frozen' = [i \in Items |-> IF i \in Held(p) THEN 0 ELSE frozen[i]]
    /\ number' = [number EXCEPT ![p] = 0]
    /\ Sync(r, "ensure")
    /\ UNCHANGED <<live, used, approved, rate, qty, spent, money, party, ledger, cuts>>

-----------------------------------------------------------------------------
(* Capital movements, payments and the partner row.                        *)

CreateSource(r, k, e) ==
    /\ live' = live \cup {k}
    /\ used' = used \cup {k}
    /\ effect' = [effect EXCEPT ![k] = e]
    /\ Keep(r, "ensure")
    /\ UNCHANGED <<approved, rate, qty, posting, frozen, number, spent, party, ledger, cuts>>

AddCapitalMovement(r) ==
    /\ pc[r] = "addCapitalMovement"
    /\ \E k \in Movements \ used, a \in Amounts, sign \in {1, -1} :
        CreateSource(r, k, sign * a)

AddPayment(r) ==
    /\ pc[r] = "addPayment"
    /\ \E k \in Payments \ used, a \in Amounts : CreateSource(r, k, -a)

FindMoney(r) ==
    /\ \/ pc[r] = "deleteCapitalMovement" /\ \E k \in Movements \cap live :
            GotoWith(r, "writeDelete", [mem[r] EXCEPT !.key = k])
       \/ pc[r] = "deletePayment" /\ \E k \in Payments \cap live :
            GotoWith(r, "writeDelete", [mem[r] EXCEPT !.key = k])
    /\ UNCHANGED <<book, money, party, ledger, cuts>>

WriteDelete(r) ==
    LET k == mem[r].key IN
    /\ pc[r] = "writeDelete"
    /\ k \in live
    /\ DeleteSource(r, k)
    /\ effect' = [effect EXCEPT ![k] = 0]
    /\ UNCHANGED <<used, approved, rate, qty, posting, frozen, number, spent, party, cuts>>

\* updatePartner writes the row and reads it again before the sync.
UpdatePartner(r) ==
    /\ pc[r] = "updatePartner"
    /\ \E c \in Capitals : capital' = c
    /\ Keep(r, "reread")
    /\ UNCHANGED <<book, money, account, opening, ledger, cuts>>

Reread(r) ==
    /\ pc[r] = "reread"
    /\ GotoWith(r, "ensure", [mem[r] EXCEPT !.account = account, !.capital = capital])
    /\ UNCHANGED <<book, money, party, ledger, cuts>>

-----------------------------------------------------------------------------
(* syncLedger.                                                             *)

\* overview, statement and setItemRate hand over a list they have just read.
ListItems(r) ==
    /\ pc[r] = "list"
    /\ GotoWith(r, "ensure",
         [mem[r] EXCEPT !.unread = {"money"},
                        !.want = [k \in Key |-> IF k \in Items THEN Due(k) ELSE 0]])
    /\ UNCHANGED <<book, money, party, ledger, cuts>>

\* ensureParty, the partner had an account when its row was read
EnsureUpdate(r) ==
    /\ pc[r] = "ensure"
    /\ mem[r].account # None
    /\ opening' = [opening EXCEPT ![mem[r].account] = -mem[r].capital]
    /\ Keep(r, "read")
    /\ UNCHANGED <<book, money, account, capital, ledger, cuts>>

\* ensureParty, it had none: the Party is created, then linked
EnsureCreate(r) ==
    /\ pc[r] = "ensure"
    /\ mem[r].account = None
    /\ \E a \in Accounts :
        /\ opening[a] = None
        /\ opening' = [opening EXCEPT ![a] = -mem[r].capital]
        /\ GotoWith(r, "link", [mem[r] EXCEPT !.account = a])
    /\ UNCHANGED <<book, money, account, capital, ledger, cuts>>

EnsureLink(r) ==
    /\ pc[r] = "link"
    /\ account' = mem[r].account
    /\ Keep(r, "read")
    /\ UNCHANGED <<book, money, capital, opening, ledger, cuts>>

\* the sources are read with Promise.all, in either order
ReadSource(r, s) ==
    /\ pc[r] = "read"
    /\ s \in mem[r].unread
    /\ GotoWith(r, "read",
         [mem[r] EXCEPT
            !.unread = @ \ {s},
            !.want = [k \in Key |->
                IF (s = "items") = (k \in Items) THEN Wanted(k) ELSE mem[r].want[k]]])
    /\ UNCHANGED <<book, money, party, ledger, cuts>>

\* apply: the linked rows of this account
ReadExisting(r) ==
    /\ pc[r] = "read"
    /\ mem[r].unread = {}
    /\ GotoWith(r, "apply",
         [mem[r] EXCEPT !.have =
            [k \in Key |-> IF holder[k] = mem[r].account THEN entry[k] ELSE None]])
    /\ UNCHANGED <<book, money, party, ledger, cuts>>

Missing(r)   == {k \in Key : mem[r].want[k] # 0 /\ mem[r].have[k] = None}
Different(r) == {k \in Key : /\ mem[r].want[k] # 0
                             /\ mem[r].have[k] # None
                             /\ mem[r].have[k] # mem[r].want[k]}
ExtraNone(r) == {}   \* mutant: apply never deletes
Extra(r)     == {k \in Key : mem[r].want[k] = 0 /\ mem[r].have[k] # None}

\* a create needs its source row (foreign key) and no other row of it (unique)
CreatableUnlinked(k) == holder[k] = None   \* mutant: no foreign key to the source

Creatable(k) == k \in live /\ holder[k] = None

\* one transaction: any failing statement undoes all of them
Applicable(r) ==
    /\ \A k \in Missing(r) : Creatable(k)
    /\ Different(r) \cap mem[r].lost = {}

Apply(r) ==
    LET gone == Extra(r) \ mem[r].lost IN
    /\ pc[r] = "apply"
    /\ Applicable(r)
    /\ holder' = [k \in Key |->
            IF k \in Missing(r) THEN mem[r].account
            ELSE IF k \in gone THEN None ELSE holder[k]]
    /\ entry' = [k \in Key |->
            IF k \in Missing(r) \cup Different(r) THEN mem[r].want[k]
            ELSE IF k \in gone THEN 0 ELSE entry[k]]
    /\ Goto(r, "idle")
    /\ mem' = Losing(gone, [mem EXCEPT ![r] = Blank])
    /\ UNCHANGED <<book, money, party, cuts>>

-----------------------------------------------------------------------------
(* A check that throws, a statement that fails on a missing or duplicate   *)
(* row, or (a bound of the model) a pool of ids that is used up.           *)
Refused(r) ==
    \/ pc[r] = "addItems" /\ Items \subseteq used \ live
    \/ pc[r] \in {"setItemRate", "removeItem"} /\ \A i \in live \cap Items : posting[i] # None
    \/ pc[r] = "setItemRate" /\ Rates = {}
    \/ pc[r] \in {"setItemRate", "removeItem"} /\ \E i \in live \cap Items : posting[i] # None
    \/ pc[r] \in {"writeRate", "writeRemove", "writeDelete"} /\ mem[r].key \notin live
    \/ pc[r] = "postItems" /\ \A i \in Items : ~Ready(i)
    \/ pc[r] = "postWrite" /\ (~Postable(r) \/ spent = Postings)
    \/ pc[r] = "deletePosting" /\ \A p \in Postings : number[p] = 0
    \/ pc[r] = "writeUnpost" /\ number[mem[r].posting] = 0
    \/ pc[r] = "addCapitalMovement" /\ (Movements \subseteq used \/ Amounts = {})
    \/ pc[r] = "addPayment" /\ (Payments \subseteq used \/ Amounts = {})
    \/ pc[r] = "deleteCapitalMovement" /\ Movements \cap live = {}
    \/ pc[r] = "deletePayment" /\ Payments \cap live = {}
    \/ pc[r] = "ensure" /\ mem[r].account = None /\ \A a \in Accounts : opening[a] # None
    \/ pc[r] = "apply" /\ ~Applicable(r)

Refuse(r) ==
    /\ Refused(r)
    /\ End(r)
    /\ UNCHANGED <<book, money, party, ledger, cuts>>

\* The process stops, or the data base drops the connection, between commits.
CutOff(r) ==
    /\ cuts < MaxCuts
    /\ pc[r] # "idle"
    /\ cuts' = cuts + 1
    /\ End(r)
    /\ UNCHANGED <<book, money, party, ledger>>

Step(r) ==
    \/ AddItems(r) \/ CheckUnposted(r) \/ WriteRate(r) \/ WriteRemove(r)
    \/ PostList(r) \/ PostNumber(r) \/ PostWrite(r) \/ FindPosting(r) \/ WriteUnpost(r)
    \/ AddCapitalMovement(r) \/ AddPayment(r) \/ FindMoney(r) \/ WriteDelete(r)
    \/ UpdatePartner(r) \/ Reread(r)
    \/ ListItems(r) \/ EnsureUpdate(r) \/ EnsureCreate(r) \/ EnsureLink(r)
    \/ ReadExisting(r) \/ Apply(r) \/ Refuse(r)
    \/ \E s \in {"items", "money"} : ReadSource(r, s)

Init ==
    /\ live = {} /\ used = {}
    /\ approved = [i \in Items |-> FALSE]
    /\ rate = [i \in Items |-> 0]
    /\ qty \in [Items -> Quantities]
    /\ posting = [i \in Items |-> None]
    /\ frozen = [i \in Items |-> 0]
    /\ number = [p \in Postings |-> 0]
    /\ spent = {}
    /\ effect = [k \in Movements \cup Payments |-> 0]
    /\ capital \in Capitals
    /\ \E a \in Accounts :
        /\ account = IF Linked THEN a ELSE None
        /\ opening = [b \in Accounts |-> IF Linked /\ b = a THEN -capital ELSE None]
    /\ holder = [k \in Key |-> None]
    /\ entry = [k \in Key |-> 0]
    /\ pc = [r \in Requests |-> "idle"]
    /\ mem = [r \in Requests |-> Blank]
    /\ cuts = 0

Next ==
    \/ \E r \in Requests, h \in AllHandlers : Begin(r, h)
    \/ \E r \in Requests : Step(r) \/ CutOff(r)
    \/ \E i \in Items, q \in Quantities : EditDocument(i, q)

Spec == Init /\ [][Next]_vars

-----------------------------------------------------------------------------
(* Properties.                                                             *)

LocalState ==
    [account : Accounts \cup {None}, capital : Capitals \cup {0},
     key : Key \cup {None}, rate : Rates \cup {0}, posting : Postings \cup {None},
     ready : [Items -> Nat], last : Nat, unread : SUBSET {"items", "money"},
     want : [Key -> Int], have : [Key -> Int \cup {None}], lost : SUBSET Key]

Labels ==
    AllHandlers \cup
    {"idle", "writeRate", "writeRemove", "postNumber", "postWrite", "writeUnpost",
     "writeDelete", "reread", "list", "ensure", "link", "read", "apply"}

\* Every column and every local of a request has the type its reader expects;
\* in particular the number a posting is given is one more than a natural.
TypeOK ==
    /\ live \subseteq Key /\ used \subseteq Key
    /\ approved \in [Items -> BOOLEAN]
    /\ rate \in [Items -> Rates \cup {0}]
    /\ qty \in [Items -> Quantities]
    /\ posting \in [Items -> Postings \cup {None}]
    /\ frozen \in [Items -> Nat]
    /\ number \in [Postings -> Nat]
    /\ spent \subseteq Postings
    /\ effect \in [Movements \cup Payments -> Int]
    /\ account \in Accounts \cup {None}
    /\ capital \in Capitals
    /\ opening \in [Accounts -> Int \cup {None}]
    /\ holder \in [Key -> Accounts \cup {None}]
    /\ entry \in [Key -> Int]
    /\ pc \in [Requests -> Labels]
    /\ mem \in [Requests -> LocalState]
    /\ cuts \in Nat

\* A row of the account always has the settlement row it shadows: neither a
\* late apply nor a deletion in the middle of a sync leaves money in a party's
\* account or a treasury that no movement, payment or item explains.
RowsHaveSources == \A k \in Key : holder[k] # None => k \in live

\* Every posted item belongs to a posting that exists, and its amount is frozen:
\* however deletions of postings interleave with new ones, no item is left
\* archived under a posting nobody can open or delete.
PostedItemsHavePostings ==
    \A i \in Items : posting[i] # None =>
        /\ i \in live
        /\ number[posting[i]] # 0
        /\ frozen[i] > 0

\* Two requests that post at the same time never give their postings one number.
NumbersDistinct ==
    \A p, q \in Postings : p # q /\ number[p] # 0 => number[p] # number[q]

\* A posting is all of its list or nothing: none exists without items as long
\* as items are not removed.
PostingsNotEmpty ==
    \A p \in Postings : number[p] # 0 => \E i \in Items : posting[i] = p

\* Where PostingBook would say each item is.
Slot ==
    [i \in Items |-> IF i \notin live THEN "absent"
                     ELSE IF posting[i] = None THEN "open" ELSE posting[i]]
Book == INSTANCE PostingBook WITH slot <- Slot

\* Postings behave as the book of PostingBook: an item leaves "open" only with
\* the whole of a new posting and comes back only when it is deleted.
BookSpec == Book!Spec

\* The amount of a posted item never changes while it stays posted, whatever
\* happens to its document or its rate in the meantime.
FrozenWhilePosted ==
    [][\A i \in Items : posting[i] # None /\ posting'[i] # None => frozen'[i] = frozen[i]]_vars

\* The account shows exactly the settlement: the rows of the partner's own
\* account and no others, at their amounts, and the opening balance.
Exact ==
    /\ account # None => opening[account] = -capital
    /\ \A k \in Key :
        IF Wanted(k) # 0 THEN holder[k] = account /\ entry[k] = Wanted(k)
                         ELSE holder[k] = None

\* The account is exact whenever no request is running, as apply says of itself
\* (settlement-ledger.repository.ts:114): every handler that changes the
\* settlement ends in a sync, or deletes a source whose row the data base
\* deletes with it.  It holds of requests that come one at a time; two that
\* overlap can leave the account behind.
ExactBetweenRequests == (\A r \in Requests : pc[r] = "idle") => Exact

\* A request that has begun goes on, and somebody opens the settlement again
\* and again between the other requests (overview is its own screen).
Fairness ==
    /\ \A r \in Requests : WF_vars(Step(r))
    /\ SF_vars(\E r \in Requests : Begin(r, "overview"))

FairSpec == Spec /\ Fairness

\* The account follows the settlement in the end: once the changes stop,
\* opening the settlement makes it exact and keeps it so.
EventuallyExact == <>[]Exact

=============================================================================
