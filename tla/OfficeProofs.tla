------------------------------ MODULE OfficeProofs ------------------------------
(***************************************************************************)
(* Theorems about modules of the office, for any requests, ids, dates,     *)
(* rates, quantities and versions: of AgentLedger, types, that a row of an *)
(* agent agrees with its twin in the money log and, of requests one at a   *)
(* time, that every twin has its row and that the priced rows have the     *)
(* rate that is in force; of LoanReturns, that the counters of a loan stay *)
(* within what was lent and, of requests one at a time, that they are the  *)
(* sums of its returns; of Invoices, that an invoice has every row of its  *)
(* version and, of requests one at a time, that the ledger owes what it    *)
(* says and no more comes back than it has; and that MCOffice, where they  *)
(* stand beside AgentLedger, keeps its types.                              *)
(***************************************************************************)
EXTENDS MCOffice, SumProofs, TLAPS

-----------------------------------------------------------------------------
(* Agents.                                                                 *)

Types == {"in", "out", "settle"}
Kinds == {"transfer", "payment"}

\* ids that request q has read or was given
HeldIn(m) == ({m.twin, m.entry} \cup {p.entry : p \in m.plan}) \ {None}

\* ids that were given to a request, at l with what it knows in m, and that no
\* row has yet
ReservedAt(l, m) ==
    IF l \in {"rows", "write"} /\ m.fresh THEN {m.twin}
    ELSE IF l = "post" THEN {m.entry} ELSE {}
MakingAt(l, m) == IF l \in {"rows", "write"} /\ m.creates THEN {m.row} ELSE {}

Reserved(r) == ReservedAt(agentPc[r], agentMem[r])
Making(r) == MakingAt(agentPc[r], agentMem[r])
Held(r) == HeldIn(agentMem[r])

\* What a request, at l and with m, may rely on: part of what it has read never
\* changes while the row exists.
SoundAt(l, m) ==
    /\ HeldIn(m) \subseteq 1..entries /\ m.row <= agentTxs
    /\ l \in {"edit", "rows", "write", "cascade"} => m.row \in AgentIds /\ m.new \in AgentRow
    /\ l \in {"rowsAfter", "rates", "price"} => m.new \in AgentRow
    /\ l \in {"edit", "cascade"} => ~m.creates /\ ~m.fresh
    /\ l \in {"rows", "write"} =>
          (m.fresh => m.twin # None) /\ (m.creates => m.fresh /\ m.new.twin = m.twin)
    /\ l \in {"post", "payment"} =>
          m.entry \in EntryIds /\ m.move \in EntryRow /\ m.move.kind \in Kinds
    /\ l = "payment" => m.move.kind = "payment"
    /\ l \in {"entry", "mirror"} => m.entry \in EntryIds
    /\ l = "payment" /\ ledgerTx[m.entry] # None => ledgerTx[m.entry].kind = "payment"
    /\ \A p \in m.plan : ledgerTx[p.entry] # None => ledgerTx[p.entry].kind \in Kinds
    /\ \A t \in ReservedAt(l, m) :
          ledgerTx[t] = None /\ \A k \in AgentIds : agentTx[k] # None => agentTx[k].twin # t
    /\ \A n \in MakingAt(l, m) : agentTx[n] = None
    /\ l \in {"edit", "rows", "write"} =>
          /\ m.twin # None /\ ledgerTx[m.twin] # None => ledgerTx[m.twin].kind = m.new.type
          /\ m.twin # None => \A k \in AgentIds \ {m.row} :
                agentTx[k] # None => agentTx[k].twin # m.twin
          /\ ~m.creates /\ agentTx[m.row] # None =>
                /\ agentTx[m.row].type = m.new.type
                /\ ~agentOverlap \/ m.new.type # "settle" =>
                      agentTx[m.row].twin = IF m.fresh THEN None ELSE m.twin
          /\ m.fresh /\ ~m.creates => m.new.type = "settle"

Sound(r) == SoundAt(agentPc[r], agentMem[r])

Apart(r, q) == Reserved(r) \cap Held(q) = {} /\ Making(r) \cap {agentMem[q].row} = {}

RowsKnown ==
    /\ \A n \in AgentIds : agentTx[n] # None =>
          n <= agentTxs /\ (agentTx[n].twin # None => agentTx[n].twin <= entries)
    /\ \A t \in EntryIds : ledgerTx[t] # None => t <= entries
DistinctTwins == \A n, k \in AgentIds :
    n # k /\ agentTx[n] # None /\ agentTx[k] # None /\ agentTx[n].twin = agentTx[k].twin =>
        agentTx[n].twin = None
RowKinds == \A n \in AgentIds :
    agentTx[n] # None /\ agentTx[n].twin # None =>
        LET e == ledgerTx[agentTx[n].twin] IN e # None => e.kind = agentTx[n].type

\* without overlap one request is in progress at a time
Single == ~agentOverlap => \A r, q \in Requests :
    agentPc[r] # "idle" /\ agentPc[q] # "idle" => r = q

\* TwinsAgree, said also of what a request is in the middle of
Agreeing(n) ==
    LET row == agentTx[n] IN
    /\ row # None /\ row.twin \notin touched \cup {None}
    /\ agentOverlap => row.type # "settle"
    /\ ~Mirroring(row.twin)
    => SameMoney(row, ledgerTx[row.twin])
\* what the screen of the money log is about to mirror will agree
MirrorsAgree == ~agentOverlap => \A r \in Requests, n \in AgentIds :
    /\ agentPc[r] = "mirror"
    /\ agentTx[n] # None /\ agentTx[n].twin = agentMem[r].entry
    /\ agentMem[r].entry \notin touched
    => SameMoney(Mirrored(agentTx[n], agentMem[r]), ledgerTx[agentMem[r].entry])

IInv ==
    /\ AgentTypeOK /\ RowsKnown /\ DistinctTwins /\ RowKinds /\ Single
    /\ \A r \in Requests : Sound(r)
    /\ \A r, q \in Requests : r # q => Apart(r, q)
    /\ \A n \in AgentIds : Agreeing(n)
    /\ MirrorsAgree

-----------------------------------------------------------------------------
(* Types of what is computed.                                              *)

LEMMA BlankType == AgentBlank \in AgentLocal
BY DEF AgentBlank, AgentLocal, Maybe

LEMMA GivenNat == ASSUME NEW x \in Maybe(Nat), NEW old \in Nat PROVE Given(x, old) \in Nat
BY AgentAssumption DEF Given, Maybe

LEMMA RatesType ==
    ASSUME NEW rows \in [AgentIds -> Maybe(AgentRow)]
    PROVE  RatesOf(rows) \in SUBSET RateType
<1>1. ASSUME NEW n \in AgentIds, rows[n] # None
      PROVE  [date |-> rows[n].date, seq |-> n, rate |-> rows[n].rate] \in RateType
  BY <1>1 DEF Maybe, AgentRow, RateType
<1> QED BY <1>1 DEF RatesOf

LEMMA InForceIn == ASSUME NEW rates, NEW d PROVE InForce(rates, d) \subseteq rates
BY DEF InForce

LEMMA ExchangedInt == ASSUME NEW a \in Int, NEW x \in Nat PROVE Exchanged(a, x) \in Int
BY DEF Exchanged

LEMMA QuotesType ==
    ASSUME AgentTypeOK, NEW rates \in SUBSET RateType
    PROVE  /\ Quotes(rates) \in SUBSET QuoteType
           /\ \A p \in Quotes(rates) : p.entry \in EntryIds /\ Priced(p.entry)
<1>1. ASSUME NEW t \in EntryIds, Priced(t), NEW x \in rates
      PROVE  Quote(t, x) \in QuoteType /\ Quote(t, x).entry = t
  <2>1. ledgerTx[t].amount \in Int /\ x.rate \in Nat
    BY <1>1 DEF AgentTypeOK, Maybe, EntryRow, Priced, RateType
  <2> QED BY <2>1, ExchangedInt DEF Quote, QuoteType
<1>2. \A p \in Quotes(rates) : \E t \in EntryIds : Priced(t) /\ \E x \in rates : p = Quote(t, x)
  BY InForceIn DEF Quotes
<1> QED BY <1>1, <1>2

LEMMA NewRowType ==
    ASSUME NEW f \in AgentForm, NEW t \in Maybe(EntryIds)
    PROVE  NewRow(f, t) \in AgentRow /\ NewRow(f, t).type = f.type /\ NewRow(f, t).twin = t
<1>1. f.sign * f.amount \in Int
  BY DEF AgentForm, Positive
<1> QED BY <1>1 DEF NewRow, AgentRow, AgentForm

LEMMA EditedType ==
    ASSUME NEW row \in AgentRow, NEW f \in AgentEdit
    PROVE  Edited(row, f) \in AgentRow /\ Edited(row, f).type = row.type
               /\ Edited(row, f).twin = row.twin
<1>1. /\ f.date \in Maybe(Nat) /\ f.amount \in Maybe(Positive) /\ f.sign \in Maybe({1, -1})
      /\ f.rate \in Maybe(Positive) /\ f.treasury \in Maybe(BOOLEAN)
  BY DEF AgentEdit
<1>2. /\ row.date \in Nat /\ row.amount \in Int /\ row.rate \in Nat /\ row.treasury \in BOOLEAN
  BY DEF AgentRow
<1>3. SignOf(row.amount) \in {1, -1} /\ SizeOf(row.amount) \in Nat
  BY <1>2 DEF SignOf, SizeOf
<1>4. Given(f.date, row.date) \in Nat
  BY <1>1, <1>2, GivenNat
<1>5. Given(f.sign, SignOf(row.amount)) \in {1, -1} /\ Given(f.amount, SizeOf(row.amount)) \in Nat
  BY <1>1, <1>3 DEF Given, Maybe, Positive
<1>6. Given(f.rate, row.rate) \in Nat
  BY <1>1, <1>2 DEF Given, Maybe, Positive
<1>7. Given(f.treasury, row.treasury) \in BOOLEAN
  BY <1>1, <1>2, Zenon DEF Given, Maybe
<1>8. (IF row.type = "settle" THEN Given(f.sign, SignOf(row.amount)) ELSE SignOf(row.amount))
         * Given(f.amount, SizeOf(row.amount)) \in Int
  BY <1>3, <1>5
<1> DEFINE a == (IF row.type = "settle" THEN Given(f.sign, SignOf(row.amount)) ELSE SignOf(row.amount))
         * Given(f.amount, SizeOf(row.amount))
           d == Given(f.date, row.date)
           x == IF row.type = "out" THEN Given(f.rate, row.rate) ELSE row.rate
           y == IF row.type = "out" THEN row.treasury ELSE Given(f.treasury, row.treasury)
<1>9. Edited(row, f) = [row EXCEPT !.date = d, !.amount = a, !.rate = x, !.treasury = y]
  BY DEF Edited
<1>10. d \in Nat /\ a \in Int /\ x \in Nat
  BY <1>2, <1>4, <1>6, <1>8
<1>11. y \in BOOLEAN
  BY <1>2, <1>7
<1> HIDE DEF a, d, x, y
<1> QED BY <1>9, <1>10, <1>11 DEF AgentRow

LEMMA TwinOfType ==
    ASSUME NEW row \in AgentRow
    PROVE  TwinOf(row) \in EntryRow /\ SameMoney(row, TwinOf(row)) /\ TwinOf(row).kind = row.type
<1>1. TwinOf(row) \in EntryRow
  BY DEF TwinOf, AgentRow, EntryRow
<1>2. TwinOf(row) # None
  BY <1>1, AgentAssumption
<1> QED BY <1>1, <1>2 DEF TwinOf, SameMoney

LEMMA QuotedType ==
    ASSUME AgentTypeOK, NEW p \in QuoteType, ledgerTx[p.entry] # None
    PROVE  Quoted(p.entry, p) \in EntryRow /\ Quoted(p.entry, p).kind = ledgerTx[p.entry].kind
BY DEF AgentTypeOK, Maybe, EntryRow, QuoteType, Quoted

LEMMA RescaledType ==
    ASSUME NEW old \in EntryRow, NEW a \in Positive
    PROVE  Rescaled(old, a) \in EntryRow /\ Rescaled(old, a).kind = old.kind
<1> DEFINE x == IF old.amount < 0 THEN -a ELSE a
           y == IF old.amount = 0 THEN old.second ELSE (a * old.second) \div SizeOf(old.amount)
<1>1. old.amount \in Int /\ old.second \in Int
  BY DEF EntryRow
<1>2. a \in Int
  BY DEF Positive
<1>3. x \in Int
  BY <1>2
<1>4. y \in Int
  <2>1. CASE old.amount = 0
    BY <1>1, <2>1
  <2>2. CASE old.amount # 0
    <3>1. SizeOf(old.amount) \in Nat \ {0} /\ a * old.second \in Int
      BY <1>1, <1>2, <2>2 DEF SizeOf
    <3>2. (a * old.second) \div SizeOf(old.amount) \in Int
      BY <3>1
    <3> QED BY <2>2, <3>2
  <2> QED BY <2>1, <2>2
<1>5. Rescaled(old, a) = [old EXCEPT !.amount = x, !.second = y]
  BY DEF Rescaled
<1> HIDE DEF x, y
<1> QED BY <1>3, <1>4, <1>5 DEF EntryRow

LEMMA NoneIsNoRow == None \notin AgentRow /\ None \notin EntryRow /\ None \notin EntryIds
BY AgentAssumption DEF EntryIds

LEMMA RowTyped ==
    ASSUME AgentTypeOK, NEW n \in AgentIds, agentTx[n] # None
    PROVE  /\ agentTx[n] \in AgentRow
           /\ agentTx[n].type \in Types /\ agentTx[n].twin \in Maybe(EntryIds)
BY DEF AgentTypeOK, Maybe, AgentRow, Types

LEMMA EntryTyped ==
    ASSUME AgentTypeOK, NEW t \in EntryIds, ledgerTx[t] # None
    PROVE  ledgerTx[t] \in EntryRow
BY DEF AgentTypeOK, Maybe

-----------------------------------------------------------------------------
(* One request moves.                                                      *)

LEMMA MoveType ==
    ASSUME AgentTypeOK, NEW r \in Requests, NEW l \in AgentPlaces, NEW m \in AgentLocal,
           AgentGoto(r, l), AgentRemember(r, m)
    PROVE  /\ agentPc' \in [Requests -> AgentPlaces] /\ agentMem' \in [Requests -> AgentLocal]
           /\ agentPc'[r] = l /\ agentMem'[r] = m
           /\ \A q \in Requests \ {r} : agentPc'[q] = agentPc[q] /\ agentMem'[q] = agentMem[q]
<1> HIDE DEF AgentPlaces, AgentLocal
<1> QED BY DEF AgentTypeOK, AgentGoto, AgentRemember

\* What a request relies on is kept by a step that lets rows be what they are or
\* deletes them, and makes new ones under ids that this request does not hold.
RowKept(k, l, m) ==
    \/ agentTx'[k] = None
    \/ /\ agentTx[k] # None /\ agentTx'[k].type = agentTx[k].type
       /\ \/ agentTx'[k].twin = agentTx[k].twin
          \/ /\ agentTx[k].type = "settle" /\ agentTx'[k].twin \notin HeldIn(m)
             /\ agentOverlap \/ l = "idle"
    \/ k # m.row /\ agentTx'[k].twin \notin HeldIn(m)
EntryKept(t, m) ==
    \/ ledgerTx'[t] = None
    \/ ledgerTx[t] # None /\ ledgerTx'[t].kind = ledgerTx[t].kind
    \/ t \notin HeldIn(m)

LEMMA SoundKept ==
    ASSUME AgentTypeOK, NEW l, NEW m \in AgentLocal, SoundAt(l, m),
           agentOverlap' = agentOverlap,
           entries' \in Nat, entries <= entries', agentTxs' \in Nat, agentTxs <= agentTxs',
           \A k \in AgentIds : RowKept(k, l, m), \A t \in EntryIds : EntryKept(t, m)
    PROVE  SoundAt(l, m)'
<1>1. entries \in Nat /\ agentTxs \in Nat
  BY AgentAssumption DEF AgentTypeOK
<1>2. /\ m.row \in AgentIds \cup {0} /\ m.twin \in EntryIds \cup {None} /\ m.entry \in EntryIds \cup {None}
      /\ \A p \in m.plan : p.entry \in EntryIds
  BY DEF AgentLocal, Maybe, QuoteType
<1>3. /\ m.twin # None => m.twin \in HeldIn(m)
      /\ m.entry # None => m.entry \in HeldIn(m)
      /\ \A p \in m.plan : p.entry \in HeldIn(m)
  BY <1>2, NoneIsNoRow DEF HeldIn
<1>4. HeldIn(m) \subseteq 1..(entries') /\ m.row <= agentTxs'
  <2>1. m.row \in Nat /\ m.row <= agentTxs
    BY <1>2 DEF SoundAt, AgentIds
  <2>2. HeldIn(m) \subseteq 1..entries
    BY DEF SoundAt
  <2>3. \A t \in 1..entries : t \in 1..(entries')
    BY <1>1
  <2> QED BY <1>1, <2>1, <2>2, <2>3
<1>5. ASSUME l = "payment", ledgerTx'[m.entry] # None PROVE ledgerTx'[m.entry].kind = "payment"
  <2>1. m.entry \in EntryIds
    BY <1>5 DEF SoundAt
  <2> QED BY <1>3, <1>5, <2>1, NoneIsNoRow DEF SoundAt, EntryKept
<1>6. ASSUME NEW p \in m.plan, ledgerTx'[p.entry] # None PROVE ledgerTx'[p.entry].kind \in Kinds
  BY <1>2, <1>3, <1>6 DEF SoundAt, EntryKept
<1>7. ASSUME NEW t \in ReservedAt(l, m)
      PROVE  ledgerTx'[t] = None /\ \A k \in AgentIds : agentTx'[k] # None => agentTx'[k].twin # t
  <2>1. t \in HeldIn(m) /\ t \in EntryIds
    <3>1. /\ l \in {"rows", "write"} /\ m.fresh => m.twin # None
          /\ l = "post" => m.entry \in EntryIds
      BY DEF SoundAt
    <3> QED BY <1>2, <1>3, <1>7, <3>1, NoneIsNoRow DEF ReservedAt
  <2>2. ledgerTx[t] = None /\ \A k \in AgentIds : agentTx[k] # None => agentTx[k].twin # t
    BY <1>7 DEF SoundAt
  <2> QED BY <2>1, <2>2 DEF RowKept, EntryKept
<1>8. ASSUME NEW n \in MakingAt(l, m) PROVE agentTx'[n] = None
  <2>1. n = m.row /\ n \in AgentIds /\ agentTx[n] = None
    BY <1>8 DEF SoundAt, MakingAt
  <2> QED BY <2>1 DEF RowKept
<1>9. ASSUME l \in {"edit", "rows", "write"}
      PROVE  /\ m.twin # None /\ ledgerTx'[m.twin] # None => ledgerTx'[m.twin].kind = m.new.type
             /\ m.twin # None => \A k \in AgentIds \ {m.row} :
                   agentTx'[k] # None => agentTx'[k].twin # m.twin
             /\ ~m.creates /\ agentTx'[m.row] # None =>
                   /\ agentTx'[m.row].type = m.new.type
                   /\ ~agentOverlap \/ m.new.type # "settle" =>
                         agentTx'[m.row].twin = IF m.fresh THEN None ELSE m.twin
  <2>1. m.row \in AgentIds
    BY <1>9 DEF SoundAt
  <2>2. m.twin # None /\ ledgerTx'[m.twin] # None => ledgerTx'[m.twin].kind = m.new.type
    BY <1>2, <1>3, <1>9 DEF SoundAt, EntryKept
  <2>3. m.twin # None => \A k \in AgentIds \ {m.row} :
            agentTx'[k] # None => agentTx'[k].twin # m.twin
    BY <1>3, <1>9 DEF SoundAt, RowKept
  <2>4. ASSUME ~m.creates, agentTx'[m.row] # None
        PROVE  /\ agentTx'[m.row].type = m.new.type
               /\ ~agentOverlap \/ m.new.type # "settle" =>
                     agentTx'[m.row].twin = IF m.fresh THEN None ELSE m.twin
    <3>1. /\ agentTx[m.row] # None /\ agentTx'[m.row].type = agentTx[m.row].type
          /\ \/ agentTx'[m.row].twin = agentTx[m.row].twin
             \/ agentTx[m.row].type = "settle" /\ agentOverlap
      BY <1>9, <2>1, <2>4 DEF RowKept
    <3> QED BY <1>9, <2>4, <3>1 DEF SoundAt
  <2> QED BY <2>2, <2>3, <2>4
<1> QED BY <1>4, <1>5, <1>6, <1>7, <1>8, <1>9 DEF SoundAt

OthersStay(r) == \A q \in Requests \ {r} : agentPc'[q] = agentPc[q] /\ agentMem'[q] = agentMem[q]

\* Requests stay apart: an id that a request takes up is new, is that of a row,
\* or was its own already.
TakesUp(r, l, m) ==
    /\ \A t \in ReservedAt(l, m) : t \in Reserved(r) \/ t > entries
    /\ \A n \in MakingAt(l, m) : n \in Making(r) \/ n > agentTxs
    /\ \A t \in HeldIn(m) :
          \/ t \in Held(r) \/ t > entries \/ ledgerTx[t] # None
          \/ \E k \in AgentIds : agentTx[k] # None /\ agentTx[k].twin = t
    /\ m.row \in {0, agentMem[r].row} \/ m.row > agentTxs \/ agentTx[m.row] # None

LEMMA ApartKept ==
    ASSUME IInv, NEW r \in Requests, NEW l, NEW m \in AgentLocal, agentPc'[r] = l, agentMem'[r] = m,
           OthersStay(r), TakesUp(r, l, m)
    PROVE  \A p, q \in Requests : p # q => Apart(p, q)'
<1>1. ASSUME NEW q \in Requests
      PROVE  /\ agentMem[q] \in AgentLocal /\ Sound(q)
             /\ \A t \in Held(q) : t \in EntryIds /\ ~(t > entries)
             /\ agentMem[q].row \in Nat /\ agentMem[q].row <= agentTxs /\ agentTxs \in Nat
  <2>1. agentMem[q] \in AgentLocal /\ Sound(q) /\ entries \in Nat /\ agentTxs \in Nat
    BY AgentAssumption DEF IInv, AgentTypeOK
  <2>2. Held(q) \subseteq 1..entries /\ agentMem[q].row <= agentTxs
    BY <2>1 DEF Sound, SoundAt, Held
  <2>3. agentMem[q].row \in Nat /\ Held(q) \subseteq EntryIds
    BY <2>1 DEF AgentLocal, AgentIds, Held, HeldIn, Maybe, QuoteType
  <2>4. \A t \in 1..entries : ~(t > entries)
    BY <2>1
  <2> QED BY <2>1, <2>2, <2>3, <2>4
<1>2. ASSUME NEW q \in Requests
      PROVE  /\ \A t \in Reserved(q) : ledgerTx[t] = None /\ \A k \in AgentIds :
                    agentTx[k] # None => agentTx[k].twin # t
             /\ \A t \in Reserved(q) : t \in Held(q)
             /\ \A n \in Making(q) : n = agentMem[q].row /\ n \in AgentIds /\ agentTx[n] = None
  <2>1. SoundAt(agentPc[q], agentMem[q]) /\ agentMem[q] \in AgentLocal
    BY <1>1 DEF Sound
  <2>2. \A t \in Reserved(q) : t \in Held(q)
    <3>1. agentMem[q].entry \in EntryIds => agentMem[q].entry # None
      BY NoneIsNoRow
    <3> QED BY <2>1, <3>1 DEF SoundAt, Reserved, ReservedAt, Held, HeldIn
  <2> QED BY <2>1, <2>2 DEF SoundAt, Reserved, Making, MakingAt
<1>3. ASSUME NEW q \in Requests, q # r PROVE Apart(r, q)' /\ Apart(q, r)'
  <2>1. /\ Reserved(q)' = Reserved(q) /\ Making(q)' = Making(q) /\ Held(q)' = Held(q)
        /\ agentMem'[q] = agentMem[q]
    BY <1>3 DEF OthersStay, Reserved, Making, Held
  <2>2. Reserved(r)' = ReservedAt(l, m) /\ Making(r)' = MakingAt(l, m) /\ Held(r)' = HeldIn(m)
    BY DEF Reserved, Making, Held
  <2>3. Apart(r, q) /\ Apart(q, r)
    BY <1>3 DEF IInv
  <2>4. ASSUME NEW t \in ReservedAt(l, m) PROVE t \notin Held(q)
    <3>1. CASE t \in Reserved(r)
      BY <2>3, <3>1 DEF Apart
    <3>2. CASE t > entries
      BY <1>1, <3>2
    <3> QED BY <3>1, <3>2 DEF TakesUp
  <2>5. \A n \in MakingAt(l, m) : n # agentMem[q].row
    BY <1>1, <2>3 DEF TakesUp, Apart
  <2>6. ASSUME NEW t \in Reserved(q), t \in HeldIn(m) PROVE FALSE
    <3>1. /\ t \in Held(q) /\ ledgerTx[t] = None
          /\ \A k \in AgentIds : agentTx[k] # None => agentTx[k].twin # t
      BY <1>2
    <3>2. CASE t \in Held(r)
      BY <2>3, <3>2 DEF Apart
    <3>3. CASE t > entries
      BY <1>1, <3>1, <3>3
    <3> QED BY <2>6, <3>1, <3>2, <3>3 DEF TakesUp
  <2>7. \A n \in Making(q) : n # m.row
    <3>1. \A n \in Making(q) : n # agentMem[r].row /\ n # 0 /\ n <= agentTxs /\ agentTx[n] = None
      BY <1>1, <1>2, <2>3 DEF Apart, AgentIds
    <3> QED BY <1>1, <1>2, <3>1 DEF TakesUp
  <2> QED BY <2>1, <2>2, <2>4, <2>5, <2>6, <2>7 DEF Apart
<1>4. ASSUME NEW p \in Requests, NEW q \in Requests, p # q, p # r, q # r PROVE Apart(p, q)'
  <2>1. Apart(p, q)
    BY <1>4 DEF IInv
  <2> QED BY <1>4, <2>1 DEF OthersStay, Apart, Reserved, Making, Held
<1> QED BY <1>3, <1>4

LEMMA SingleKept ==
    ASSUME IInv, NEW r \in Requests, OthersStay(r), agentOverlap' = agentOverlap,
           agentOverlap \/ AgentsIdle \/ agentPc[r] # "idle"
    PROVE  Single'
BY DEF IInv, Single, OthersStay, AgentsIdle

\* A request moves and the rows stay as they are, but for ids that were given out.
LEMMA QuietMove ==
    ASSUME IInv, NEW r \in Requests,
           UNCHANGED <<agentTx, ledgerTx, touched, agentOverlap>>,
           disturbed' \in BOOLEAN, agentBegun' \in Nat,
           entries' \in 0..MaxEntries, entries <= entries',
           agentTxs' \in 0..MaxAgentTx, agentTxs <= agentTxs',
           NEW l \in AgentPlaces, NEW m \in AgentLocal, AgentGoto(r, l), AgentRemember(r, m),
           l # "mirror", agentPc[r] # "mirror",
           agentOverlap \/ AgentsIdle \/ agentPc[r] # "idle",
           SoundAt(l, m)', TakesUp(r, l, m)
    PROVE  IInv'
<1>0. AgentTypeOK /\ entries \in Nat /\ agentTxs \in Nat /\ entries' \in Nat /\ agentTxs' \in Nat
  BY AgentAssumption DEF IInv, AgentTypeOK
<1>1. /\ agentPc' \in [Requests -> AgentPlaces] /\ agentMem' \in [Requests -> AgentLocal]
      /\ agentPc'[r] = l /\ agentMem'[r] = m /\ OthersStay(r)
  <2> HIDE DEF AgentPlaces, AgentLocal
  <2> QED BY <1>0, MoveType DEF OthersStay
<1>2. AgentTypeOK'
  BY <1>0, <1>1 DEF AgentTypeOK
<1>3. ASSUME NEW q \in Requests PROVE Sound(q)'
  <2>1. CASE q = r
    BY <1>1, <2>1 DEF Sound
  <2>2. CASE q # r
    <3>1. agentMem[q] \in AgentLocal /\ SoundAt(agentPc[q], agentMem[q])
      BY <1>0 DEF IInv, Sound, AgentTypeOK
    <3>2. \A p, n : \A k \in AgentIds : RowKept(k, p, n)
      BY DEF RowKept
    <3>3. \A n : \A t \in EntryIds : EntryKept(t, n)
      BY DEF EntryKept
    <3>4. \A p : \A n \in AgentLocal : SoundAt(p, n) => SoundAt(p, n)'
      BY <1>0, <3>2, <3>3, SoundKept
    <3>5. agentPc'[q] = agentPc[q] /\ agentMem'[q] = agentMem[q]
      BY <1>1, <2>2 DEF OthersStay
    <3> QED BY <3>1, <3>4, <3>5 DEF Sound
  <2> QED BY <2>1, <2>2
<1>4. \A p, q \in Requests : p # q => Apart(p, q)'
  BY <1>1, ApartKept
<1>5. RowsKnown' /\ DistinctTwins' /\ RowKinds'
  <2>1. RowsKnown'
    <3>1. \A n \in AgentIds : agentTx[n] # None /\ agentTx[n].twin # None => agentTx[n].twin \in Nat
      BY <1>0, RowTyped DEF Maybe, EntryIds
    <3> QED BY <1>0, <3>1 DEF IInv, RowsKnown, AgentIds, EntryIds
  <2> QED BY <2>1 DEF IInv, DistinctTwins, RowKinds
<1>6. Single'
  BY <1>1, SingleKept
<1>7. \A t : Mirroring(t)' = Mirroring(t)
  BY <1>1 DEF Mirroring, OthersStay
<1>8. \A n \in AgentIds : Agreeing(n)'
  BY <1>7 DEF IInv, Agreeing, SameMoney
<1>9. MirrorsAgree'
  BY <1>1 DEF IInv, MirrorsAgree, OthersStay, SameMoney, Mirrored, Given
<1> QED BY <1>2, <1>3, <1>4, <1>5, <1>6, <1>8, <1>9 DEF IInv

-----------------------------------------------------------------------------
(* What a step has to show, for a request that writes, and for none.       *)

KeptFor(q) ==
    /\ \A k \in AgentIds : RowKept(k, agentPc[q], agentMem[q])
    /\ \A t \in EntryIds : EntryKept(t, agentMem[q])

LEMMA OthersSound ==
    ASSUME IInv, AgentTypeOK', agentOverlap' = agentOverlap,
           entries <= entries', agentTxs <= agentTxs',
           NEW q \in Requests, agentPc'[q] = agentPc[q], agentMem'[q] = agentMem[q], KeptFor(q)
    PROVE  Sound(q)'
<1>1. /\ AgentTypeOK /\ agentMem[q] \in AgentLocal /\ SoundAt(agentPc[q], agentMem[q])
      /\ entries' \in Nat /\ agentTxs' \in Nat
  BY AgentAssumption DEF IInv, Sound, AgentTypeOK
<1>2. \A l : \A m \in AgentLocal :
          SoundAt(l, m) /\ (\A k \in AgentIds : RowKept(k, l, m)) /\ (\A t \in EntryIds : EntryKept(t, m))
              => SoundAt(l, m)'
  BY <1>1, SoundKept
<1>3. SoundAt(agentPc[q], agentMem[q])' <=> Sound(q)'
  BY DEF Sound
<1>4. \A l : \A m \in AgentLocal : agentPc'[q] = l /\ agentMem'[q] = m /\ SoundAt(l, m)' => Sound(q)'
  BY DEF Sound
<1> QED BY <1>1, <1>2, <1>4 DEF KeptFor

LEMMA WriteMove ==
    ASSUME IInv, NEW r \in Requests, OthersStay(r), AgentTypeOK', agentOverlap' = agentOverlap,
           entries <= entries', agentTxs <= agentTxs',
           agentPc[r] # "idle",
           \A q \in Requests \ {r} : KeptFor(q),
           Sound(r)', TakesUp(r, agentPc'[r], agentMem'[r]),
           RowsKnown', DistinctTwins', RowKinds', \A n \in AgentIds : Agreeing(n)',
           agentPc'[r] # "mirror" \/ MirrorsAgree'
    PROVE  IInv'
<1>1. \A q \in Requests : Sound(q)'
  BY OthersSound DEF OthersStay
<1>2. \A p, q \in Requests : p # q => Apart(p, q)'
  <2>1. agentMem'[r] \in AgentLocal
    BY DEF AgentTypeOK
  <2> QED BY <2>1, ApartKept
<1>3. Single'
  BY SingleKept
<1>4. MirrorsAgree'
  <2>1. CASE agentPc'[r] # "mirror"
    <3>1. ASSUME ~agentOverlap, NEW q \in Requests, agentPc'[q] = "mirror" PROVE FALSE
      BY <2>1, <3>1 DEF IInv, Single, OthersStay
    <3> QED BY <3>1 DEF MirrorsAgree
  <2> QED BY <2>1
<1> QED BY <1>1, <1>2, <1>3, <1>4 DEF IInv

LEMMA WriteAlone ==
    ASSUME IInv, MeanwhileOrBetween, AgentTypeOK', entries <= entries', agentTxs <= agentTxs',
           \A q \in Requests : KeptFor(q),
           RowsKnown', DistinctTwins', RowKinds', \A n \in AgentIds : Agreeing(n)'
    PROVE  IInv'
<1>0. /\ agentPc' = agentPc /\ agentMem' = agentMem /\ agentOverlap' = agentOverlap
      /\ agentOverlap \/ AgentsIdle
  BY DEF MeanwhileOrBetween, agentTraffic
<1>1. \A q \in Requests : Sound(q)'
  BY <1>0, OthersSound
<1>2. \A p, q \in Requests : p # q => Apart(p, q)'
  BY <1>0 DEF IInv, Apart, Reserved, Making, Held
<1>3. Single'
  BY <1>0 DEF IInv, Single
<1>4. MirrorsAgree'
  BY <1>0 DEF MirrorsAgree, AgentsIdle
<1> QED BY <1>1, <1>2, <1>3, <1>4 DEF IInv

LEMMA Ended ==
    ASSUME IInv, NEW r \in Requests, AgentEnd(r), agentTxs' \in Nat, entries' \in Nat
    PROVE  /\ agentPc' \in [Requests -> AgentPlaces] /\ agentMem' \in [Requests -> AgentLocal]
           /\ agentPc'[r] = "idle" /\ agentMem'[r] = AgentBlank /\ OthersStay(r)
           /\ Sound(r)' /\ TakesUp(r, agentPc'[r], agentMem'[r])
<1>1. /\ agentPc' \in [Requests -> AgentPlaces] /\ agentMem' \in [Requests -> AgentLocal]
      /\ agentPc'[r] = "idle" /\ agentMem'[r] = AgentBlank /\ OthersStay(r)
  <2>1. AgentTypeOK /\ "idle" \in AgentPlaces
    BY DEF IInv, AgentPlaces
  <2> QED BY <2>1, BlankType, MoveType DEF AgentEnd, OthersStay
<1>2. HeldIn(AgentBlank) = {} /\ ReservedAt("idle", AgentBlank) = {} /\ MakingAt("idle", AgentBlank) = {}
      /\ AgentBlank.row = 0 /\ AgentBlank.plan = {}
  BY DEF HeldIn, ReservedAt, MakingAt, AgentBlank
<1>3. SoundAt("idle", AgentBlank)'
  BY <1>2 DEF SoundAt
<1> QED BY <1>1, <1>2, <1>3 DEF Sound, TakesUp

-----------------------------------------------------------------------------
(* Rows and entries.                                                       *)

\* a twin is never one of the rows that are priced
LEMMA TwinNotPriced ==
    ASSUME IInv, NEW n \in AgentIds, agentTx[n] # None, agentTx[n].twin # None,
           ledgerTx[agentTx[n].twin] # None
    PROVE  ledgerTx[agentTx[n].twin].kind \in Types /\ ledgerTx[agentTx[n].twin].kind \notin Kinds
<1>1. ledgerTx[agentTx[n].twin].kind = agentTx[n].type /\ agentTx[n].type \in Types
  BY RowTyped DEF IInv, RowKinds
<1> QED BY <1>1 DEF Types, Kinds

LEMMA Removed ==
    ASSUME IInv, NEW rows, agentTx' = WithoutRows(rows),
           \/ ledgerTx' = ledgerTx
           \/ \E t \in EntryIds : ledgerTx' = WithoutEntry(t) /\ TwinsRows(t) \subseteq rows,
           entries' = entries, agentTxs' = agentTxs, agentOverlap' = agentOverlap,
           touched \subseteq touched', \A t : Mirroring(t)' = Mirroring(t)
    PROVE  /\ agentTx' \in [AgentIds -> Maybe(AgentRow)] /\ ledgerTx' \in [EntryIds -> Maybe(EntryRow)]
           /\ RowsKnown' /\ DistinctTwins' /\ RowKinds' /\ \A n \in AgentIds : Agreeing(n)'
           /\ \A q \in Requests : KeptFor(q)
<1>0. agentTx \in [AgentIds -> Maybe(AgentRow)] /\ ledgerTx \in [EntryIds -> Maybe(EntryRow)]
  BY DEF IInv, AgentTypeOK
<1>1. \A n \in AgentIds : agentTx'[n] # None => n \notin rows /\ agentTx[n] # None /\ agentTx'[n] = agentTx[n]
  BY DEF WithoutRows
<1>2. \A n \in AgentIds : agentTx'[n] \in {None, agentTx[n]}
  BY DEF WithoutRows
<1>3. \A t \in EntryIds : ledgerTx'[t] \in {None, ledgerTx[t]}
  BY <1>0 DEF WithoutEntry
<1>4. /\ agentTx' \in [AgentIds -> Maybe(AgentRow)] /\ ledgerTx' \in [EntryIds -> Maybe(EntryRow)]
  <2>1. agentTx' \in [AgentIds -> Maybe(AgentRow)]
    BY <1>0 DEF WithoutRows, Maybe
  <2>2. ledgerTx' \in [EntryIds -> Maybe(EntryRow)]
    BY <1>0 DEF WithoutEntry, Maybe
  <2> QED BY <2>1, <2>2
<1>5. ASSUME NEW n \in AgentIds, agentTx'[n] # None, agentTx[n].twin # None
      PROVE  agentTx[n].twin \in EntryIds /\ ledgerTx'[agentTx[n].twin] = ledgerTx[agentTx[n].twin]
  <2>1. agentTx[n].twin \in EntryIds
    BY <1>1, <1>5, RowTyped DEF IInv, Maybe
  <2>2. ASSUME NEW t \in EntryIds, ledgerTx' = WithoutEntry(t), TwinsRows(t) \subseteq rows
        PROVE  agentTx[n].twin # t
    BY <1>1, <1>5, <2>2 DEF TwinsRows
  <2> QED BY <1>0, <2>1, <2>2 DEF WithoutEntry
<1>6. RowsKnown'
  BY <1>1, <1>3 DEF IInv, RowsKnown
<1>7. DistinctTwins'
  BY <1>1 DEF IInv, DistinctTwins
<1>8. RowKinds'
  BY <1>1, <1>5 DEF IInv, RowKinds
<1>9. ASSUME NEW n \in AgentIds PROVE Agreeing(n)'
  BY <1>1, <1>5 DEF IInv, Agreeing, SameMoney
<1>10. ASSUME NEW q \in Requests PROVE KeptFor(q)
  BY <1>2, <1>3 DEF KeptFor, RowKept, EntryKept
<1> QED BY <1>4, <1>6, <1>7, <1>8, <1>9, <1>10

\* A priced row is written, or written again.
LEMMA EntryPriced ==
    ASSUME IInv, NEW r \in Requests, OthersStay(r), NEW t \in EntryIds, NEW x \in EntryRow,
           x.kind \in Kinds, t <= entries,
           t \in Reserved(r) \/ (ledgerTx[t] # None /\ ledgerTx[t].kind = x.kind),
           ledgerTx' = [ledgerTx EXCEPT ![t] = x],
           UNCHANGED <<agentTx, entries, agentTxs, agentOverlap, touched>>,
           agentPc[r] # "mirror", agentPc'[r] # "mirror"
    PROVE  /\ ledgerTx' \in [EntryIds -> Maybe(EntryRow)]
           /\ RowsKnown' /\ DistinctTwins' /\ RowKinds' /\ \A n \in AgentIds : Agreeing(n)'
           /\ \A q \in Requests \ {r} : KeptFor(q)
<1>0. ledgerTx \in [EntryIds -> Maybe(EntryRow)]
  BY DEF IInv, AgentTypeOK
<1>1. ledgerTx' \in [EntryIds -> Maybe(EntryRow)]
  BY <1>0 DEF Maybe
<1>2. \A e \in EntryIds : ledgerTx'[e] = IF e = t THEN x ELSE ledgerTx[e]
  BY <1>0
<1>3. ASSUME NEW n \in AgentIds, agentTx[n] # None PROVE agentTx[n].twin # t
  <2>1. CASE t \in Reserved(r)
    BY <1>3, <2>1 DEF IInv, Sound, SoundAt, Reserved
  <2>2. CASE ledgerTx[t] # None /\ ledgerTx[t].kind = x.kind
    BY <1>3, <2>2, TwinNotPriced, NoneIsNoRow
  <2> QED BY <2>1, <2>2
<1>4. \A n \in AgentIds : agentTx[n] # None => agentTx[n].twin \in Maybe(EntryIds)
  BY RowTyped DEF IInv
<1>5. RowsKnown'
  BY <1>2 DEF IInv, RowsKnown
<1>6. DistinctTwins'
  BY DEF IInv, DistinctTwins
<1>7. RowKinds'
  BY <1>2, <1>3, <1>4 DEF IInv, RowKinds, Maybe
<1>8. ASSUME NEW n \in AgentIds PROVE Agreeing(n)'
  <2>1. \A e : Mirroring(e)' = Mirroring(e)
    BY DEF Mirroring, OthersStay
  <2>2. agentTx[n] # None /\ agentTx[n].twin # None => ledgerTx'[agentTx[n].twin] = ledgerTx[agentTx[n].twin]
    BY <1>2, <1>3, <1>4 DEF Maybe
  <2> QED BY <2>1, <2>2 DEF IInv, Agreeing, SameMoney
<1>9. ASSUME NEW q \in Requests \ {r} PROVE KeptFor(q)
  <2>1. \A k \in AgentIds : RowKept(k, agentPc[q], agentMem[q])
    BY DEF RowKept
  <2>2. t \in Reserved(r) => t \notin Held(q)
    BY DEF IInv, Apart
  <2>3. ASSUME NEW e \in EntryIds PROVE EntryKept(e, agentMem[q])
    BY <1>2, <2>2 DEF EntryKept, Held
  <2> QED BY <2>1, <2>3 DEF KeptFor
<1> QED BY <1>1, <1>5, <1>6, <1>7, <1>8, <1>9

-----------------------------------------------------------------------------
(* One lemma for each action.  First those that write no row.              *)

LEMMA Entered ==
    ASSUME IInv, NEW r \in Requests, EnterAgent(r)
    PROVE  /\ agentPc[r] = "idle" /\ agentOverlap' = agentOverlap /\ agentBegun' \in Nat
           /\ agentOverlap \/ AgentsIdle
           /\ AgentTypeOK /\ entries \in Nat /\ agentTxs \in Nat
BY AgentAssumption DEF EnterAgent, IInv, AgentTypeOK

LEMMA SupplyBegun ==
    ASSUME IInv, NEW r \in Requests, NEW f \in Supplies, BeginSupply(r, f)
    PROVE  IInv'
<1>a. PICK n, t : n = agentTxs + 1 /\ t = NextEntry
  OBVIOUS
<1>b. PICK m : m = [AgentBlank EXCEPT
          !.row = n, !.new = NewRow(f, t), !.twin = t, !.creates = TRUE, !.fresh = TRUE,
          !.rates = RatesOf([agentTx EXCEPT ![n] = NewRow(f, t)])]
  OBVIOUS
<1>1. /\ EnterAgent(r) /\ f.type = "out" /\ n <= MaxAgentTx /\ t <= MaxEntries
      /\ agentTxs' = n /\ entries' = t /\ t = entries + 1
      /\ AgentGoto(r, "rows") /\ AgentRemember(r, m)
      /\ UNCHANGED <<agentTx, ledgerTx, touched, disturbed>>
  BY <1>a, <1>b DEF BeginSupply, NextEntry
<1>2. n \in AgentIds /\ t \in EntryIds /\ t # None
  BY <1>a, <1>1, Entered, AgentAssumption, NoneIsNoRow DEF AgentIds, EntryIds
<1>3. NewRow(f, t) \in AgentRow /\ NewRow(f, t).type = "out" /\ NewRow(f, t).twin = t
  BY <1>1, <1>2, NewRowType, AgentAssumption DEF Maybe
<1>4. RatesOf([agentTx EXCEPT ![n] = NewRow(f, t)]) \in SUBSET RateType
  <2>1. [agentTx EXCEPT ![n] = NewRow(f, t)] \in [AgentIds -> Maybe(AgentRow)]
    BY <1>3 DEF IInv, AgentTypeOK, Maybe
  <2> QED BY <2>1, RatesType
<1>5. /\ m \in AgentLocal /\ m.row = n /\ m.new = NewRow(f, t) /\ m.twin = t /\ m.creates /\ m.fresh
      /\ m.entry = None /\ m.plan = {}
  <2> QED BY <1>b, <1>2, <1>3, <1>4 DEF AgentBlank, AgentLocal, Maybe
<1>6. HeldIn(m) = {t} /\ ReservedAt("rows", m) = {t} /\ MakingAt("rows", m) = {n}
  <2> QED BY <1>2, <1>5 DEF HeldIn, ReservedAt, MakingAt
<1>7. /\ agentTx[n] = None /\ ledgerTx[t] = None
      /\ \A k \in AgentIds : agentTx[k] # None => agentTx[k].twin # t
  <2>1. ~(n <= agentTxs) /\ ~(t <= entries)
    BY <1>a, <1>1, Entered
  <2> QED BY <1>2, <2>1 DEF IInv, RowsKnown
<1>8. SoundAt("rows", m)'
  <2>1. t \in 1..t
    BY <1>2 DEF EntryIds
  <2>2. n <= n
    BY <1>2 DEF AgentIds
  <2> QED BY <1>1, <1>2, <1>3, <1>5, <1>6, <1>7, <2>1, <2>2 DEF SoundAt
<1>9. TakesUp(r, "rows", m)
  <2>1. n > agentTxs /\ t > entries
    BY <1>a, <1>1, Entered
  <2> QED BY <1>5, <1>6, <2>1 DEF TakesUp
<1>10. entries' \in 0..MaxEntries /\ entries <= entries' /\ agentTxs' \in 0..MaxAgentTx /\ agentTxs <= agentTxs'
  BY <1>a, <1>1, Entered, AgentAssumption
<1>11. disturbed' \in BOOLEAN
  BY <1>1 DEF IInv, AgentTypeOK
<1>12. "rows" \in AgentPlaces
  BY DEF AgentPlaces
<1> QED BY <1>1, <1>5, <1>8, <1>9, <1>10, <1>11, <1>12, Entered, QuietMove

\* a request that begins by reading only
LEMMA ReadBegun ==
    ASSUME IInv, NEW r \in Requests, EnterAgent(r), NEW l \in AgentPlaces, NEW m \in AgentLocal,
           AgentGoto(r, l), AgentRemember(r, m), l # "mirror",
           UNCHANGED <<agentTx, agentTxs, ledgerTx, touched, disturbed>>,
           entries' \in 0..MaxEntries, entries <= entries',
           SoundAt(l, m)', TakesUp(r, l, m)
    PROVE  IInv'
<1>1. agentTxs' \in 0..MaxAgentTx /\ agentTxs <= agentTxs' /\ disturbed' \in BOOLEAN
  BY AgentAssumption DEF IInv, AgentTypeOK
<1> QED BY <1>1, Entered, QuietMove

LEMMA EditBegun ==
    ASSUME IInv, NEW r \in Requests, NEW n \in AgentIds, NEW f \in AgentEdits, BeginEdit(r, n, f)
    PROVE  IInv'
<1>a. PICK m : m = [AgentBlank EXCEPT !.row = n, !.new = Edited(agentTx[n], f), !.twin = agentTx[n].twin]
  OBVIOUS
<1>1. /\ EnterAgent(r) /\ agentTx[n] # None /\ AgentGoto(r, "edit") /\ AgentRemember(r, m)
      /\ UNCHANGED <<agentTx, agentTxs, ledgerTx, entries, touched, disturbed>>
  BY <1>a DEF BeginEdit
<1>2. /\ agentTx[n] \in AgentRow /\ agentTx[n].twin \in Maybe(EntryIds)
      /\ Edited(agentTx[n], f) \in AgentRow /\ Edited(agentTx[n], f).type = agentTx[n].type
  BY <1>1, RowTyped, EditedType, AgentAssumption DEF IInv
<1>3. /\ m \in AgentLocal /\ m.row = n /\ m.new = Edited(agentTx[n], f) /\ m.twin = agentTx[n].twin
      /\ ~m.creates /\ ~m.fresh /\ m.entry = None /\ m.plan = {}
  BY <1>a, <1>2 DEF AgentBlank, AgentLocal, Maybe
<1>4. HeldIn(m) = {m.twin} \ {None} /\ ReservedAt("edit", m) = {} /\ MakingAt("edit", m) = {}
  BY <1>3 DEF HeldIn, ReservedAt, MakingAt
<1>5. m.row <= agentTxs /\ (m.twin # None => m.twin \in 1..entries)
  BY <1>1, <1>2, <1>3, Entered DEF IInv, RowsKnown, Maybe, EntryIds
<1>6. SoundAt("edit", m)'
  BY <1>1, <1>2, <1>3, <1>4, <1>5 DEF SoundAt, IInv, DistinctTwins, RowKinds
<1>7. TakesUp(r, "edit", m)
  BY <1>1, <1>3, <1>4 DEF TakesUp
<1>8. entries' \in 0..MaxEntries /\ entries <= entries'
  BY <1>1, Entered DEF AgentTypeOK
<1>9. "edit" \in AgentPlaces
  BY DEF AgentPlaces
<1> QED BY <1>1, <1>3, <1>6, <1>7, <1>8, <1>9, ReadBegun

LEMMA DeleteBegun ==
    ASSUME IInv, NEW r \in Requests, NEW n \in AgentIds, BeginDelete(r, n)
    PROVE  IInv'
<1>a. PICK m : m = [AgentBlank EXCEPT !.row = n, !.new = agentTx[n], !.twin = agentTx[n].twin]
  OBVIOUS
<1>1. /\ EnterAgent(r) /\ agentTx[n] # None /\ AgentGoto(r, "cascade") /\ AgentRemember(r, m)
      /\ UNCHANGED <<agentTx, agentTxs, ledgerTx, entries, touched, disturbed>>
  BY <1>a DEF BeginDelete
<1>2. agentTx[n] \in AgentRow /\ agentTx[n].twin \in Maybe(EntryIds)
  BY <1>1, RowTyped DEF IInv
<1>3. /\ m \in AgentLocal /\ m.row = n /\ m.new = agentTx[n] /\ m.twin = agentTx[n].twin
      /\ ~m.creates /\ ~m.fresh /\ m.entry = None /\ m.plan = {}
  BY <1>a, <1>2 DEF AgentBlank, AgentLocal, Maybe
<1>4. HeldIn(m) = {m.twin} \ {None} /\ ReservedAt("cascade", m) = {} /\ MakingAt("cascade", m) = {}
  BY <1>3 DEF HeldIn, ReservedAt, MakingAt
<1>5. m.row <= agentTxs /\ (m.twin # None => m.twin \in 1..entries)
  BY <1>1, <1>2, <1>3, Entered DEF IInv, RowsKnown, Maybe, EntryIds
<1>6. SoundAt("cascade", m)'
  BY <1>1, <1>2, <1>3, <1>4, <1>5 DEF SoundAt
<1>7. TakesUp(r, "cascade", m)
  BY <1>1, <1>3, <1>4 DEF TakesUp
<1>8. entries' \in 0..MaxEntries /\ entries <= entries'
  BY <1>1, Entered DEF AgentTypeOK
<1>9. "cascade" \in AgentPlaces
  BY DEF AgentPlaces
<1> QED BY <1>1, <1>3, <1>6, <1>7, <1>8, <1>9, ReadBegun

LEMMA MoveBegun ==
    ASSUME IInv, NEW r \in Requests, NEW f \in Moves, BeginMove(r, f)
    PROVE  IInv'
<1>a. PICK t : t = NextEntry
  OBVIOUS
<1>b. PICK x \in InForce(RatesOf(agentTx), f.date) :
          AgentRemember(r, [AgentBlank EXCEPT !.entry = t, !.move =
              [kind |-> f.kind, date |-> f.date, amount |-> f.amount, rate |-> x.rate,
               second |-> Exchanged(f.amount, x.rate)]])
  BY <1>a DEF BeginMove
<1>c. PICK m : m = [AgentBlank EXCEPT !.entry = t, !.move =
              [kind |-> f.kind, date |-> f.date, amount |-> f.amount, rate |-> x.rate,
               second |-> Exchanged(f.amount, x.rate)]]
  OBVIOUS
<1>1. /\ EnterAgent(r) /\ t <= MaxEntries /\ entries' = t /\ t = entries + 1
      /\ AgentGoto(r, "post") /\ AgentRemember(r, m)
      /\ UNCHANGED <<agentTx, agentTxs, ledgerTx, touched, disturbed>>
  BY <1>a, <1>b, <1>c DEF BeginMove, NextEntry
<1>2. t \in EntryIds /\ t # None
  BY <1>1, Entered, AgentAssumption, NoneIsNoRow DEF EntryIds
<1>3. x \in RateType
  BY InForceIn, RatesType DEF IInv, AgentTypeOK
<1>4. /\ f.kind \in Kinds /\ f.date \in Nat /\ f.amount \in Int /\ x.rate \in Nat
      /\ Exchanged(f.amount, x.rate) \in Int
  <2>1. f.kind \in Kinds /\ f.date \in Nat /\ f.amount \in Int /\ x.rate \in Nat
    BY <1>3, AgentAssumption DEF MoveForm, Kinds, Positive, RateType
  <2> QED BY <2>1, ExchangedInt
<1>5. m.move \in EntryRow /\ m.move.kind \in Kinds
  BY <1>c, <1>4 DEF AgentBlank, EntryRow, Kinds
<1>6. m \in AgentLocal /\ m.row = 0 /\ m.twin = None /\ m.entry = t /\ m.plan = {}
  BY <1>c, <1>2, <1>5 DEF AgentBlank, AgentLocal, Maybe
<1>7. HeldIn(m) = {t} /\ ReservedAt("post", m) = {t} /\ MakingAt("post", m) = {}
  BY <1>2, <1>6 DEF HeldIn, ReservedAt, MakingAt
<1>8. ledgerTx[t] = None /\ \A k \in AgentIds : agentTx[k] # None => agentTx[k].twin # t
  <2>1. ~(t <= entries)
    BY <1>1, Entered
  <2> QED BY <1>2, <2>1 DEF IInv, RowsKnown
<1>9. SoundAt("post", m)'
  <2>1. t \in 1..t /\ 0 <= agentTxs
    BY <1>1, <1>2, Entered DEF EntryIds
  <2> QED BY <1>1, <1>2, <1>5, <1>6, <1>7, <1>8, <2>1 DEF SoundAt
<1>10. TakesUp(r, "post", m)
  <2>1. t > entries
    BY <1>1, Entered
  <2> QED BY <1>6, <1>7, <2>1 DEF TakesUp
<1>11. entries' \in 0..MaxEntries /\ entries <= entries'
  BY <1>1, Entered, AgentAssumption
<1>12. "post" \in AgentPlaces
  BY DEF AgentPlaces
<1> QED BY <1>1, <1>6, <1>9, <1>10, <1>11, <1>12, ReadBegun

LEMMA PaymentBegun ==
    ASSUME IInv, NEW r \in Requests, NEW t \in EntryIds, NEW f \in EntryEdits, BeginPayment(r, t, f)
    PROVE  IInv'
<1>a. PICK old, date, amount :
          old = ledgerTx[t] /\ date = Given(f.date, old.date) /\ amount = Given(f.amount, old.amount)
  OBVIOUS
<1>b. PICK x \in InForce(RatesOf(agentTx), date) :
          AgentRemember(r, [AgentBlank EXCEPT !.entry = t, !.date = f.date, !.move =
              [old EXCEPT !.amount = amount, !.rate = x.rate, !.second = Exchanged(amount, x.rate)]])
  BY <1>a DEF BeginPayment
<1>c. PICK m : m = [AgentBlank EXCEPT !.entry = t, !.date = f.date, !.move =
              [old EXCEPT !.amount = amount, !.rate = x.rate, !.second = Exchanged(amount, x.rate)]]
  OBVIOUS
<1>1. /\ EnterAgent(r) /\ old # None /\ old.kind = "payment"
      /\ AgentGoto(r, "payment") /\ AgentRemember(r, m)
      /\ UNCHANGED <<agentTx, agentTxs, ledgerTx, entries, touched, disturbed>>
  BY <1>a, <1>b, <1>c DEF BeginPayment
<1>2. old \in EntryRow /\ t # None /\ t <= entries
  BY <1>a, <1>1, EntryTyped, NoneIsNoRow DEF IInv, RowsKnown
<1>3. x \in RateType /\ f.date \in Maybe(Nat) /\ f.amount \in Maybe(Positive)
  BY InForceIn, RatesType, AgentAssumption DEF IInv, AgentTypeOK, EntryEdit
<1>4. amount \in Int /\ x.rate \in Nat /\ Exchanged(amount, x.rate) \in Int
  <2>1. amount \in Int /\ x.rate \in Nat
    BY <1>a, <1>2, <1>3 DEF EntryRow, RateType, Given, Maybe, Positive
  <2> QED BY <2>1, ExchangedInt
<1>5. m.move \in EntryRow /\ m.move.kind = "payment"
  BY <1>c, <1>1, <1>2, <1>4 DEF AgentBlank, EntryRow
<1>6. m \in AgentLocal /\ m.row = 0 /\ m.twin = None /\ m.entry = t /\ m.plan = {}
  BY <1>c, <1>3, <1>5 DEF AgentBlank, AgentLocal, Maybe
<1>7. HeldIn(m) = {t} /\ ReservedAt("payment", m) = {} /\ MakingAt("payment", m) = {}
  BY <1>2, <1>6 DEF HeldIn, ReservedAt, MakingAt
<1>8. SoundAt("payment", m)'
  <2>1. t \in 1..entries /\ 0 <= agentTxs
    BY <1>2, Entered, <1>1 DEF EntryIds
  <2> QED BY <1>a, <1>1, <1>5, <1>6, <1>7, <2>1 DEF SoundAt, Kinds
<1>9. TakesUp(r, "payment", m)
  BY <1>a, <1>1, <1>6, <1>7 DEF TakesUp
<1>10. entries' \in 0..MaxEntries /\ entries <= entries'
  BY <1>1, Entered DEF AgentTypeOK
<1>11. "payment" \in AgentPlaces
  BY DEF AgentPlaces
<1> QED BY <1>1, <1>6, <1>8, <1>9, <1>10, <1>11, ReadBegun

LEMMA EntryEditBegun ==
    ASSUME IInv, NEW r \in Requests, NEW t \in EntryIds, NEW f \in EntryEdits, BeginEntryEdit(r, t, f)
    PROVE  IInv'
<1>a. PICK old, move :
          old = ledgerTx[t] /\ move = IF f.amount = None THEN None ELSE Rescaled(old, f.amount)
  OBVIOUS
<1>b. PICK m : m = [AgentBlank EXCEPT !.entry = t, !.date = f.date, !.move = move]
  OBVIOUS
<1>1. /\ EnterAgent(r) /\ old # None
      /\ AgentGoto(r, "entry") /\ AgentRemember(r, m)
      /\ UNCHANGED <<agentTx, agentTxs, ledgerTx, entries, touched, disturbed>>
  BY <1>a, <1>b DEF BeginEntryEdit
<1>2. old \in EntryRow /\ t # None /\ t <= entries
  BY <1>a, <1>1, EntryTyped, NoneIsNoRow DEF IInv, RowsKnown
<1>3. f.date \in Maybe(Nat) /\ f.amount \in Maybe(Positive)
  BY AgentAssumption DEF EntryEdit
<1>4. move \in Maybe(EntryRow)
  BY <1>a, <1>2, <1>3, RescaledType DEF Maybe
<1>5. /\ m \in AgentLocal /\ m.row = 0 /\ m.twin = None /\ m.entry = t /\ m.plan = {}
  BY <1>b, <1>3, <1>4 DEF AgentBlank, AgentLocal, Maybe
<1>6. HeldIn(m) = {t} /\ ReservedAt("entry", m) = {} /\ MakingAt("entry", m) = {}
  BY <1>2, <1>5 DEF HeldIn, ReservedAt, MakingAt
<1>7. SoundAt("entry", m)'
  <2>1. t \in 1..entries /\ 0 <= agentTxs
    BY <1>2, Entered, <1>1 DEF EntryIds
  <2> QED BY <1>1, <1>5, <1>6, <2>1 DEF SoundAt
<1>8. TakesUp(r, "entry", m)
  BY <1>a, <1>1, <1>5, <1>6 DEF TakesUp
<1>9. entries' \in 0..MaxEntries /\ entries <= entries'
  BY <1>1, Entered DEF AgentTypeOK
<1>10. "entry" \in AgentPlaces
  BY DEF AgentPlaces
<1> QED BY <1>1, <1>5, <1>7, <1>8, <1>9, <1>10, ReadBegun

\* a request that goes on and writes nothing
LEMMA WentOn ==
    ASSUME IInv, NEW r \in Requests, NEW l \in AgentPlaces, NEW m \in AgentLocal,
           AgentGoto(r, l), AgentRemember(r, m), l # "mirror",
           agentPc[r] \notin {"idle", "mirror"},
           UNCHANGED <<agentTx, agentTxs, ledgerTx, touched, agentTraffic>>, disturbed' \in BOOLEAN,
           entries' \in 0..MaxEntries, entries <= entries',
           SoundAt(l, m)', TakesUp(r, l, m)
    PROVE  IInv'
<1>1. agentTxs' \in 0..MaxAgentTx /\ agentTxs <= agentTxs' /\ agentBegun' \in Nat /\ agentOverlap' = agentOverlap
  BY AgentAssumption DEF IInv, AgentTypeOK, agentTraffic
<1> QED BY <1>1, QuietMove

\* ... or stops
LEMMA JustEnded ==
    ASSUME IInv, NEW r \in Requests, AgentEnd(r), agentPc[r] \notin {"idle", "mirror"},
           UNCHANGED <<agentTx, agentTxs, ledgerTx, entries, touched, agentTraffic>>,
           disturbed' \in BOOLEAN
    PROVE  IInv'
<1>1. entries \in 0..MaxEntries /\ entries \in Nat /\ agentTxs \in Nat
  BY AgentAssumption DEF IInv, AgentTypeOK
<1>2. SoundAt("idle", AgentBlank)' /\ TakesUp(r, "idle", AgentBlank)
  <2>1. HeldIn(AgentBlank) = {} /\ ReservedAt("idle", AgentBlank) = {} /\ MakingAt("idle", AgentBlank) = {}
        /\ AgentBlank.row = 0 /\ AgentBlank.plan = {}
    BY DEF HeldIn, ReservedAt, MakingAt, AgentBlank
  <2> QED BY <1>1, <2>1 DEF SoundAt, TakesUp
<1>3. "idle" \in AgentPlaces
  BY DEF AgentPlaces
<1> QED BY <1>1, <1>2, <1>3, BlankType, WentOn DEF AgentEnd

\* what a request that is not idle knows
LEMMA Knowing ==
    ASSUME IInv, NEW r \in Requests, NEW m, m = agentMem[r]
    PROVE  /\ AgentTypeOK /\ m \in AgentLocal /\ SoundAt(agentPc[r], m)
           /\ entries \in Nat /\ entries \in 0..MaxEntries /\ agentTxs \in Nat
           /\ Held(r) = HeldIn(m) /\ Reserved(r) = ReservedAt(agentPc[r], m)
           /\ Making(r) = MakingAt(agentPc[r], m)
           /\ m.row <= agentTxs /\ HeldIn(m) \subseteq 1..entries
<1>1. /\ AgentTypeOK /\ m \in AgentLocal /\ SoundAt(agentPc[r], m)
      /\ entries \in Nat /\ entries \in 0..MaxEntries /\ agentTxs \in Nat
  BY AgentAssumption DEF IInv, AgentTypeOK, Sound
<1> QED BY <1>1 DEF Held, Reserved, Making, SoundAt

LEMMA RowEdited ==
    ASSUME IInv, NEW r \in Requests, EditRow(r)
    PROVE  IInv'
<1>a. PICK m, t : m = agentMem[r] /\ t = NextEntry
  OBVIOUS
<1>1. /\ agentPc[r] = "edit" /\ agentTx[m.row] # None /\ t = entries + 1
      /\ UNCHANGED <<agentTx, agentTxs, ledgerTx, touched, disturbed, agentTraffic>>
      /\ AgentGoto(r, IF m.new.type = "out" THEN "rows" ELSE "write")
  BY <1>a DEF EditRow, NextEntry
<1>2. /\ AgentTypeOK /\ m \in AgentLocal /\ SoundAt("edit", m) /\ entries \in Nat
      /\ Held(r) = HeldIn(m) /\ m.row <= agentTxs /\ HeldIn(m) \subseteq 1..entries
  BY <1>a, <1>1, Knowing
<1>3. /\ m.row \in AgentIds /\ m.new \in AgentRow /\ ~m.creates /\ ~m.fresh
      /\ m.twin \in Maybe(EntryIds) /\ agentTx[m.row].type = m.new.type
      /\ ~agentOverlap \/ m.new.type # "settle" => agentTx[m.row].twin = m.twin
  BY <1>1, <1>2 DEF SoundAt, AgentLocal
<1>4. disturbed' \in BOOLEAN
  BY <1>1, <1>2 DEF AgentTypeOK
<1>5. CASE NeedsTwin(m)
  <2>a. PICK x : x = [m EXCEPT !.twin = t, !.fresh = TRUE]
    OBVIOUS
  <2>1. /\ t <= MaxEntries /\ entries' = t /\ AgentRemember(r, x)
        /\ m.new.type = "settle" /\ m.twin = None /\ AgentGoto(r, "write")
    BY <1>a, <1>1, <1>5, <2>a DEF EditRow, NeedsTwin
  <2>2. t \in EntryIds /\ t # None
    BY <1>1, <1>2, <2>1, AgentAssumption, NoneIsNoRow DEF EntryIds
  <2>3. /\ x \in AgentLocal /\ x.row = m.row /\ x.new = m.new /\ x.twin = t /\ ~x.creates /\ x.fresh
        /\ x.entry = m.entry /\ x.plan = m.plan
    BY <1>2, <1>3, <2>a, <2>2 DEF AgentLocal, Maybe
  <2>4. /\ HeldIn(x) = HeldIn(m) \cup {t} /\ ReservedAt("write", x) = {t}
        /\ MakingAt("write", x) = {}
    BY <2>1, <2>2, <2>3 DEF HeldIn, ReservedAt, MakingAt
  <2>5. ledgerTx[t] = None /\ \A k \in AgentIds : agentTx[k] # None => agentTx[k].twin # t
    <3>1. ~(t <= entries)
      BY <1>1, <1>2
    <3> QED BY <2>2, <3>1 DEF IInv, RowsKnown
  <2>6. SoundAt("write", x)'
    <3>1. HeldIn(x) \subseteq 1..t
      BY <1>1, <1>2, <2>4
    <3>2. \A p \in m.plan : ledgerTx[p.entry] # None => ledgerTx[p.entry].kind \in Kinds
      BY <1>2 DEF SoundAt
    <3> QED BY <1>1, <1>2, <1>3, <2>1, <2>2, <2>3, <2>4, <2>5, <3>1, <3>2 DEF SoundAt, agentTraffic
  <2>7. TakesUp(r, "write", x)
    <3>1. t > entries
      BY <1>1, <1>2
    <3> QED BY <1>a, <1>2, <2>3, <2>4, <3>1 DEF TakesUp
  <2>8. entries' \in 0..MaxEntries /\ entries <= entries' /\ "write" \in AgentPlaces
    BY <1>1, <1>2, <2>1, AgentAssumption DEF AgentPlaces
  <2> QED BY <1>1, <1>4, <2>1, <2>3, <2>6, <2>7, <2>8, WentOn
<1>6. CASE ~NeedsTwin(m)
  <2>a. PICK x, l :
            /\ x = IF m.new.type = "out"
                   THEN [m EXCEPT !.rates = RatesOf([agentTx EXCEPT ![m.row] = m.new])] ELSE m
            /\ l = IF m.new.type = "out" THEN "rows" ELSE "write"
    OBVIOUS
  <2>1. entries' = entries /\ AgentRemember(r, x) /\ AgentGoto(r, l) /\ l \in {"rows", "write"}
    BY <1>a, <1>1, <1>6, <2>a DEF EditRow
  <2>2. RatesOf([agentTx EXCEPT ![m.row] = m.new]) \in SUBSET RateType
    <3>1. [agentTx EXCEPT ![m.row] = m.new] \in [AgentIds -> Maybe(AgentRow)]
      BY <1>2, <1>3 DEF AgentTypeOK, Maybe
    <3> QED BY <3>1, RatesType
  <2>3. /\ x \in AgentLocal /\ x.row = m.row /\ x.new = m.new /\ x.twin = m.twin /\ ~x.creates
        /\ ~x.fresh /\ x.entry = m.entry /\ x.plan = m.plan
    BY <1>2, <1>3, <2>a, <2>2 DEF AgentLocal
  <2>4. HeldIn(x) = HeldIn(m) /\ ReservedAt(l, x) = {} /\ MakingAt(l, x) = {}
    BY <2>1, <2>3 DEF HeldIn, ReservedAt, MakingAt
  <2>5. SoundAt(l, x)'
    BY <1>1, <1>2, <1>3, <2>1, <2>3, <2>4 DEF SoundAt, agentTraffic
  <2>6. TakesUp(r, l, x)
    BY <1>a, <1>2, <2>3, <2>4 DEF TakesUp
  <2>7. entries' \in 0..MaxEntries /\ entries <= entries' /\ l \in AgentPlaces
    BY <1>2, <2>1, Knowing, AgentAssumption DEF AgentPlaces, AgentTypeOK
  <2> QED BY <1>1, <1>4, <2>1, <2>3, <2>5, <2>6, <2>7, WentOn
<1> QED BY <1>5, <1>6

LEMMA PricedRead ==
    ASSUME IInv, NEW r \in Requests, ReadPriced(r)
    PROVE  IInv'
<1>a. PICK m, l, x :
          /\ m = agentMem[r] /\ l = IF agentPc[r] = "rows" THEN "write" ELSE "price"
          /\ x = [m EXCEPT !.plan = Quotes(m.rates)]
  OBVIOUS
<1>1. /\ agentPc[r] \in {"rows", "rowsAfter"} /\ AgentRemember(r, x) /\ AgentGoto(r, l)
      /\ UNCHANGED <<agentTx, agentTxs, ledgerTx, entries, touched, disturbed, agentTraffic>>
  BY <1>a DEF ReadPriced
<1>2. /\ AgentTypeOK /\ m \in AgentLocal /\ SoundAt(agentPc[r], m) /\ entries \in Nat
      /\ Held(r) = HeldIn(m) /\ Reserved(r) = ReservedAt(agentPc[r], m)
      /\ Making(r) = MakingAt(agentPc[r], m)
      /\ m.row <= agentTxs /\ HeldIn(m) \subseteq 1..entries
  BY <1>a, <1>1, Knowing
<1>3. /\ Quotes(m.rates) \in SUBSET QuoteType
      /\ \A p \in Quotes(m.rates) : p.entry \in EntryIds /\ Priced(p.entry)
  BY <1>2, QuotesType DEF AgentLocal
<1>4. /\ x \in AgentLocal /\ x.row = m.row /\ x.new = m.new /\ x.twin = m.twin /\ x.creates = m.creates
      /\ x.fresh = m.fresh /\ x.entry = m.entry /\ x.plan = Quotes(m.rates)
  BY <1>a, <1>2, <1>3 DEF AgentLocal
<1>5. \A p \in x.plan : p.entry \in EntryIds /\ ledgerTx[p.entry] # None
                            /\ ledgerTx[p.entry].kind \in Kinds /\ p.entry \in 1..entries
  BY <1>2, <1>3, <1>4 DEF Priced, Kinds, IInv, RowsKnown, EntryIds
<1>6. \A t \in HeldIn(x) : t \in HeldIn(m) \/ (ledgerTx[t] # None /\ t \in 1..entries)
  BY <1>4, <1>5 DEF HeldIn
<1>7. ReservedAt(l, x) = ReservedAt(agentPc[r], m) /\ MakingAt(l, x) = MakingAt(agentPc[r], m)
  BY <1>a, <1>1, <1>4 DEF ReservedAt, MakingAt
<1>8. SoundAt(l, x)'
  <2>1. HeldIn(x) \subseteq 1..entries
    BY <1>2, <1>6
  <2>2. CASE agentPc[r] = "rows"
    <3>1. l = "write"
      BY <1>a, <2>2
    <3> QED BY <1>1, <1>2, <1>4, <1>5, <1>7, <2>1, <2>2, <3>1 DEF SoundAt, agentTraffic
  <2>3. CASE agentPc[r] = "rowsAfter"
    <3>1. l = "price" /\ ReservedAt(l, x) = {} /\ MakingAt(l, x) = {}
      BY <1>a, <2>3 DEF ReservedAt, MakingAt
    <3> QED BY <1>1, <1>2, <1>4, <1>5, <2>1, <2>3, <3>1 DEF SoundAt
  <2> QED BY <1>1, <2>2, <2>3
<1>9. TakesUp(r, l, x)
  BY <1>a, <1>2, <1>4, <1>6, <1>7 DEF TakesUp
<1>10. entries' \in 0..MaxEntries /\ entries <= entries' /\ l \in AgentPlaces /\ disturbed' \in BOOLEAN
  BY <1>a, <1>1, <1>2, Knowing DEF AgentPlaces, AgentTypeOK
<1>11. l # "mirror" /\ agentPc[r] \notin {"idle", "mirror"}
  BY <1>a, <1>1
<1> QED BY <1>1, <1>4, <1>8, <1>9, <1>10, <1>11, WentOn

LEMMA RatesRead ==
    ASSUME IInv, NEW r \in Requests, ReadRates(r)
    PROVE  IInv'
<1>0. /\ agentPc[r] = "rates"
      /\ UNCHANGED <<agentTx, agentTxs, ledgerTx, entries, touched, disturbed, agentTraffic>>
      /\ disturbed' \in BOOLEAN
  BY DEF ReadRates, IInv, AgentTypeOK
<1>1. CASE RatesOf(agentTx) = {}
  BY <1>0, <1>1, JustEnded DEF ReadRates
<1>2. CASE RatesOf(agentTx) # {}
  <2>a. PICK m, x : m = agentMem[r] /\ x = [m EXCEPT !.rates = RatesOf(agentTx)]
    OBVIOUS
  <2>1. AgentRemember(r, x) /\ AgentGoto(r, "rowsAfter")
    BY <1>2, <2>a DEF ReadRates
  <2>2. /\ AgentTypeOK /\ m \in AgentLocal /\ SoundAt("rates", m) /\ entries \in Nat
        /\ Held(r) = HeldIn(m)
    BY <1>0, <2>a, Knowing
  <2>3. RatesOf(agentTx) \in SUBSET RateType
    BY <2>2, RatesType DEF AgentTypeOK
  <2>4. /\ x \in AgentLocal /\ x.row = m.row /\ x.new = m.new /\ x.twin = m.twin
        /\ x.entry = m.entry /\ x.plan = m.plan
    BY <2>a, <2>2, <2>3 DEF AgentLocal
  <2>5. HeldIn(x) = HeldIn(m) /\ ReservedAt("rowsAfter", x) = {} /\ MakingAt("rowsAfter", x) = {}
    BY <2>4 DEF HeldIn, ReservedAt, MakingAt
  <2>6. SoundAt("rowsAfter", x)'
    BY <1>0, <2>2, <2>4, <2>5 DEF SoundAt
  <2>7. TakesUp(r, "rowsAfter", x)
    BY <2>a, <2>2, <2>4, <2>5 DEF TakesUp
  <2>8. entries' \in 0..MaxEntries /\ entries <= entries' /\ "rowsAfter" \in AgentPlaces
    BY <1>0, <2>2, Knowing DEF AgentPlaces, AgentTypeOK
  <2> QED BY <1>0, <2>1, <2>4, <2>6, <2>7, <2>8, WentOn
<1> QED BY <1>1, <1>2

-----------------------------------------------------------------------------
(* Those that write.                                                       *)

LEMMA MoneyAdded ==
    ASSUME IInv, NEW f \in Supplies, AddMoney(f)
    PROVE  IInv'
<1>a. PICK n, t, b :
          /\ n = agentTxs + 1 /\ t = NextEntry
          /\ b = IF f.type = "settle" /\ ~f.treasury THEN None ELSE t
  OBVIOUS
<1>0. /\ MeanwhileOrBetween /\ n <= MaxAgentTx /\ agentTxs' = n /\ t = entries + 1
      /\ UNCHANGED <<touched, disturbed>>
      /\ f \in AgentForm
  BY <1>a, AgentAssumption DEF AddMoney, NextEntry
<1>1. AgentTypeOK /\ entries \in Nat /\ agentTxs \in Nat
  BY AgentAssumption DEF IInv, AgentTypeOK
<1>2. n \in AgentIds /\ ~(n <= agentTxs) /\ ~(t <= entries)
  BY <1>0, <1>1, <1>a, AgentAssumption DEF AgentIds
<1>3. /\ agentTx' = [agentTx EXCEPT ![n] = NewRow(f, b)]
      /\ b = None => ledgerTx' = ledgerTx /\ entries' = entries
      /\ b # None => /\ b = t /\ t <= MaxEntries /\ entries' = t
                     /\ ledgerTx' = [ledgerTx EXCEPT ![t] = TwinOf(NewRow(f, t))]
  <2>1. entries + 1 # None
    BY <1>1, AgentAssumption
  <2> QED BY <1>0, <1>a, <2>1 DEF AddMoney
<1>4. b \in Maybe(EntryIds) /\ (b # None => b = t /\ t \in EntryIds)
  BY <1>0, <1>1, <1>3, AgentAssumption DEF Maybe, EntryIds
<1>5. NewRow(f, b) \in AgentRow /\ NewRow(f, b).twin = b
  BY <1>0, <1>4, NewRowType
<1>6. /\ TwinOf(NewRow(f, b)) \in EntryRow /\ TwinOf(NewRow(f, b)).kind = NewRow(f, b).type
      /\ SameMoney(NewRow(f, b), TwinOf(NewRow(f, b)))
  BY <1>5, TwinOfType
<1>8. agentTx[n] = None
  BY <1>2 DEF IInv, RowsKnown
<1>9. \A k \in AgentIds : agentTx'[k] = IF k = n THEN NewRow(f, b) ELSE agentTx[k]
  BY <1>1, <1>3 DEF AgentTypeOK
<1>10. \A e \in EntryIds : ledgerTx'[e] = IF e = b THEN TwinOf(NewRow(f, b)) ELSE ledgerTx[e]
  BY <1>1, <1>3, <1>4, NoneIsNoRow DEF AgentTypeOK
<1>11. entries' \in Nat /\ entries' \in 0..MaxEntries /\ entries <= entries' /\ agentTxs' \in 0..MaxAgentTx
       /\ agentTxs' \in Nat /\ agentTxs <= agentTxs' /\ (b # None => b <= entries')
  BY <1>0, <1>1, <1>a, <1>3, AgentAssumption DEF AgentTypeOK
<1>12. AgentTypeOK'
  <2>1. agentTx' \in [AgentIds -> Maybe(AgentRow)]
    BY <1>1, <1>3, <1>5 DEF AgentTypeOK, Maybe
  <2>2. ledgerTx' \in [EntryIds -> Maybe(EntryRow)]
    BY <1>1, <1>3, <1>6 DEF AgentTypeOK, Maybe
  <2> QED BY <1>0, <1>1, <1>11, <2>1, <2>2 DEF AgentTypeOK, MeanwhileOrBetween, agentTraffic
<1>13. ASSUME NEW k \in AgentIds, agentTx[k] # None
       PROVE  /\ k <= agentTxs' /\ k # n /\ agentTx'[k] = agentTx[k]
              /\ agentTx[k].twin # None => /\ agentTx[k].twin # b
                                           /\ agentTx[k].twin \in EntryIds
                                           /\ agentTx[k].twin <= entries'
                                           /\ ledgerTx'[agentTx[k].twin] = ledgerTx[agentTx[k].twin]
  <2>1. k <= agentTxs /\ (agentTx[k].twin # None => agentTx[k].twin <= entries)
    BY <1>13 DEF IInv, RowsKnown
  <2>2. agentTx[k].twin \in Maybe(EntryIds) /\ k \in Nat
    BY <1>1, <1>13, RowTyped DEF AgentIds
  <2>3. k <= agentTxs'
    BY <1>1, <1>11, <2>1, <2>2
  <2>4. agentTx[k].twin # None => agentTx[k].twin \in EntryIds /\ agentTx[k].twin <= entries'
    BY <1>1, <1>11, <2>1, <2>2 DEF EntryIds, Maybe
  <2>5. agentTx[k].twin # None => agentTx[k].twin # b
    BY <1>2, <1>4, <2>1
  <2> QED BY <1>8, <1>9, <1>10, <1>13, <2>3, <2>4, <2>5
<1>14. RowsKnown'
  <2>1. \A k \in AgentIds : agentTx'[k] # None =>
            k <= agentTxs' /\ (agentTx'[k].twin # None => agentTx'[k].twin <= entries')
    BY <1>0, <1>1, <1>5, <1>9, <1>11, <1>13, <1>2
  <2>2. \A e \in EntryIds : ledgerTx'[e] # None => e <= entries'
    <3>1. ASSUME NEW e \in EntryIds, ledgerTx[e] # None PROVE e <= entries'
      BY <1>1, <1>11, <3>1 DEF IInv, RowsKnown, EntryIds
    <3> QED BY <1>10, <1>11, <3>1, NoneIsNoRow
  <2> QED BY <2>1, <2>2 DEF RowsKnown
<1>15. DistinctTwins'
  BY <1>5, <1>9, <1>13 DEF IInv, DistinctTwins
<1>16. RowKinds'
  <2>1. ASSUME NEW k \in AgentIds, agentTx'[k] # None, agentTx'[k].twin # None,
               ledgerTx'[agentTx'[k].twin] # None
        PROVE  ledgerTx'[agentTx'[k].twin].kind = agentTx'[k].type
    <3>1. CASE k = n
      BY <1>4, <1>5, <1>6, <1>9, <1>10, <2>1, <3>1
    <3>2. CASE k # n
      BY <1>9, <1>13, <2>1, <3>2 DEF IInv, RowKinds
    <3> QED BY <3>1, <3>2
  <2> QED BY <2>1 DEF RowKinds
<1>17. ASSUME NEW k \in AgentIds PROVE Agreeing(k)'
  <2>1. CASE k = n
    <3>2. b # None => SameMoney(agentTx[k], ledgerTx[agentTx[k].twin])'
      BY <1>4, <1>5, <1>6, <1>9, <1>10, <2>1 DEF SameMoney
    <3> QED BY <1>5, <1>9, <2>1, <3>2 DEF Agreeing
  <2>2. CASE k # n
    <3>1. \A e : Mirroring(e)' = Mirroring(e)
      BY <1>0 DEF Mirroring, MeanwhileOrBetween
    <3> QED BY <1>0, <1>9, <1>13, <2>2, <3>1 DEF IInv, Agreeing, SameMoney, MeanwhileOrBetween,
               agentTraffic
  <2> QED BY <2>1, <2>2
<1>18. ASSUME NEW q \in Requests PROVE KeptFor(q)
  <2>1. agentMem[q].row <= agentTxs /\ HeldIn(agentMem[q]) \subseteq 1..entries
    BY Knowing
  <2>2. n # agentMem[q].row /\ b \notin HeldIn(agentMem[q])
    <3>1. n # agentMem[q].row
      BY <1>2, <2>1
    <3>2. None \notin HeldIn(agentMem[q])
      BY DEF HeldIn
    <3>3. t \notin 1..entries
      BY <1>2
    <3> QED BY <1>4, <2>1, <3>1, <3>2, <3>3
  <2>3. \A k \in AgentIds : RowKept(k, agentPc[q], agentMem[q])
    BY <1>5, <1>9, <2>2 DEF RowKept
  <2>4. \A e \in EntryIds : EntryKept(e, agentMem[q])
    BY <1>10, <2>2 DEF EntryKept
  <2> QED BY <2>3, <2>4 DEF KeptFor
<1> QED BY <1>0, <1>11, <1>12, <1>14, <1>15, <1>16, <1>17, <1>18, WriteAlone

LEMMA RowWritten ==
    ASSUME IInv, NEW r \in Requests, WriteAgentTx(r)
    PROVE  IInv'
<1>a. PICK m, w :
          /\ m = agentMem[r]
          /\ w = IF m.creates THEN m.new
                 ELSE [m.new EXCEPT !.twin = IF m.fresh THEN m.twin ELSE agentTx[m.row].twin]
  OBVIOUS
<1>0. /\ agentPc[r] = "write" /\ Writable(m) /\ AgentEnd(r)
      /\ agentTx' = [agentTx EXCEPT ![m.row] = w]
      /\ ledgerTx' = [t \in EntryIds |->
            IF t = m.twin THEN TwinOf(m.new)
            ELSE IF \E p \in m.plan : p.entry = t
                 THEN Quoted(t, CHOOSE p \in m.plan : p.entry = t)
                 ELSE ledgerTx[t]]
      /\ touched' = touched \ {m.twin} /\ disturbed' = (disturbed /\ m.new.type # "out")
      /\ UNCHANGED <<agentTxs, entries, agentOverlap, agentBegun>>
  BY <1>a DEF WriteAgentTx, agentTraffic
<1>1. /\ AgentTypeOK /\ m \in AgentLocal /\ SoundAt("write", m) /\ entries \in Nat /\ agentTxs \in Nat
      /\ Held(r) = HeldIn(m) /\ Reserved(r) = ReservedAt("write", m) /\ Making(r) = MakingAt("write", m)
      /\ m.row <= agentTxs /\ HeldIn(m) \subseteq 1..entries
  BY <1>a, <1>0, Knowing
<1>2. /\ m.row \in AgentIds /\ m.new \in AgentRow /\ m.twin \in Maybe(EntryIds)
      /\ m.fresh => m.twin # None
      /\ m.creates => m.fresh /\ m.new.twin = m.twin /\ agentTx[m.row] = None
      /\ m.fresh => Reserved(r) = {m.twin}
      /\ m.creates => Making(r) = {m.row}
      /\ m.twin # None => m.twin \in EntryIds /\ m.twin \in HeldIn(m) /\ m.twin <= entries
      /\ m.fresh /\ ~m.creates => m.new.type = "settle"
  BY <1>1, NoneIsNoRow DEF SoundAt, AgentLocal, HeldIn, ReservedAt, MakingAt, Maybe
<1>3. /\ ~m.creates => agentTx[m.row] # None /\ agentTx[m.row].type = m.new.type
      /\ ~m.creates => agentTx[m.row] \in AgentRow /\ agentTx[m.row].twin \in Maybe(EntryIds)
      /\ ~m.creates /\ (~agentOverlap \/ m.new.type # "settle") =>
            agentTx[m.row].twin = IF m.fresh THEN None ELSE m.twin
      /\ m.twin # None => \A k \in AgentIds \ {m.row} : agentTx[k] # None => agentTx[k].twin # m.twin
      /\ m.twin # None /\ ~m.fresh => ledgerTx[m.twin] # None /\ ledgerTx[m.twin].kind = m.new.type
      /\ \A p \in m.plan : ledgerTx[p.entry] # None /\ ledgerTx[p.entry].kind \in Kinds
  <2>1. ~m.creates => agentTx[m.row] # None
    BY <1>0 DEF Writable
  <2>2. m.twin # None /\ ~m.fresh => ledgerTx[m.twin] # None
    BY <1>0, <1>2 DEF Writable
  <2>3. \A p \in m.plan : ledgerTx[p.entry] # None
    BY <1>0 DEF Writable
  <2>4. ~m.creates => agentTx[m.row] \in AgentRow /\ agentTx[m.row].twin \in Maybe(EntryIds)
    BY <1>1, <1>2, <2>1, RowTyped
  <2> QED BY <1>1, <1>2, <2>1, <2>2, <2>3, <2>4 DEF SoundAt
\* the row that is written
<1>4. /\ w \in AgentRow /\ w.type = m.new.type /\ SameMoney(w, TwinOf(m.new))
      /\ w.twin = IF m.fresh THEN m.twin ELSE agentTx[m.row].twin
      /\ w.twin \in Maybe(EntryIds)
      /\ ~agentOverlap \/ m.new.type # "settle" => w.twin = m.twin
  <2>1. CASE m.creates
    BY <1>a, <1>2, <2>1, TwinOfType
  <2>2. CASE ~m.creates
    <3>1. SameMoney(m.new, TwinOf(m.new))
      BY <1>2, TwinOfType
    <3>2. \A b \in Maybe(EntryIds) : [m.new EXCEPT !.twin = b] \in AgentRow
              /\ [m.new EXCEPT !.twin = b].twin = b /\ [m.new EXCEPT !.twin = b].type = m.new.type
              /\ SameMoney([m.new EXCEPT !.twin = b], TwinOf(m.new))
      BY <1>2, <3>1 DEF AgentRow, SameMoney
    <3> QED BY <1>a, <1>2, <1>3, <2>2, <3>2
  <2> QED BY <2>1, <2>2
<1>5. TwinOf(m.new) \in EntryRow /\ TwinOf(m.new).kind = m.new.type /\ TwinOf(m.new) # None
  BY <1>2, TwinOfType, NoneIsNoRow
<1>6. \A k \in AgentIds : agentTx'[k] = IF k = m.row THEN w ELSE agentTx[k]
  BY <1>0, <1>1 DEF AgentTypeOK
\* the entries that are written
<1>7. ASSUME NEW t \in EntryIds
      PROVE  /\ t = m.twin => ledgerTx'[t] = TwinOf(m.new)
             /\ t # m.twin /\ (\E p \in m.plan : p.entry = t) =>
                   /\ ledgerTx[t] # None /\ ledgerTx[t].kind \in Kinds
                   /\ ledgerTx'[t] \in EntryRow /\ ledgerTx'[t].kind = ledgerTx[t].kind
             /\ t # m.twin /\ ~(\E p \in m.plan : p.entry = t) => ledgerTx'[t] = ledgerTx[t]
  <2>1. CASE t # m.twin /\ \E p \in m.plan : p.entry = t
    <3>1. PICK p \in m.plan : p.entry = t /\ ledgerTx'[t] = Quoted(t, p)
      BY <1>0, <2>1
    <3>2. p \in QuoteType /\ ledgerTx[t] # None /\ ledgerTx[t].kind \in Kinds
      BY <1>1, <1>3, <3>1 DEF AgentLocal
    <3> QED BY <1>1, <2>1, <3>1, <3>2, QuotedType
  <2> QED BY <1>0, <2>1
<1>8. \A t \in EntryIds : ledgerTx'[t] # None =>
          \/ t = m.twin \/ (ledgerTx[t] # None /\ ledgerTx'[t].kind = ledgerTx[t].kind)
  BY <1>7
<1>9. /\ OthersStay(r) /\ Sound(r)' /\ TakesUp(r, agentPc'[r], agentMem'[r]) /\ agentPc'[r] = "idle"
      /\ agentPc' \in [Requests -> AgentPlaces] /\ agentMem' \in [Requests -> AgentLocal]
  BY <1>0, <1>1, Ended
<1>10. AgentTypeOK'
  <2>1. agentTx' \in [AgentIds -> Maybe(AgentRow)]
    BY <1>0, <1>1, <1>4 DEF AgentTypeOK, Maybe
  <2>2. \A t \in EntryIds : ledgerTx'[t] \in Maybe(EntryRow)
    BY <1>1, <1>5, <1>7 DEF AgentTypeOK, Maybe
  <2>3. ledgerTx' \in [EntryIds -> Maybe(EntryRow)]
    <3>1. ledgerTx' = [t \in EntryIds |-> ledgerTx'[t]]
      BY <1>0
    <3> QED BY <2>2, <3>1
  <2>4. disturbed' \in BOOLEAN
    BY <1>0, <1>1 DEF AgentTypeOK
  <2> QED BY <1>0, <1>1, <1>9, <2>1, <2>3, <2>4 DEF AgentTypeOK
<1>11. \A k \in AgentIds \ {m.row} : agentTx[k] # None =>
          /\ agentTx'[k] = agentTx[k] /\ agentTx[k].twin \in Maybe(EntryIds)
          /\ agentTx[k].twin # None => agentTx[k].twin # m.twin
  BY <1>1, <1>3, <1>6, RowTyped
\* the other rows have no twin that is priced
<1>12. ASSUME NEW k \in AgentIds \ {m.row}, agentTx[k] # None, agentTx[k].twin # None
       PROVE  ledgerTx'[agentTx[k].twin] = ledgerTx[agentTx[k].twin]
  <2>1. agentTx[k].twin \in EntryIds /\ agentTx[k].twin # m.twin
    BY <1>11, <1>12 DEF Maybe
  <2>2. ~(\E p \in m.plan : p.entry = agentTx[k].twin)
    BY <1>3, <1>12, TwinNotPriced
  <2> QED BY <1>7, <2>1, <2>2
<1>13. RowsKnown'
  <2>1. w.twin # None => w.twin <= entries
    <3>1. CASE m.fresh
      BY <1>2, <1>4, <3>1
    <3>2. CASE ~m.fresh
      BY <1>2, <1>3, <1>4, <3>2 DEF IInv, RowsKnown
    <3> QED BY <3>1, <3>2
  <2>2. \A k \in AgentIds : agentTx'[k] # None =>
            k <= agentTxs /\ (agentTx'[k].twin # None => agentTx'[k].twin <= entries)
    BY <1>1, <1>6, <2>1 DEF IInv, RowsKnown
  <2>3. \A t \in EntryIds : ledgerTx'[t] # None => t <= entries
    BY <1>2, <1>8, NoneIsNoRow DEF IInv, RowsKnown
  <2> QED BY <1>0, <2>2, <2>3 DEF RowsKnown
<1>14. DistinctTwins'
  <2>1. ASSUME NEW k \in AgentIds \ {m.row}, agentTx[k] # None, agentTx[k].twin = w.twin
        PROVE  w.twin = None
    <3>1. CASE m.fresh
      BY <1>4, <1>11, <2>1, <3>1
    <3>2. CASE ~m.fresh
      BY <1>2, <1>3, <1>4, <2>1, <3>2 DEF IInv, DistinctTwins
    <3> QED BY <3>1, <3>2
  <2> QED BY <1>6, <2>1 DEF IInv, DistinctTwins
<1>15. RowKinds'
  <2>1. ASSUME w.twin # None, ledgerTx'[w.twin] # None PROVE ledgerTx'[w.twin].kind = w.type
    <3>1. CASE w.twin = m.twin
      BY <1>2, <1>4, <1>5, <1>7, <2>1, <3>1
    <3>2. CASE w.twin # m.twin
      <4>1. ~m.fresh /\ ~m.creates /\ w.twin = agentTx[m.row].twin /\ w.twin \in EntryIds
        BY <1>2, <1>4, <2>1, <3>2 DEF Maybe
      <4>2. ledgerTx[w.twin] # None /\ ledgerTx'[w.twin].kind = ledgerTx[w.twin].kind
        BY <1>8, <2>1, <3>2, <4>1
      <4> QED BY <1>2, <1>3, <1>4, <2>1, <4>1, <4>2 DEF IInv, RowKinds
    <3> QED BY <3>1, <3>2
  <2>2. ASSUME NEW k \in AgentIds, agentTx'[k] # None, agentTx'[k].twin # None,
               ledgerTx'[agentTx'[k].twin] # None
        PROVE  ledgerTx'[agentTx'[k].twin].kind = agentTx'[k].type
    <3>1. CASE k = m.row
      BY <1>6, <2>1, <2>2, <3>1
    <3>2. CASE k # m.row
      BY <1>6, <1>12, <2>2, <3>2 DEF IInv, RowKinds
    <3> QED BY <3>1, <3>2
  <2> QED BY <2>2 DEF RowKinds
<1>16. ASSUME NEW k \in AgentIds PROVE Agreeing(k)'
  <2>1. CASE k = m.row
    <3>1. m.twin # None => SameMoney(w, ledgerTx[m.twin])'
      BY <1>2, <1>4, <1>5, <1>7 DEF SameMoney
    <3> QED BY <1>0, <1>4, <1>6, <2>1, <3>1 DEF Agreeing, SameMoney
  <2>2. CASE k # m.row
    <3>1. \A e : Mirroring(e)' = Mirroring(e)
      BY <1>0, <1>9 DEF Mirroring, OthersStay
    <3>2. agentTx'[k] = agentTx[k]
      BY <1>6, <2>2
    <3>3. ASSUME agentTx[k] # None, agentTx[k].twin # None, agentTx[k].twin \notin touched'
          PROVE  agentTx[k].twin \notin touched /\ ledgerTx'[agentTx[k].twin] = ledgerTx[agentTx[k].twin]
      BY <1>0, <1>11, <1>12, <2>2, <3>3
    <3>4. agentOverlap' = agentOverlap /\ Agreeing(k)
      BY <1>0 DEF IInv
    <3> QED BY <3>1, <3>2, <3>3, <3>4 DEF Agreeing, SameMoney
  <2> QED BY <2>1, <2>2
<1>17. ASSUME NEW q \in Requests \ {r} PROVE KeptFor(q)
  <2>1. Apart(r, q) /\ None \notin HeldIn(agentMem[q]) /\ (~agentOverlap => agentPc[q] = "idle")
    BY <1>0 DEF IInv, Single, HeldIn
  <2>2. m.fresh => m.twin \notin HeldIn(agentMem[q])
    BY <1>2, <2>1 DEF Apart, Held
  <2>3. RowKept(m.row, agentPc[q], agentMem[q])
    <3>1. CASE m.creates
      BY <1>2, <1>4, <1>6, <2>1, <2>2, <3>1 DEF RowKept, Apart
    <3>2. CASE ~m.creates /\ m.fresh
      BY <1>2, <1>3, <1>4, <1>6, <2>1, <2>2, <3>2 DEF RowKept
    <3>3. CASE ~m.creates /\ ~m.fresh
      BY <1>2, <1>3, <1>4, <1>6, <3>3 DEF RowKept
    <3> QED BY <3>1, <3>2, <3>3
  <2>4. \A k \in AgentIds : RowKept(k, agentPc[q], agentMem[q])
    BY <1>6, <2>3 DEF RowKept
  <2>5. ASSUME NEW t \in EntryIds PROVE EntryKept(t, agentMem[q])
    <3>1. CASE t = m.twin
      BY <1>2, <1>3, <1>5, <1>7, <2>2, <3>1, NoneIsNoRow DEF EntryKept
    <3>2. CASE t # m.twin
      BY <1>8, <3>2 DEF EntryKept
    <3> QED BY <3>1, <3>2
  <2> QED BY <2>4, <2>5 DEF KeptFor
<1>18. entries <= entries' /\ agentTxs <= agentTxs' /\ agentPc[r] # "idle" /\ agentPc'[r] # "mirror"
  BY <1>0, <1>1, <1>9
<1> QED BY <1>0, <1>9, <1>10, <1>13, <1>14, <1>15, <1>16, <1>17, <1>18, WriteMove

\* a step that ends what a request does, or takes it on, without mirroring
LEMMA SameMirrors ==
    ASSUME NEW r \in Requests, OthersStay(r), agentPc[r] # "mirror", agentPc'[r] # "mirror"
    PROVE  \A t : Mirroring(t)' = Mirroring(t)
BY DEF Mirroring, OthersStay

LEMMA Cascaded ==
    ASSUME IInv, NEW r \in Requests, Cascade(r)
    PROVE  IInv'
<1>a. PICK m, rows, l :
          /\ m = agentMem[r] /\ l = IF m.new.type = "out" THEN "rates" ELSE "idle"
          /\ rows = IF m.twin = None THEN {m.row}
                    ELSE IF ledgerTx[m.twin] = None THEN {} ELSE TwinsRows(m.twin)
  OBVIOUS
<1>0. /\ agentPc[r] = "cascade"
      /\ UNCHANGED <<agentTxs, entries, touched, disturbed, agentOverlap, agentBegun>>
  BY DEF Cascade, agentTraffic
<1>1. /\ AgentTypeOK /\ m \in AgentLocal /\ SoundAt("cascade", m) /\ entries \in Nat /\ agentTxs \in Nat
      /\ Held(r) = HeldIn(m) /\ m.twin \in Maybe(EntryIds)
  BY <1>a, <1>0, Knowing DEF AgentLocal
<1>2. /\ agentTx' = WithoutRows(rows)
      /\ \/ ledgerTx' = ledgerTx
         \/ \E t \in EntryIds : ledgerTx' = WithoutEntry(t) /\ TwinsRows(t) \subseteq rows
  <2>1. CASE m.twin # None /\ ledgerTx[m.twin] # None
    BY <1>a, <1>1, <2>1 DEF Cascade, Maybe
  <2>2. CASE m.twin # None /\ ledgerTx[m.twin] = None
    <3>1. agentTx = [n \in AgentIds |-> agentTx[n]]
      BY <1>1 DEF AgentTypeOK
    <3>2. rows = {} /\ UNCHANGED <<agentTx, ledgerTx>>
      BY <1>a, <2>2 DEF Cascade
    <3> QED BY <3>1, <3>2 DEF WithoutRows
  <2>3. CASE m.twin = None
    BY <1>a, <2>3 DEF Cascade
  <2> QED BY <2>1, <2>2, <2>3
<1>3. /\ agentPc' \in [Requests -> AgentPlaces] /\ agentMem' \in [Requests -> AgentLocal]
      /\ OthersStay(r) /\ agentPc'[r] # "mirror" /\ TakesUp(r, agentPc'[r], agentMem'[r])
      /\ \/ Sound(r)'
         \/ m.new.type = "out" /\ agentPc'[r] = "rates" /\ agentMem'[r] = m
  <2>1. CASE m.new.type = "out"
    <3>1. AgentGoto(r, "rates") /\ agentMem' = agentMem
      BY <1>a, <2>1 DEF Cascade
    <3>2. AgentRemember(r, m) /\ "rates" \in AgentPlaces
      BY <1>a, <1>1, <3>1 DEF AgentRemember, AgentTypeOK, AgentPlaces
    <3>3. /\ agentPc' \in [Requests -> AgentPlaces] /\ agentMem' \in [Requests -> AgentLocal]
          /\ agentPc'[r] = "rates" /\ agentMem'[r] = m /\ OthersStay(r)
      BY <1>1, <3>1, <3>2, MoveType DEF OthersStay
    <3>4. TakesUp(r, "rates", m)
      BY <1>a, <1>1 DEF TakesUp, ReservedAt, MakingAt
    <3> QED BY <2>1, <3>3, <3>4
  <2>2. CASE m.new.type # "out"
    <3>1. AgentEnd(r)
      BY <1>a, <2>2 DEF Cascade
    <3>2. entries' \in Nat /\ agentTxs' \in Nat
      BY <1>0, <1>1
    <3> QED BY <3>1, <3>2, Ended
  <2> QED BY <2>1, <2>2
<1>4. \A t : Mirroring(t)' = Mirroring(t)
  BY <1>0, <1>3, SameMirrors
<1>5. /\ agentTx' \in [AgentIds -> Maybe(AgentRow)] /\ ledgerTx' \in [EntryIds -> Maybe(EntryRow)]
      /\ RowsKnown' /\ DistinctTwins' /\ RowKinds' /\ \A n \in AgentIds : Agreeing(n)'
      /\ \A q \in Requests : KeptFor(q)
  BY <1>0, <1>2, <1>4, Removed
<1>6. AgentTypeOK'
  BY <1>0, <1>1, <1>3, <1>5 DEF AgentTypeOK
<1>7. Sound(r)'
  <2>1. CASE m.new.type = "out" /\ agentPc'[r] = "rates" /\ agentMem'[r] = m
    <3>1. SoundAt("rates", m)
      BY <1>1, <2>1 DEF SoundAt, ReservedAt, MakingAt
    <3>2. \A k \in AgentIds : RowKept(k, "rates", m)
      BY <1>2 DEF RowKept, WithoutRows
    <3>3. \A t \in EntryIds : EntryKept(t, m)
      BY <1>a, <1>5 DEF KeptFor
    <3>4. entries' \in Nat /\ agentTxs' \in Nat /\ entries <= entries' /\ agentTxs <= agentTxs'
      BY <1>0, <1>1
    <3>5. SoundAt("rates", m)'
      BY <1>0, <1>1, <3>1, <3>2, <3>3, <3>4, SoundKept
    <3> QED BY <2>1, <3>5 DEF Sound
  <2> QED BY <1>3, <2>1
<1>8. entries <= entries' /\ agentTxs <= agentTxs' /\ agentPc[r] # "idle"
  BY <1>0, <1>1
<1> QED BY <1>0, <1>3, <1>5, <1>6, <1>7, <1>8, WriteMove

LEMMA RowPriced ==
    ASSUME IInv, NEW r \in Requests, NEW p \in agentMem[r].plan, PriceRow(r, p)
    PROVE  IInv'
<1>a. PICK m, x, new : m = agentMem[r] /\ x = [m EXCEPT !.plan = @ \ {p}] /\ new = Quoted(p.entry, p)
  OBVIOUS
<1>0. /\ agentPc[r] = "price" /\ ledgerTx[p.entry] # None
      /\ ledgerTx' = [ledgerTx EXCEPT ![p.entry] = new] /\ AgentRemember(r, x)
      /\ UNCHANGED <<agentTx, agentTxs, entries, touched, disturbed, agentPc, agentOverlap, agentBegun>>
  BY <1>a DEF PriceRow, agentTraffic
<1>1. /\ AgentTypeOK /\ m \in AgentLocal /\ SoundAt("price", m) /\ entries \in Nat /\ agentTxs \in Nat
      /\ Held(r) = HeldIn(m)
  BY <1>a, <1>0, Knowing
<1>2. /\ p \in QuoteType /\ p.entry \in EntryIds /\ ledgerTx[p.entry].kind \in Kinds
      /\ p.entry <= entries
  BY <1>a, <1>0, <1>1 DEF SoundAt, AgentLocal, QuoteType, IInv, RowsKnown
<1>3. new \in EntryRow /\ new.kind = ledgerTx[p.entry].kind
  BY <1>a, <1>0, <1>1, <1>2, QuotedType
<1>4. /\ x \in AgentLocal /\ x.row = m.row /\ x.new = m.new /\ x.twin = m.twin /\ x.entry = m.entry
      /\ x.plan \subseteq m.plan
  BY <1>a, <1>1 DEF AgentLocal
<1>5. /\ agentPc' \in [Requests -> AgentPlaces] /\ agentMem' \in [Requests -> AgentLocal]
      /\ agentPc'[r] = "price" /\ agentMem'[r] = x /\ OthersStay(r)
  <2>1. AgentGoto(r, "price") /\ "price" \in AgentPlaces
    BY <1>0, <1>1 DEF AgentGoto, AgentTypeOK, AgentPlaces
  <2> QED BY <1>0, <1>1, <1>4, <2>1, MoveType DEF OthersStay
<1>6. /\ ledgerTx' \in [EntryIds -> Maybe(EntryRow)]
      /\ RowsKnown' /\ DistinctTwins' /\ RowKinds' /\ \A n \in AgentIds : Agreeing(n)'
      /\ \A q \in Requests \ {r} : KeptFor(q)
  BY <1>0, <1>2, <1>3, <1>5, EntryPriced
<1>7. AgentTypeOK'
  BY <1>0, <1>1, <1>5, <1>6 DEF AgentTypeOK
<1>8. HeldIn(x) \subseteq HeldIn(m) /\ ReservedAt("price", x) = {} /\ MakingAt("price", x) = {}
  BY <1>4 DEF HeldIn, ReservedAt, MakingAt
<1>9. entries' \in Nat /\ agentTxs' \in Nat /\ entries <= entries' /\ agentTxs <= agentTxs'
  BY <1>0, <1>1
<1>10. Sound(r)'
  <2>1. SoundAt("price", x)
    BY <1>1, <1>4, <1>8 DEF SoundAt
  <2>2. \A k \in AgentIds : RowKept(k, "price", x)
    BY <1>0 DEF RowKept
  <2>3. \A t \in EntryIds : ledgerTx'[t] = IF t = p.entry THEN new ELSE ledgerTx[t]
    BY <1>0, <1>1 DEF AgentTypeOK
  <2>4. \A t \in EntryIds : EntryKept(t, x)
    BY <1>0, <1>3, <2>3 DEF EntryKept
  <2>5. SoundAt("price", x)'
    BY <1>0, <1>1, <1>4, <1>9, <2>1, <2>2, <2>4, SoundKept
  <2> QED BY <1>5, <2>5 DEF Sound
<1>11. TakesUp(r, "price", x)
  BY <1>a, <1>1, <1>4, <1>8 DEF TakesUp
<1> QED BY <1>0, <1>5, <1>6, <1>7, <1>9, <1>10, <1>11, WriteMove

\* a priced row is written by a request that ends with it
LEMMA PricedAndEnded ==
    ASSUME IInv, NEW r \in Requests, agentPc[r] \notin {"idle", "mirror"}, AgentEnd(r),
           NEW t \in EntryIds, NEW x \in EntryRow, x.kind \in Kinds, t <= entries,
           t \in Reserved(r) \/ (ledgerTx[t] # None /\ ledgerTx[t].kind = x.kind),
           ledgerTx' = [ledgerTx EXCEPT ![t] = x],
           UNCHANGED <<agentTx, agentTxs, entries, touched, disturbed, agentTraffic>>
    PROVE  IInv'
<1>1. /\ AgentTypeOK /\ entries' \in Nat /\ agentTxs' \in Nat /\ entries <= entries'
      /\ agentTxs <= agentTxs' /\ agentOverlap' = agentOverlap /\ agentBegun' = agentBegun
  BY AgentAssumption DEF IInv, AgentTypeOK, agentTraffic
<1>2. /\ agentPc' \in [Requests -> AgentPlaces] /\ agentMem' \in [Requests -> AgentLocal]
      /\ agentPc'[r] = "idle" /\ OthersStay(r)
      /\ Sound(r)' /\ TakesUp(r, agentPc'[r], agentMem'[r])
  BY <1>1, Ended
<1>3. /\ ledgerTx' \in [EntryIds -> Maybe(EntryRow)]
      /\ RowsKnown' /\ DistinctTwins' /\ RowKinds' /\ \A n \in AgentIds : Agreeing(n)'
      /\ \A q \in Requests \ {r} : KeptFor(q)
  BY <1>1, <1>2, EntryPriced
<1>4. AgentTypeOK'
  BY <1>1, <1>2, <1>3 DEF AgentTypeOK
<1> QED BY <1>1, <1>2, <1>3, <1>4, WriteMove

LEMMA MovePosted ==
    ASSUME IInv, NEW r \in Requests, PostMove(r)
    PROVE  IInv'
<1>a. PICK m : m = agentMem[r]
  OBVIOUS
<1>0. /\ agentPc[r] = "post" /\ AgentEnd(r)
      /\ ledgerTx' = [ledgerTx EXCEPT ![m.entry] = m.move]
      /\ UNCHANGED <<agentTx, agentTxs, entries, touched, disturbed, agentTraffic>>
  BY <1>a DEF PostMove
<1>1. SoundAt("post", m) /\ Reserved(r) = {m.entry} /\ HeldIn(m) \subseteq 1..entries
  BY <1>a, <1>0, Knowing DEF ReservedAt
<1>2. m.entry \in EntryIds /\ m.move \in EntryRow /\ m.move.kind \in Kinds
  BY <1>1 DEF SoundAt
<1>3. m.entry <= entries
  BY <1>1, <1>2, NoneIsNoRow DEF HeldIn
<1> QED BY <1>0, <1>1, <1>2, <1>3, PricedAndEnded

LEMMA PaymentWritten ==
    ASSUME IInv, NEW r \in Requests, WritePayment(r)
    PROVE  IInv'
<1>a. PICK m, x : m = agentMem[r] /\ x = [m.move EXCEPT !.date = Given(m.date, ledgerTx[m.entry].date)]
  OBVIOUS
<1>0. /\ agentPc[r] = "payment" /\ AgentEnd(r) /\ ledgerTx[m.entry] # None
      /\ ledgerTx' = [ledgerTx EXCEPT ![m.entry] = x]
      /\ UNCHANGED <<agentTx, agentTxs, entries, touched, disturbed, agentTraffic>>
  BY <1>a DEF WritePayment
<1>1. AgentTypeOK /\ m \in AgentLocal /\ SoundAt("payment", m)
  BY <1>a, <1>0, Knowing
<1>2. /\ m.entry \in EntryIds /\ m.move \in EntryRow /\ m.move.kind = "payment"
      /\ ledgerTx[m.entry].kind = "payment" /\ m.date \in Maybe(Nat)
      /\ ledgerTx[m.entry] \in EntryRow /\ m.entry <= entries
  BY <1>0, <1>1, EntryTyped DEF SoundAt, AgentLocal, IInv, RowsKnown
<1>3. Given(m.date, ledgerTx[m.entry].date) \in Nat
  BY <1>2, GivenNat DEF EntryRow
<1>4. x \in EntryRow /\ x.kind = "payment"
  BY <1>a, <1>2, <1>3 DEF EntryRow
<1> QED BY <1>0, <1>2, <1>4, PricedAndEnded DEF Kinds

LEMMA EntryWritten ==
    ASSUME IInv, NEW r \in Requests, WriteEntry(r)
    PROVE  IInv'
<1>a. PICK m, t, old, x :
          /\ m = agentMem[r] /\ t = m.entry /\ old = ledgerTx[t]
          /\ x = [old EXCEPT !.date = Given(m.date, @),
                             !.amount = IF m.move = None THEN @ ELSE m.move.amount,
                             !.second = IF m.move = None THEN @ ELSE m.move.second]
  OBVIOUS
<1>0. /\ agentPc[r] = "entry" /\ old # None /\ ledgerTx' = [ledgerTx EXCEPT ![t] = x]
      /\ UNCHANGED <<agentTx, agentTxs, entries, touched, agentOverlap, agentBegun>>
      /\ IF Priced(t) THEN AgentEnd(r) ELSE AgentGoto(r, "mirror") /\ UNCHANGED agentMem
  BY <1>a DEF WriteEntry, agentTraffic
<1>1. /\ AgentTypeOK /\ m \in AgentLocal /\ SoundAt("entry", m) /\ entries \in Nat /\ agentTxs \in Nat
      /\ Held(r) = HeldIn(m)
  BY <1>a, <1>0, Knowing
<1>2. /\ t \in EntryIds /\ old \in EntryRow /\ t <= entries
      /\ m.date \in Maybe(Nat) /\ m.move \in Maybe(EntryRow)
  BY <1>a, <1>0, <1>1, EntryTyped DEF SoundAt, AgentLocal, IInv, RowsKnown
<1>3. /\ x \in EntryRow /\ x.kind = old.kind /\ x.rate = old.rate /\ x.date = Given(m.date, old.date)
      /\ x.amount = IF m.move = None THEN old.amount ELSE m.move.amount
  <2>1. Given(m.date, old.date) \in Nat
    BY <1>2, GivenNat DEF EntryRow
  <2>2. m.move # None => m.move.amount \in Int /\ m.move.second \in Int
    BY <1>2 DEF Maybe, EntryRow
  <2> QED BY <1>a, <1>2, <2>1, <2>2 DEF EntryRow
<1>4. \A e \in EntryIds : ledgerTx'[e] = IF e = t THEN x ELSE ledgerTx[e]
  BY <1>0, <1>1 DEF AgentTypeOK
<1>5. /\ agentPc' \in [Requests -> AgentPlaces] /\ agentMem' \in [Requests -> AgentLocal]
      /\ OthersStay(r) /\ agentPc'[r] = IF Priced(t) THEN "idle" ELSE "mirror"
      /\ ~Priced(t) => agentMem'[r] = m
      /\ Priced(t) => Sound(r)' /\ TakesUp(r, agentPc'[r], agentMem'[r])
  <2>1. CASE Priced(t)
    <3>1. entries' \in Nat /\ agentTxs' \in Nat
      BY <1>0, <1>1
    <3> QED BY <1>0, <2>1, <3>1, Ended
  <2>2. CASE ~Priced(t)
    <3>1. AgentRemember(r, m) /\ "mirror" \in AgentPlaces /\ AgentGoto(r, "mirror")
      BY <1>a, <1>0, <1>1, <2>2 DEF AgentRemember, AgentTypeOK, AgentPlaces
    <3> QED BY <1>1, <2>2, <3>1, MoveType DEF OthersStay
  <2> QED BY <2>1, <2>2
<1>6. AgentTypeOK'
  <2>1. ledgerTx' \in [EntryIds -> Maybe(EntryRow)]
    BY <1>0, <1>1, <1>3 DEF AgentTypeOK, Maybe
  <2>2. disturbed' \in BOOLEAN
    BY <1>1 DEF WriteEntry, AgentTypeOK
  <2> QED BY <1>0, <1>1, <1>5, <2>1, <2>2 DEF AgentTypeOK
<1>7. \A e \in EntryIds : ledgerTx'[e] # None => ledgerTx[e] # None /\ ledgerTx'[e].kind = ledgerTx[e].kind
  <2>1. \A e \in EntryIds : e = t => ledgerTx[e] # None /\ ledgerTx'[e].kind = ledgerTx[e].kind
    BY <1>a, <1>0, <1>3, <1>4, Zenon
  <2>2. \A e \in EntryIds : e # t => ledgerTx'[e] = ledgerTx[e]
    BY <1>4, Zenon
  <2> QED BY <2>1, <2>2, Zenon
<1>8. RowsKnown' /\ DistinctTwins'
  BY <1>0, <1>7 DEF IInv, RowsKnown, DistinctTwins
<1>9. \A n \in AgentIds : agentTx[n] # None => agentTx[n].twin \in Maybe(EntryIds)
  BY <1>1, RowTyped
<1>10. RowKinds'
  BY <1>0, <1>7, <1>9 DEF IInv, RowKinds, Maybe
\* what was mirrored before is mirrored still, and nothing else is but this entry
<1>11. ASSUME NEW n \in AgentIds PROVE Agreeing(n)'
  <2>1. \A e : Mirroring(e) => Mirroring(e)'
    BY <1>0, <1>5 DEF Mirroring, OthersStay
  <2>2. ~Priced(t) => Mirroring(t)'
    BY <1>a, <1>5 DEF Mirroring
  <2>3. Priced(t) => agentTx[n] = None \/ agentTx[n].twin # t
    BY <1>2, TwinNotPriced, NoneIsNoRow DEF Priced, Kinds
  <2>4. agentTx[n] # None /\ agentTx[n].twin \notin {None, t} =>
            ledgerTx'[agentTx[n].twin] = ledgerTx[agentTx[n].twin]
    BY <1>4, <1>9 DEF Maybe
  <2>5. Agreeing(n)
    BY DEF IInv
  <2> QED BY <1>0, <2>1, <2>2, <2>3, <2>4, <2>5 DEF Agreeing, SameMoney
<1>12. MirrorsAgree'
  <2>1. ASSUME ~agentOverlap, NEW q \in Requests, NEW n \in AgentIds, agentPc'[q] = "mirror",
               agentTx[n] # None, agentTx[n].twin = agentMem'[q].entry, agentMem'[q].entry \notin touched
        PROVE  SameMoney(Mirrored(agentTx[n], agentMem'[q]), ledgerTx'[agentMem'[q].entry])
    <3>1. q = r
      BY <1>0, <1>5, <2>1 DEF IInv, Single, OthersStay
    <3>2. agentMem'[q] = m /\ agentTx[n].twin = t
      BY <1>a, <1>5, <2>1, <3>1
    <3>3. \A e : ~Mirroring(e)
      BY <1>0, <2>1 DEF IInv, Single, Mirroring
    <3>4. SameMoney(agentTx[n], old)
      BY <1>a, <1>2, <2>1, <3>2, <3>3, NoneIsNoRow DEF IInv, Agreeing
    <3>5. agentTx[n] \in AgentRow
      BY <1>1, <2>1, RowTyped
    <3>6. /\ Mirrored(agentTx[n], m).type = agentTx[n].type /\ Mirrored(agentTx[n], m).rate = agentTx[n].rate
          /\ Mirrored(agentTx[n], m).date = Given(m.date, agentTx[n].date)
          /\ Mirrored(agentTx[n], m).amount = IF m.move = None THEN agentTx[n].amount ELSE m.move.amount
      BY <3>5 DEF Mirrored, AgentRow
    <3>7. SameMoney(Mirrored(agentTx[n], m), x)
      BY <1>3, <3>4, <3>6, NoneIsNoRow DEF SameMoney
    <3>8. ledgerTx'[t] = x
      BY <1>2, <1>4
    <3> QED BY <1>a, <3>2, <3>7, <3>8
  <2> QED BY <1>0, <2>1 DEF MirrorsAgree, SameMoney, Mirrored, Given
<1>13. \A q \in Requests : KeptFor(q)
  BY <1>0, <1>7 DEF KeptFor, RowKept, EntryKept
<1>14. entries' \in Nat /\ agentTxs' \in Nat /\ entries <= entries' /\ agentTxs <= agentTxs'
  BY <1>0, <1>1
<1>15. Sound(r)' /\ TakesUp(r, agentPc'[r], agentMem'[r])
  <2>1. CASE Priced(t)
    BY <1>5, <2>1
  <2>2. CASE ~Priced(t)
    <3>1. SoundAt("mirror", m)
      BY <1>1 DEF SoundAt, ReservedAt, MakingAt
    <3>2. \A k \in AgentIds : RowKept(k, "mirror", m)
      BY <1>0 DEF RowKept
    <3>3. \A e \in EntryIds : EntryKept(e, m)
      BY <1>7 DEF EntryKept
    <3>4. SoundAt("mirror", m)'
      BY <1>0, <1>1, <1>14, <3>1, <3>2, <3>3, SoundKept
    <3>5. TakesUp(r, "mirror", m)
      BY <1>a, <1>1 DEF TakesUp, ReservedAt, MakingAt
    <3> QED BY <1>5, <2>2, <3>4, <3>5 DEF Sound
  <2> QED BY <2>1, <2>2
<1> QED BY <1>0, <1>5, <1>6, <1>8, <1>10, <1>11, <1>12, <1>13, <1>14, <1>15, WriteMove

LEMMA EntryMirrored ==
    ASSUME IInv, NEW r \in Requests, Mirror(r)
    PROVE  IInv'
<1>a. PICK m, t, rows : m = agentMem[r] /\ t = m.entry /\ rows = TwinsRows(t)
  OBVIOUS
<1>0. /\ agentPc[r] = "mirror" /\ AgentEnd(r)
      /\ agentTx' = [n \in AgentIds |-> IF n \in rows THEN Mirrored(agentTx[n], m) ELSE agentTx[n]]
      /\ touched' = IF agentOverlap THEN touched \cup {t} ELSE touched
      /\ UNCHANGED <<agentTxs, ledgerTx, entries, agentOverlap, agentBegun>>
  BY <1>a DEF Mirror, agentTraffic
<1>1. /\ AgentTypeOK /\ m \in AgentLocal /\ SoundAt("mirror", m) /\ entries \in Nat /\ agentTxs \in Nat
  BY <1>a, <1>0, Knowing
<1>2. t \in EntryIds /\ t # None /\ m.date \in Maybe(Nat) /\ m.move \in Maybe(EntryRow)
  BY <1>a, <1>1, NoneIsNoRow DEF SoundAt, AgentLocal
<1>3. ASSUME NEW n \in AgentIds, agentTx[n] # None
      PROVE  /\ Mirrored(agentTx[n], m) \in AgentRow /\ Mirrored(agentTx[n], m).type = agentTx[n].type
             /\ Mirrored(agentTx[n], m).twin = agentTx[n].twin
  <2>1. agentTx[n] \in AgentRow
    BY <1>1, <1>3, RowTyped
  <2>2. Given(m.date, agentTx[n].date) \in Nat
    BY <1>2, <2>1, GivenNat DEF AgentRow
  <2>3. m.move # None => m.move.amount \in Int
    BY <1>2 DEF Maybe, EntryRow
  <2> QED BY <2>1, <2>2, <2>3 DEF Mirrored, AgentRow
<1>4. ASSUME NEW n \in AgentIds
      PROVE  /\ agentTx[n] = None => agentTx'[n] = None
             /\ agentTx[n] # None => /\ agentTx'[n] \in AgentRow /\ agentTx'[n] # None
                                     /\ agentTx'[n].type = agentTx[n].type
                                     /\ agentTx'[n].twin = agentTx[n].twin
             /\ agentTx[n] # None /\ agentTx[n].twin # t => agentTx'[n] = agentTx[n]
             /\ agentTx[n] # None /\ agentTx[n].twin = t => agentTx'[n] = Mirrored(agentTx[n], m)
  <2>1. n \in rows <=> agentTx[n] # None /\ agentTx[n].twin = t
    BY <1>a DEF TwinsRows
  <2>2. agentTx[n] # None => agentTx[n] \in AgentRow
    BY <1>1, RowTyped
  <2> QED BY <1>0, <1>3, <2>1, <2>2, NoneIsNoRow
<1>5. /\ OthersStay(r) /\ Sound(r)' /\ TakesUp(r, agentPc'[r], agentMem'[r]) /\ agentPc'[r] = "idle"
      /\ agentPc' \in [Requests -> AgentPlaces] /\ agentMem' \in [Requests -> AgentLocal]
  <2>1. entries' \in Nat /\ agentTxs' \in Nat
    BY <1>0, <1>1
  <2> QED BY <1>0, <2>1, Ended
<1>6. AgentTypeOK'
  <2>1. agentTx' \in [AgentIds -> Maybe(AgentRow)]
    <3>1. agentTx' = [n \in AgentIds |-> agentTx'[n]]
      BY <1>0
    <3>2. \A n \in AgentIds : agentTx'[n] \in Maybe(AgentRow)
      BY <1>4 DEF Maybe
    <3> QED BY <3>1, <3>2
  <2>2. disturbed' \in BOOLEAN
    BY <1>1 DEF Mirror, AgentTypeOK
  <2> QED BY <1>0, <1>1, <1>2, <1>5, <2>1, <2>2 DEF AgentTypeOK
<1>7. RowsKnown' /\ DistinctTwins' /\ RowKinds'
  BY <1>0, <1>4 DEF IInv, RowsKnown, DistinctTwins, RowKinds
<1>8. ASSUME NEW n \in AgentIds PROVE Agreeing(n)'
  <2>1. Agreeing(n)
    BY DEF IInv
  <2>2. \A e : Mirroring(e) => e = t \/ Mirroring(e)'
    BY <1>a, <1>0, <1>5 DEF Mirroring, OthersStay
  <2>3. agentTx[n] # None /\ agentTx[n].twin = t /\ ~agentOverlap /\ t \notin touched
            => SameMoney(Mirrored(agentTx[n], m), ledgerTx[t])
    BY <1>a, <1>0 DEF IInv, MirrorsAgree
  <2> QED BY <1>0, <1>4, <2>1, <2>2, <2>3 DEF Agreeing, SameMoney
<1>9. \A q \in Requests : KeptFor(q)
  BY <1>0, <1>4 DEF KeptFor, RowKept, EntryKept
<1>10. entries <= entries' /\ agentTxs <= agentTxs'
  BY <1>0, <1>1
<1> QED BY <1>0, <1>5, <1>6, <1>7, <1>8, <1>9, <1>10, WriteMove

LEMMA EntryRemoved ==
    ASSUME IInv, NEW t \in EntryIds, RemoveEntry(t)
    PROVE  IInv'
<1>0. /\ MeanwhileOrBetween /\ ledgerTx' = WithoutEntry(t) /\ agentTx' = WithoutRows(TwinsRows(t))
      /\ UNCHANGED <<agentTxs, entries, touched>>
  BY DEF RemoveEntry
<1>1. /\ agentPc' = agentPc /\ agentMem' = agentMem /\ agentOverlap' = agentOverlap
      /\ agentBegun' = agentBegun
  BY <1>0 DEF MeanwhileOrBetween, agentTraffic
<1>2. \A e : Mirroring(e)' = Mirroring(e)
  BY <1>1 DEF Mirroring
<1>3. /\ agentTx' \in [AgentIds -> Maybe(AgentRow)] /\ ledgerTx' \in [EntryIds -> Maybe(EntryRow)]
      /\ RowsKnown' /\ DistinctTwins' /\ RowKinds' /\ \A n \in AgentIds : Agreeing(n)'
      /\ \A q \in Requests : KeptFor(q)
  BY <1>0, <1>1, <1>2, Removed
<1>4. AgentTypeOK /\ disturbed' \in BOOLEAN /\ entries <= entries' /\ agentTxs <= agentTxs'
  BY <1>0, AgentAssumption DEF IInv, AgentTypeOK, RemoveEntry
<1>5. AgentTypeOK'
  BY <1>0, <1>1, <1>3, <1>4 DEF AgentTypeOK
<1> QED BY <1>0, <1>3, <1>4, <1>5, WriteAlone

LEMMA AgentRemoved ==
    ASSUME IInv, NEW rows \in SUBSET AgentIds, RemoveAgent(rows)
    PROVE  IInv'
<1>0. /\ MeanwhileOrBetween /\ agentTx' = WithoutRows(rows) /\ \A n \in rows : agentTx[n] # None
      /\ touched' = touched \cup ({agentTx[n].twin : n \in rows} \ {None})
      /\ UNCHANGED <<agentTxs, ledgerTx, entries>>
  BY DEF RemoveAgent
<1>1. /\ agentPc' = agentPc /\ agentMem' = agentMem /\ agentOverlap' = agentOverlap
      /\ agentBegun' = agentBegun
  BY <1>0 DEF MeanwhileOrBetween, agentTraffic
<1>2. \A e : Mirroring(e)' = Mirroring(e)
  BY <1>1 DEF Mirroring
<1>3. /\ agentTx' \in [AgentIds -> Maybe(AgentRow)] /\ ledgerTx' \in [EntryIds -> Maybe(EntryRow)]
      /\ RowsKnown' /\ DistinctTwins' /\ RowKinds' /\ \A n \in AgentIds : Agreeing(n)'
      /\ \A q \in Requests : KeptFor(q)
  BY <1>0, <1>1, <1>2, Removed
<1>4. AgentTypeOK /\ disturbed' \in BOOLEAN /\ entries <= entries' /\ agentTxs <= agentTxs'
  BY <1>0, AgentAssumption DEF IInv, AgentTypeOK, RemoveAgent
<1>5. touched' \subseteq EntryIds
  BY <1>0, <1>4, RowTyped DEF AgentTypeOK, Maybe
<1>6. AgentTypeOK'
  BY <1>0, <1>1, <1>3, <1>4, <1>5 DEF AgentTypeOK
<1> QED BY <1>0, <1>3, <1>4, <1>6, WriteAlone

LEMMA Stopped ==
    ASSUME IInv, NEW r \in Requests, StopAgent(r)
    PROVE  IInv'
<1>0. /\ agentPc[r] # "idle" /\ AgentEnd(r) /\ disturbed' \in BOOLEAN
      /\ touched' = IF agentPc[r] = "mirror" THEN touched \cup {agentMem[r].entry} ELSE touched
      /\ UNCHANGED <<agentTx, agentTxs, ledgerTx, entries, agentOverlap, agentBegun>>
  BY DEF StopAgent, agentTraffic, IInv, AgentTypeOK
<1>1. CASE agentPc[r] # "mirror"
  BY <1>0, <1>1, JustEnded DEF agentTraffic
<1>2. CASE agentPc[r] = "mirror"
  <2>1. /\ AgentTypeOK /\ SoundAt("mirror", agentMem[r]) /\ entries \in Nat /\ agentTxs \in Nat
    BY <1>2, Knowing
  <2>2. /\ OthersStay(r) /\ Sound(r)' /\ TakesUp(r, agentPc'[r], agentMem'[r]) /\ agentPc'[r] = "idle"
        /\ agentPc' \in [Requests -> AgentPlaces] /\ agentMem' \in [Requests -> AgentLocal]
    <3>1. entries' \in Nat /\ agentTxs' \in Nat
      BY <1>0, <2>1
    <3> QED BY <1>0, <3>1, Ended
  <2>3. AgentTypeOK'
    <3>1. touched' \subseteq EntryIds
      BY <1>0, <1>2, <2>1 DEF AgentTypeOK, SoundAt
    <3> QED BY <1>0, <2>1, <2>2, <3>1 DEF AgentTypeOK
  <2>4. RowsKnown' /\ DistinctTwins' /\ RowKinds'
    BY <1>0 DEF IInv, RowsKnown, DistinctTwins, RowKinds
  <2>5. ASSUME NEW n \in AgentIds PROVE Agreeing(n)'
    <3>1. Agreeing(n)
      BY DEF IInv
    <3>2. \A e : Mirroring(e) => e \in touched' \/ Mirroring(e)'
      BY <1>0, <1>2, <2>2 DEF Mirroring, OthersStay
    <3> QED BY <1>0, <1>2, <3>1, <3>2 DEF Agreeing, SameMoney
  <2>6. \A q \in Requests : KeptFor(q)
    BY <1>0 DEF KeptFor, RowKept, EntryKept
  <2>7. entries <= entries' /\ agentTxs <= agentTxs'
    BY <1>0, <2>1
  <2> QED BY <1>0, <1>2, <2>2, <2>3, <2>4, <2>5, <2>6, <2>7, WriteMove
<1> QED BY <1>1, <1>2

LEMMA Unmoved ==
    ASSUME IInv, UNCHANGED agentVars
    PROVE  IInv'
<1>1. UNCHANGED <<agentTx, agentTxs, ledgerTx, entries, touched, disturbed, agentPc, agentMem,
                  agentOverlap, agentBegun>>
  BY DEF agentVars, agentTraffic
<1>2. AgentTypeOK' /\ RowsKnown' /\ DistinctTwins' /\ RowKinds' /\ Single'
  BY <1>1 DEF IInv, AgentTypeOK, RowsKnown, DistinctTwins, RowKinds, Single
<1>3. ASSUME NEW q \in Requests PROVE Sound(q)'
  <2>1. KeptFor(q) /\ AgentTypeOK' /\ entries <= entries' /\ agentTxs <= agentTxs'
    BY <1>1, <1>2, Knowing DEF KeptFor, RowKept, EntryKept
  <2> QED BY <1>1, <2>1, OthersSound
<1>4. \A q, p \in Requests : q # p => Apart(q, p)'
  BY <1>1 DEF IInv, Apart, Reserved, Making, Held
<1>5. \A n \in AgentIds : Agreeing(n)'
  BY <1>1 DEF IInv, Agreeing, Mirroring, SameMoney
<1>6. MirrorsAgree'
  BY <1>1 DEF IInv, MirrorsAgree, SameMoney, Mirrored, Given
<1> QED BY <1>2, <1>3, <1>4, <1>5, <1>6 DEF IInv

-----------------------------------------------------------------------------
(* The theorems.                                                           *)

LEMMA InvInit == AgentInit => IInv
<1> SUFFICES ASSUME AgentInit PROVE IInv
  OBVIOUS
<1>1. /\ \A n \in AgentIds : agentTx[n] = None
      /\ \A t \in EntryIds : ledgerTx[t] = None
      /\ \A r \in Requests : agentPc[r] = "idle" /\ agentMem[r] = AgentBlank
      /\ entries = 0 /\ agentTxs = 0 /\ touched = {}
  BY DEF AgentInit
<1>2. AgentTypeOK
  <2>1. agentTx \in [AgentIds -> Maybe(AgentRow)] /\ ledgerTx \in [EntryIds -> Maybe(EntryRow)]
    BY DEF AgentInit, Maybe
  <2>2. agentPc \in [Requests -> AgentPlaces] /\ agentMem \in [Requests -> AgentLocal]
    BY BlankType DEF AgentInit, AgentPlaces
  <2>3. 0 \in 0..MaxAgentTx /\ 0 \in 0..MaxEntries
    BY AgentAssumption
  <2>4. touched = {} /\ disturbed = FALSE /\ agentOverlap \in BOOLEAN /\ agentBegun = 0
    BY DEF AgentInit
  <2> QED BY <1>1, <2>1, <2>2, <2>3, <2>4 DEF AgentTypeOK
<1>3. ASSUME NEW r \in Requests PROVE Sound(r) /\ Reserved(r) = {} /\ Making(r) = {}
  <2>1. HeldIn(AgentBlank) = {} /\ ReservedAt("idle", AgentBlank) = {} /\ MakingAt("idle", AgentBlank) = {}
        /\ AgentBlank.row = 0 /\ AgentBlank.plan = {}
    BY DEF HeldIn, ReservedAt, MakingAt, AgentBlank
  <2> QED BY <1>1, <2>1 DEF Sound, SoundAt, Reserved, Making
<1> QED BY <1>1, <1>2, <1>3 DEF IInv, RowsKnown, DistinctTwins, RowKinds, Single, Apart, Agreeing,
           MirrorsAgree

LEMMA InvStep ==
    ASSUME IInv, [AgentNext]_agentVars
    PROVE  IInv'
<1>1. ASSUME NEW r \in Requests, BeginAgent(r) PROVE IInv'
  BY <1>1, Unmoved, SupplyBegun, DeleteBegun, EditBegun, MoveBegun, PaymentBegun, EntryEditBegun
     DEF BeginAgent, RejectAgent
<1>2. ASSUME NEW r \in Requests, AllPriced(r) PROVE IInv'
  BY <1>2, JustEnded DEF AllPriced
<1>3. ASSUME NEW r \in Requests, StepAgent(r) PROVE IInv'
  BY <1>2, <1>3, RowEdited, PricedRead, RowWritten, Cascaded, RatesRead, RowPriced, MovePosted,
     PaymentWritten, EntryWritten, EntryMirrored, Stopped DEF StepAgent
<1>4. CASE AgentNext
  BY <1>1, <1>3, <1>4, MoneyAdded, EntryRemoved, AgentRemoved DEF AgentNext
<1>5. CASE UNCHANGED agentVars
  BY <1>5, Unmoved
<1> QED BY <1>4, <1>5

LEMMA InvAgrees == IInv => TwinsAgree
<1> SUFFICES ASSUME IInv PROVE TwinsAgree
  OBVIOUS
<1>1. ASSUME NEW n \in AgentIds, agentTx[n] # None, agentTx[n].twin \notin touched \cup {None},
             CalmAgents \/ (agentTx[n].type # "settle" /\ ~Mirroring(agentTx[n].twin))
      PROVE  SameMoney(agentTx[n], ledgerTx[agentTx[n].twin])
  <2>1. CalmAgents => ~agentOverlap /\ ~Mirroring(agentTx[n].twin)
    BY DEF CalmAgents, AgentsIdle, Mirroring
  <2> QED BY <1>1, <2>1 DEF IInv, Agreeing
<1> QED BY <1>1 DEF TwinsAgree

\* Every column and every local of a request has its type, whatever dates,
\* amounts and rates the forms carry and however the requests of
\* forex.repository.ts and transactions.repository.ts overlap and stop.
THEOREM AgentTypeCorrect == AgentSpec => []AgentTypeOK
<1>1. IInv => AgentTypeOK
  BY DEF IInv
<1> QED BY InvInit, InvStep, <1>1, PTL DEF AgentSpec

\* However many requests overlap and wherever they stop, a row of an agent and
\* its twin in the money log agree (forex.repository.ts, updateAgentTx and
\* deleteAgentTx): an id given to one request is held by no other until its row
\* is committed, and no priced row is ever a twin.
THEOREM TwinsAlways == AgentSpec => []TwinsAgree
BY InvInit, InvStep, InvAgrees, PTL DEF AgentSpec

-----------------------------------------------------------------------------
(* Requests that come one at a time: every twin has a row, and the priced  *)
(* rows have the rate that is in force, also in the middle of a request.   *)

\* what the entry e says is what the rates make of its date and amount
QuotedAt(rates, date, amount, rate, second) ==
    \E x \in InForce(rates, date) : rate = x.rate /\ second = Exchanged(amount, x.rate)
FitsRates(rates, e) == rates = {} \/ QuotedAt(rates, e.date, e.amount, e.rate, e.second)

AllRowed == \A t \in EntryIds :
    ledgerTx[t] # None /\ ~Priced(t) /\ t \notin touched => \E n \in AgentIds :
        agentTx[n] # None /\ agentTx[n].twin = t
AllPaid == \A t \in EntryIds : Priced(t) => ledgerTx[t].amount > 0
AllFit == \A t \in EntryIds : Priced(t) => FitsRates(RatesOf(agentTx), ledgerTx[t])

RatesWith(m) == RatesOf([agentTx EXCEPT ![m.row] = m.new])
\* p is what the rates that the request has read make of a row
GoodQuote(rates, p) ==
    QuotedAt(rates, ledgerTx[p.entry].date, ledgerTx[p.entry].amount, p.rate, p.second)

\* What a request, at l and with m, knows of the rows while no other is in progress.
KnowsAt(l, m) ==
    /\ l = "edit" => m.plan = {}
    /\ l = "rows" => m.new.type = "out"
    /\ l \in {"rows", "write"} /\ m.new.type = "out" => m.rates = RatesWith(m)
    /\ l = "write" => m.plan = IF m.new.type = "out" THEN Quotes(m.rates) ELSE {}
    /\ l = "cascade" => agentTx[m.row] # None /\ agentTx[m.row].type = m.new.type
                            /\ agentTx[m.row].twin = m.twin
    /\ l \in {"rowsAfter", "price"} => m.rates = RatesOf(agentTx)
    /\ l = "price" =>
          /\ \A p \in m.plan : ledgerTx[p.entry] # None => GoodQuote(m.rates, p)
          /\ \A t \in EntryIds : Priced(t) =>
                FitsRates(m.rates, ledgerTx[t]) \/ \E p \in m.plan : p.entry = t
    /\ l = "post" => m.move.amount > 0
          /\ QuotedAt(RatesOf(agentTx), m.move.date, m.move.amount, m.move.rate, m.move.second)
    /\ l = "payment" /\ ledgerTx[m.entry] # None => m.move.amount > 0
          /\ QuotedAt(RatesOf(agentTx), Given(m.date, ledgerTx[m.entry].date), m.move.amount,
                      m.move.rate, m.move.second)
    /\ l = "entry" /\ Priced(m.entry) /\ m.move # None =>
          m.move.amount > 0 /\ m.move = Rescaled(ledgerTx[m.entry], m.move.amount)

\* what a deletion has left to do
Repricing == {"rates", "rowsAfter", "price"}

Lone == ~agentOverlap =>
    /\ AllRowed /\ AllPaid
    /\ \A r \in Requests : KnowsAt(agentPc[r], agentMem[r])
    /\ ~disturbed /\ (\A r \in Requests : agentPc[r] \notin Repricing) => AllFit

\* A rate is in force at every date once there is any: the last one up to it,
\* or the first of all.
LEMMA InForceThere ==
    ASSUME NEW rates \in SUBSET RateType, rates # {}, NEW d \in Nat
    PROVE  \E x : x \in InForce(rates, d)
<1> DEFINE before == {x \in rates : x.date <= d}
<1>0. /\ \A x \in rates : x.date \in Nat /\ x.seq \in Nat /\ x.seq <= MaxAgentTx
      /\ MaxAgentTx \in Nat
  BY AgentAssumption DEF RateType, AgentIds
<1>1. CASE before # {}
  <2> DEFINE T == {d - x.date : x \in before}
  <2>1. T \subseteq Nat /\ T # {}
    <3>1. \A x \in before : d - x.date \in Nat
      BY <1>0
    <3>2. PICK x \in before : TRUE
      BY <1>1
    <3>3. d - x.date \in T
      OBVIOUS
    <3> HIDE DEF before
    <3> QED BY <3>1, <3>3
  <2>2. PICK t \in T : \A u \in T : t <= u
    BY <2>1, LeastOf
  <2>3. PICK y \in before : t = d - y.date
    BY <2>2
  <2>4. \A z \in before : z.date <= y.date
    <3> SUFFICES ASSUME NEW z \in before PROVE z.date <= y.date
      OBVIOUS
    <3>1. d - z.date \in T
      OBVIOUS
    <3>2. t <= d - z.date
      BY <2>2, <3>1
    <3> QED BY <1>0, <2>3, <3>2
  <2> DEFINE U == {MaxAgentTx - x.seq : x \in {z \in before : z.date = y.date}}
  <2>5. U \subseteq Nat /\ U # {}
    <3>1. \A x \in before : MaxAgentTx - x.seq \in Nat
      BY <1>0
    <3>2. MaxAgentTx - y.seq \in U
      BY <2>3
    <3> QED BY <3>1, <3>2
  <2>6. PICK s \in U : \A u \in U : s <= u
    BY <2>5, LeastOf
  <2>7. PICK x \in {z \in before : z.date = y.date} : s = MaxAgentTx - x.seq
    BY <2>6
  <2>8. ASSUME NEW z \in before PROVE NotAfter(z, x)
    <3>1. CASE z.date = y.date
      <4>1. MaxAgentTx - z.seq \in U
        BY <3>1
      <4>2. s <= MaxAgentTx - z.seq
        BY <2>6, <4>1
      <4> QED BY <1>0, <2>7, <3>1, <4>2 DEF NotAfter
    <3>2. CASE z.date # y.date
      BY <1>0, <2>4, <2>7, <3>2 DEF NotAfter
    <3> QED BY <3>1, <3>2
  <2> QED BY <1>1, <2>7, <2>8 DEF InForce
<1>2. CASE before = {}
  <2> DEFINE T == {x.date : x \in rates}
  <2>1. T \subseteq Nat /\ T # {}
    BY <1>0
  <2>2. PICK t \in T : \A u \in T : t <= u
    BY <2>1, LeastOf
  <2>3. PICK y \in rates : t = y.date
    BY <2>2
  <2>4. \A z \in rates : y.date <= z.date
    BY <2>2, <2>3
  <2> DEFINE U == {x.seq : x \in {z \in rates : z.date = y.date}}
  <2>5. U \subseteq Nat /\ U # {}
    BY <1>0
  <2>6. PICK s \in U : \A u \in U : s <= u
    BY <2>5, LeastOf
  <2>7. PICK x \in {z \in rates : z.date = y.date} : s = x.seq
    BY <2>6
  <2>8. ASSUME NEW z \in rates PROVE NotAfter(x, z)
    <3>1. CASE z.date = y.date
      <4>1. z.seq \in U
        BY <3>1
      <4>2. s <= z.seq
        BY <2>6, <4>1
      <4> QED BY <1>0, <2>7, <3>1, <4>2 DEF NotAfter
    <3>2. CASE z.date # y.date
      BY <1>0, <2>4, <2>7, <3>2 DEF NotAfter
    <3> QED BY <3>1, <3>2
  <2> QED BY <1>2, <2>7, <2>8 DEF InForce
<1> QED BY <1>1, <1>2

\* What it means that a rate is in force.
LEMMA InForceMeans ==
    ASSUME NEW rates, NEW d, NEW x \in InForce(rates, d)
    PROVE  /\ x \in rates
           /\ \A y \in rates : IF x.date <= d THEN y.date <= d => NotAfter(y, x) ELSE NotAfter(x, y)
<1> DEFINE before == {y \in rates : y.date <= d}
<1>1. CASE before # {}
  <2>1. x \in {z \in before : \A y \in before : NotAfter(y, z)}
    BY <1>1 DEF InForce
  <2> QED BY <2>1
<1>2. CASE before = {}
  <2>1. x \in {z \in rates : \A y \in rates : NotAfter(z, y)}
    BY <1>2 DEF InForce
  <2>2. ~ (x.date <= d)
    BY <1>2, <2>1
  <2> QED BY <2>1, <2>2
<1> QED BY <1>1, <1>2

\* Two tables have the same rates where their supplies have the same dates and rates.
Alike(a, b) ==
    \/ a = b
    \/ (a = None \/ a.type # "out") /\ (b = None \/ b.type # "out")
    \/ a # None /\ b # None /\ a.type = b.type /\ a.date = b.date /\ a.rate = b.rate

LEMMA RatesSame ==
    ASSUME NEW f, NEW g, \A n \in AgentIds : Alike(f[n], g[n])
    PROVE  RatesOf(f) = RatesOf(g)
<1>1. ASSUME NEW a, NEW b, \A n \in AgentIds : Alike(a[n], b[n])
      PROVE  RatesOf(a) \subseteq RatesOf(b)
  <2> SUFFICES ASSUME NEW x \in RatesOf(a) PROVE x \in RatesOf(b)
    OBVIOUS
  <2>1. PICK n \in {k \in AgentIds : a[k] # None /\ a[k].type = "out" /\ a[k].rate > 0} :
          x = [date |-> a[n].date, seq |-> n, rate |-> a[n].rate]
    BY DEF RatesOf
  <2>2. Alike(a[n], b[n])
    BY <1>1, <2>1
  <2>3. /\ n \in AgentIds /\ b[n] # None /\ b[n].type = "out" /\ b[n].rate > 0
        /\ x = [date |-> b[n].date, seq |-> n, rate |-> b[n].rate]
    BY <2>1, <2>2 DEF Alike
  <2> QED BY <2>3 DEF RatesOf
<1>2. \A n \in AgentIds : Alike(g[n], f[n])
  BY DEF Alike
<1> QED BY <1>1, <1>2

\* What a transaction is going to write fits, and leaves out no priced row.
LEMMA QuotesFit ==
    ASSUME AgentTypeOK, NEW rates \in SUBSET RateType
    PROVE  /\ \A p \in Quotes(rates) : GoodQuote(rates, p) /\ p.entry \in EntryIds /\ Priced(p.entry)
           /\ \A t \in EntryIds : Priced(t) /\ rates # {} => \E p \in Quotes(rates) : p.entry = t
<1>1. ASSUME NEW p \in Quotes(rates) PROVE GoodQuote(rates, p)
  <2>1. PICK t \in EntryIds : Priced(t) /\ p \in {Quote(t, x) : x \in InForce(rates, ledgerTx[t].date)}
    BY DEF Quotes
  <2>2. PICK x \in InForce(rates, ledgerTx[t].date) : p = Quote(t, x)
    BY <2>1
  <2>3. p.entry = t /\ p.rate = x.rate /\ p.second = Exchanged(ledgerTx[t].amount, x.rate)
    BY <2>2 DEF Quote
  <2> QED BY <2>2, <2>3 DEF GoodQuote, QuotedAt
<1>2. ASSUME NEW t \in EntryIds, Priced(t), rates # {} PROVE \E p \in Quotes(rates) : p.entry = t
  <2>1. ledgerTx[t].date \in Nat
    BY <1>2, EntryTyped DEF Priced, EntryRow
  <2>2. PICK x : x \in InForce(rates, ledgerTx[t].date)
    BY <1>2, <2>1, InForceThere
  <2>3. Quote(t, x) \in Quotes(rates)
    <3>1. PICK d, S : d = ledgerTx[t].date /\ S = InForce(rates, d)
      OBVIOUS
    <3> QED BY <1>2, <2>2, <3>1 DEF Quotes
  <2>4. Quote(t, x).entry = t
    BY DEF Quote
  <2> QED BY <2>3, <2>4
<1> QED BY <1>1, <1>2, QuotesType

\* A priced amount that is edited takes its second amount along, at the same rate.
LEMMA RescaledFits ==
    ASSUME NEW old \in EntryRow, old.amount > 0, NEW a \in Nat, a > 0,
           NEW x \in Nat, old.second = Exchanged(old.amount, x)
    PROVE  Rescaled(old, a).amount = a /\ Rescaled(old, a).second = Exchanged(a, x)
<1>1. PICK b : b = old.amount
  OBVIOUS
<1>2. b \in Nat /\ b > 0 /\ SizeOf(b) = b /\ old.second = b * x
  BY <1>1 DEF EntryRow, SizeOf, Exchanged
<1>3. PICK k : k = a * x
  OBVIOUS
<1>4. k \in Nat
  BY <1>3
<1>5. a * old.second = k * b
  BY <1>2, <1>3
<1>6. (k * b) \div b = k
  BY <1>2, <1>4
<1>7. (a * old.second) \div SizeOf(old.amount) = k
  BY <1>1, <1>2, <1>5, <1>6
<1>8. PICK q : q = (a * old.second) \div SizeOf(old.amount)
  OBVIOUS
<1> DEFINE y == IF old.amount < 0 THEN -a ELSE a
           z == IF old.amount = 0 THEN old.second ELSE (a * old.second) \div SizeOf(old.amount)
<1>9. Rescaled(old, a) = [old EXCEPT !.amount = y, !.second = z]
  BY DEF Rescaled
<1>10. y = a /\ z = q
  BY <1>1, <1>2, <1>8
<1> HIDE DEF y, z
<1>11. Rescaled(old, a).amount = a /\ Rescaled(old, a).second = q
  BY <1>9, <1>10 DEF EntryRow
<1> QED BY <1>3, <1>7, <1>8, <1>11 DEF Exchanged

-----------------------------------------------------------------------------
(* Requests that come one at a time.                                       *)

\* what holds while the request r is the only one that may be in progress
Alone(r) == ~agentOverlap /\ (agentPc[r] # "idle" \/ AgentsIdle)

LEMMA OthersIdle ==
    ASSUME IInv, NEW r \in Requests, Alone(r)
    PROVE  \A q \in Requests \ {r} : agentPc[q] = "idle"
BY DEF Alone, AgentsIdle, IInv, Single

\* what that request has
LEMMA AloneKnows ==
    ASSUME IInv, Lone, NEW r \in Requests, Alone(r)
    PROVE  /\ AllRowed /\ AllPaid /\ KnowsAt(agentPc[r], agentMem[r])
           /\ ~disturbed /\ agentPc[r] \notin Repricing => AllFit
<1>1. \A q \in Requests : agentPc[r] \notin Repricing => agentPc[q] \notin Repricing
  BY OthersIdle DEF Repricing
<1> QED BY <1>1 DEF Lone, Alone

\* what it owes
LEMMA AloneKept ==
    ASSUME IInv, NEW r \in Requests, Alone(r), agentOverlap' = agentOverlap, NEW l, NEW m,
           OthersStay(r), agentPc'[r] = l, agentMem'[r] = m,
           AllRowed', AllPaid', KnowsAt(l, m)', ~disturbed' /\ l \notin Repricing => AllFit'
    PROVE  Lone'
<1>1. ASSUME NEW q \in Requests PROVE KnowsAt(agentPc[q], agentMem[q])'
  <2>1. CASE q = r
    BY <2>1
  <2>2. CASE q # r
    <3>1. agentPc'[q] = "idle"
      BY <2>2, OthersIdle DEF OthersStay
    <3> QED BY <3>1 DEF KnowsAt
  <2> QED BY <2>1, <2>2
<1> QED BY <1>1 DEF Lone

\* Where the tables stay, everything said of them does.
LEMMA TablesStay ==
    ASSUME UNCHANGED <<agentTx, ledgerTx, touched>>, NEW l, NEW m
    PROVE  /\ AllRowed' = AllRowed /\ AllPaid' = AllPaid /\ AllFit' = AllFit
           /\ KnowsAt(l, m)' = KnowsAt(l, m)
<1>1. \A t : Priced(t)' = Priced(t)
  BY DEF Priced
<1>2. ASSUME NEW rates PROVE Quotes(rates)' = Quotes(rates)
  BY <1>1 DEF Quotes, Quote, Priced
<1>3. ASSUME NEW rates, NEW p PROVE GoodQuote(rates, p)' = GoodQuote(rates, p)
  BY DEF GoodQuote, QuotedAt
<1>4. RatesOf(agentTx)' = RatesOf(agentTx)
  BY DEF RatesOf
<1>5. RatesWith(m)' = RatesWith(m)
  BY DEF RatesWith, RatesOf
<1>6. /\ AllRowed' = AllRowed /\ AllPaid' = AllPaid
  BY <1>1 DEF AllRowed, AllPaid
<1>7. ASSUME NEW rates, NEW t PROVE FitsRates(rates, ledgerTx[t])' = FitsRates(rates, ledgerTx[t])
  BY DEF FitsRates, QuotedAt
<1>8. AllFit' = AllFit
  BY <1>1, <1>4 DEF AllFit, FitsRates, QuotedAt
<1>9. KnowsAt(l, m)' = KnowsAt(l, m)
  BY <1>1, <1>2, <1>3, <1>4, <1>5, <1>7 DEF KnowsAt, QuotedAt
<1> QED BY <1>6, <1>8, <1>9

LEMMA AloneReads ==
    ASSUME IInv, Lone, NEW r \in Requests, Alone(r), agentOverlap' = agentOverlap,
           NEW l \in AgentPlaces, NEW m \in AgentLocal, AgentGoto(r, l), AgentRemember(r, m),
           UNCHANGED <<agentTx, ledgerTx, touched>>, KnowsAt(l, m),
           ~disturbed' /\ l \notin Repricing => AllFit
    PROVE  Lone'
<1>1. AgentTypeOK
  BY DEF IInv
<1>2. OthersStay(r) /\ agentPc'[r] = l /\ agentMem'[r] = m
  BY <1>1, MoveType DEF OthersStay
<1>3. AllRowed' /\ AllPaid' /\ KnowsAt(l, m)' /\ (AllFit => AllFit')
  BY AloneKnows, TablesStay
<1> QED BY <1>2, <1>3, AloneKept

LEMMA AloneEnds ==
    ASSUME IInv, Lone, NEW r \in Requests, Alone(r), agentOverlap' = agentOverlap,
           AgentEnd(r), UNCHANGED <<agentTx, ledgerTx, touched>>, ~disturbed' => AllFit
    PROVE  Lone'
<1>1. "idle" \in AgentPlaces /\ AgentBlank \in AgentLocal
  BY BlankType DEF AgentPlaces
<1>2. KnowsAt("idle", AgentBlank)
  BY DEF KnowsAt
<1> QED BY <1>1, <1>2, AloneReads DEF AgentEnd

LEMMA AgentEntersAlone ==
    ASSUME NEW r \in Requests, EnterAgent(r), ~agentOverlap
    PROVE  Alone(r) /\ agentOverlap' = agentOverlap /\ agentPc[r] = "idle"
BY DEF EnterAgent, Alone

LEMMA AloneIdle ==
    ASSUME IInv, Lone, NEW r \in Requests, Alone(r), agentPc[r] = "idle", ~disturbed
    PROVE  AllFit
BY AloneKnows DEF Repricing

LEMMA SupplyAlone ==
    ASSUME IInv, Lone, ~agentOverlap, NEW r \in Requests, NEW f \in Supplies, BeginSupply(r, f)
    PROVE  Lone'
<1>1. PICK n, t, w : n = agentTxs + 1 /\ t = NextEntry /\ w = NewRow(f, t)
  OBVIOUS
<1>2. PICK m : m = [AgentBlank EXCEPT !.row = n, !.new = w, !.twin = t, !.creates = TRUE,
                      !.fresh = TRUE, !.rates = RatesOf([agentTx EXCEPT ![n] = w])]
  OBVIOUS
<1>3. /\ EnterAgent(r) /\ f.type = "out" /\ n <= MaxAgentTx /\ t <= MaxEntries
      /\ AgentRemember(r, m) /\ AgentGoto(r, "rows")
      /\ UNCHANGED <<agentTx, ledgerTx, touched, disturbed>>
  BY <1>1, <1>2 DEF BeginSupply
<1>4. n \in AgentIds /\ t \in EntryIds
  BY <1>1, <1>3, AgentAssumption DEF IInv, AgentTypeOK, AgentIds, EntryIds, NextEntry
<1>5. w \in AgentRow /\ w.type = "out"
  BY <1>1, <1>3, <1>4, NewRowType, AgentAssumption DEF Maybe
<1>6. [agentTx EXCEPT ![n] = w] \in [AgentIds -> Maybe(AgentRow)]
  BY <1>4, <1>5 DEF IInv, AgentTypeOK, Maybe
<1>7. m \in AgentLocal /\ m.row = n /\ m.new = w /\ m.rates = RatesOf([agentTx EXCEPT ![n] = w])
  BY <1>2, <1>4, <1>5, <1>6, RatesType, BlankType DEF AgentLocal, Maybe, AgentBlank
<1>8. KnowsAt("rows", m)
  BY <1>5, <1>7 DEF KnowsAt, RatesWith
<1>9. Alone(r) /\ agentOverlap' = agentOverlap /\ (~disturbed => AllFit)
  BY <1>3, AgentEntersAlone, AloneIdle
<1>10. "rows" \in AgentPlaces
  BY DEF AgentPlaces
<1> QED BY <1>3, <1>7, <1>8, <1>9, <1>10, AloneReads

LEMMA EditAlone ==
    ASSUME IInv, Lone, ~agentOverlap, NEW r \in Requests, NEW n \in AgentIds, NEW f \in AgentEdits,
           BeginEdit(r, n, f)
    PROVE  Lone'
<1>1. PICK m : m = [AgentBlank EXCEPT !.row = n, !.new = Edited(agentTx[n], f), !.twin = agentTx[n].twin]
  OBVIOUS
<1>2. /\ EnterAgent(r) /\ agentTx[n] # None /\ AgentGoto(r, "edit") /\ AgentRemember(r, m)
      /\ UNCHANGED <<agentTx, ledgerTx, touched, disturbed>>
  BY <1>1 DEF BeginEdit
<1>3. Edited(agentTx[n], f) \in AgentRow /\ agentTx[n].twin \in Maybe(EntryIds)
  BY <1>2, RowTyped, EditedType, AgentAssumption DEF IInv
<1>4. m \in AgentLocal /\ m.plan = {}
  BY <1>1, <1>3, BlankType DEF AgentLocal, Maybe, AgentBlank
<1>5. KnowsAt("edit", m)
  BY <1>4 DEF KnowsAt
<1>6. Alone(r) /\ agentOverlap' = agentOverlap /\ (~disturbed => AllFit)
  BY <1>2, AgentEntersAlone, AloneIdle
<1>7. "edit" \in AgentPlaces
  BY DEF AgentPlaces
<1> QED BY <1>2, <1>4, <1>5, <1>6, <1>7, AloneReads

LEMMA DeleteAlone ==
    ASSUME IInv, Lone, ~agentOverlap, NEW r \in Requests, NEW n \in AgentIds, BeginDelete(r, n)
    PROVE  Lone'
<1>1. PICK m : m = [AgentBlank EXCEPT !.row = n, !.new = agentTx[n], !.twin = agentTx[n].twin]
  OBVIOUS
<1>2. /\ EnterAgent(r) /\ agentTx[n] # None /\ AgentGoto(r, "cascade") /\ AgentRemember(r, m)
      /\ UNCHANGED <<agentTx, ledgerTx, touched, disturbed>>
  BY <1>1 DEF BeginDelete
<1>3. agentTx[n] \in AgentRow /\ agentTx[n].twin \in Maybe(EntryIds)
  BY <1>2, RowTyped DEF IInv
<1>4. m \in AgentLocal /\ m.row = n /\ m.new = agentTx[n] /\ m.twin = agentTx[n].twin
  BY <1>1, <1>3, BlankType DEF AgentLocal, Maybe, AgentBlank
<1>5. KnowsAt("cascade", m)
  BY <1>2, <1>4 DEF KnowsAt
<1>6. Alone(r) /\ agentOverlap' = agentOverlap /\ (~disturbed => AllFit)
  BY <1>2, AgentEntersAlone, AloneIdle
<1>7. "cascade" \in AgentPlaces
  BY DEF AgentPlaces
<1> QED BY <1>2, <1>4, <1>5, <1>6, <1>7, AloneReads

LEMMA MoveAlone ==
    ASSUME IInv, Lone, ~agentOverlap, NEW r \in Requests, NEW f \in Moves, BeginMove(r, f)
    PROVE  Lone'
<1>0. /\ f \in MoveForm /\ f.date \in Nat /\ f.amount \in Nat /\ f.amount > 0
      /\ f.kind \in {"transfer", "payment"}
  BY AgentAssumption DEF MoveForm, Positive
<1>1. PICK R : R = RatesOf(agentTx)
  OBVIOUS
<1>2. PICK x \in InForce(R, f.date) :
        AgentRemember(r, [AgentBlank EXCEPT !.entry = NextEntry, !.move =
              [kind |-> f.kind, date |-> f.date, amount |-> f.amount, rate |-> x.rate,
               second |-> Exchanged(f.amount, x.rate)]])
  BY <1>1 DEF BeginMove
<1>3. PICK e, q : /\ e = [kind |-> f.kind, date |-> f.date, amount |-> f.amount, rate |-> x.rate,
                          second |-> q]
                  /\ q = Exchanged(f.amount, x.rate)
  OBVIOUS
<1>4. PICK m : m = [AgentBlank EXCEPT !.entry = NextEntry, !.move = e]
  OBVIOUS
<1>5. /\ EnterAgent(r) /\ NextEntry <= MaxEntries /\ AgentGoto(r, "post") /\ AgentRemember(r, m)
      /\ UNCHANGED <<agentTx, ledgerTx, touched, disturbed>>
  BY <1>2, <1>3, <1>4 DEF BeginMove
<1>6. x \in RateType /\ x.rate \in Nat
  BY <1>1, InForceIn, RatesType DEF IInv, AgentTypeOK, RateType
<1>7. q \in Int
  BY <1>0, <1>3, <1>6, ExchangedInt
<1>8. e \in EntryRow
  BY <1>0, <1>3, <1>6, <1>7 DEF EntryRow
<1>9. NextEntry \in EntryIds
  BY <1>5, AgentAssumption DEF IInv, AgentTypeOK, EntryIds, NextEntry
<1>10. m \in AgentLocal /\ m.move = e
  BY <1>4, <1>8, <1>9, BlankType DEF AgentLocal, Maybe, AgentBlank
<1>11. KnowsAt("post", m)
  BY <1>0, <1>1, <1>2, <1>3, <1>10 DEF KnowsAt, QuotedAt
<1>12. Alone(r) /\ agentOverlap' = agentOverlap /\ (~disturbed => AllFit)
  BY <1>5, AgentEntersAlone, AloneIdle
<1>13. "post" \in AgentPlaces
  BY DEF AgentPlaces
<1> QED BY <1>5, <1>10, <1>11, <1>12, <1>13, AloneReads

LEMMA PaymentAlone ==
    ASSUME IInv, Lone, ~agentOverlap, NEW r \in Requests, NEW t \in EntryIds, NEW f \in EntryEdits,
           BeginPayment(r, t, f)
    PROVE  Lone'
<1>1. PICK R, old, date, amount : /\ R = RatesOf(agentTx) /\ old = ledgerTx[t]
                                  /\ date = Given(f.date, old.date) /\ amount = Given(f.amount, old.amount)
  OBVIOUS
<1>2. PICK x \in InForce(R, date) :
        AgentRemember(r, [AgentBlank EXCEPT !.entry = t, !.date = f.date, !.move =
              [old EXCEPT !.amount = amount, !.rate = x.rate, !.second = Exchanged(amount, x.rate)]])
  BY <1>1 DEF BeginPayment
<1>3. PICK e, q : /\ e = [old EXCEPT !.amount = amount, !.rate = x.rate, !.second = q]
                  /\ q = Exchanged(amount, x.rate)
  OBVIOUS
<1>4. PICK m : m = [AgentBlank EXCEPT !.entry = t, !.date = f.date, !.move = e]
  OBVIOUS
<1>5. /\ EnterAgent(r) /\ old # None /\ old.kind = "payment"
      /\ AgentGoto(r, "payment") /\ AgentRemember(r, m)
      /\ UNCHANGED <<agentTx, ledgerTx, touched, disturbed>>
  BY <1>1, <1>2, <1>3, <1>4 DEF BeginPayment
<1>6. old \in EntryRow /\ old.amount \in Int
  BY <1>1, <1>5, EntryTyped DEF IInv, EntryRow
<1>7. /\ f.date \in Maybe(Nat) /\ f.amount \in Maybe(Positive)
  BY AgentAssumption DEF EntryEdit
<1>8. old.amount > 0
  <2>1. AllPaid
    BY <1>5, AgentEntersAlone, AloneKnows
  <2> QED BY <1>1, <1>5, <2>1 DEF AllPaid, Priced
<1>9. amount \in Int /\ amount > 0
  BY <1>1, <1>6, <1>7, <1>8 DEF Given, Maybe, Positive
<1>10. x \in RateType /\ x.rate \in Nat
  BY <1>1, InForceIn, RatesType DEF IInv, AgentTypeOK, RateType
<1>11. q \in Int
  BY <1>3, <1>9, <1>10, ExchangedInt
<1>12. e \in EntryRow /\ e.amount = amount /\ e.rate = x.rate /\ e.second = q
  BY <1>3, <1>6, <1>9, <1>10, <1>11 DEF EntryRow
<1>13. m \in AgentLocal /\ m.move = e /\ m.entry = t /\ m.date = f.date
  BY <1>4, <1>7, <1>12, BlankType DEF AgentLocal, Maybe, AgentBlank
<1>14. KnowsAt("payment", m)
  BY <1>1, <1>2, <1>3, <1>9, <1>12, <1>13 DEF KnowsAt, QuotedAt
<1>15. Alone(r) /\ agentOverlap' = agentOverlap /\ (~disturbed => AllFit)
  BY <1>5, AgentEntersAlone, AloneIdle
<1>16. "payment" \in AgentPlaces
  BY DEF AgentPlaces
<1> QED BY <1>5, <1>13, <1>14, <1>15, <1>16, AloneReads

LEMMA EntryEditAlone ==
    ASSUME IInv, Lone, ~agentOverlap, NEW r \in Requests, NEW t \in EntryIds, NEW f \in EntryEdits,
           BeginEntryEdit(r, t, f)
    PROVE  Lone'
<1>1. PICK old, v : old = ledgerTx[t] /\ v = IF f.amount = None THEN None ELSE Rescaled(old, f.amount)
  OBVIOUS
<1>2. PICK m : m = [AgentBlank EXCEPT !.entry = t, !.date = f.date, !.move = v]
  OBVIOUS
<1>3. /\ EnterAgent(r) /\ old # None /\ AgentGoto(r, "entry") /\ AgentRemember(r, m)
      /\ UNCHANGED <<agentTx, ledgerTx, touched, disturbed>>
  BY <1>1, <1>2 DEF BeginEntryEdit
<1>4. old \in EntryRow /\ old.amount \in Int
  BY <1>1, <1>3, EntryTyped DEF IInv, EntryRow
<1>5. /\ f.date \in Maybe(Nat) /\ f.amount \in Maybe(Positive)
  BY AgentAssumption DEF EntryEdit
<1>6. v \in Maybe(EntryRow)
  BY <1>1, <1>4, <1>5, RescaledType DEF Maybe
<1>7. m \in AgentLocal /\ m.move = v /\ m.entry = t
  BY <1>2, <1>5, <1>6, BlankType DEF AgentLocal, Maybe, AgentBlank
<1>8. ASSUME Priced(t), v # None PROVE v.amount > 0 /\ v = Rescaled(old, v.amount)
  <2>1. old.amount > 0
    <3>1. AllPaid
      BY <1>3, AgentEntersAlone, AloneKnows
    <3> QED BY <1>1, <1>8, <3>1 DEF AllPaid
  <2>2. f.amount \in Nat /\ f.amount > 0 /\ v = Rescaled(old, f.amount)
    BY <1>1, <1>5, <1>8 DEF Maybe, Positive
  <2>3. (IF old.amount < 0 THEN -f.amount ELSE f.amount) = f.amount
    BY <1>4, <2>1
  <2>4. v.amount = f.amount
    BY <1>4, <2>2, <2>3 DEF Rescaled, EntryRow
  <2> QED BY <2>2, <2>4
<1>9. KnowsAt("entry", m)
  BY <1>1, <1>7, <1>8 DEF KnowsAt
<1>10. Alone(r) /\ agentOverlap' = agentOverlap /\ (~disturbed => AllFit)
  BY <1>3, AgentEntersAlone, AloneIdle
<1>11. "entry" \in AgentPlaces
  BY DEF AgentPlaces
<1> QED BY <1>3, <1>7, <1>9, <1>10, <1>11, AloneReads

LEMMA GoesOnAlone ==
    ASSUME ~agentOverlap, NEW r \in Requests, agentPc[r] # "idle"
    PROVE  Alone(r)
BY DEF Alone

LEMMA RowEditedAlone ==
    ASSUME IInv, Lone, ~agentOverlap, NEW r \in Requests, EditRow(r)
    PROVE  Lone'
<1>1. PICK m, n : /\ m = agentMem[r]
                  /\ n = IF NeedsTwin(m) THEN [m EXCEPT !.twin = NextEntry, !.fresh = TRUE]
                         ELSE IF m.new.type = "out" THEN [m EXCEPT !.rates = RatesWith(m)] ELSE m
  OBVIOUS
<1>2. PICK l : l = IF m.new.type = "out" THEN "rows" ELSE "write"
  OBVIOUS
<1>3. /\ agentPc[r] = "edit" /\ AgentRemember(r, n) /\ AgentGoto(r, l)
      /\ NeedsTwin(m) => NextEntry <= MaxEntries
      /\ UNCHANGED <<agentTx, ledgerTx, touched, disturbed>> /\ agentOverlap' = agentOverlap
  BY <1>1, <1>2 DEF EditRow, RatesWith, agentTraffic
<1>4. Alone(r) /\ KnowsAt("edit", m) /\ (~disturbed => AllFit)
  BY <1>1, <1>3, GoesOnAlone, AloneKnows DEF Repricing
<1>5. m \in AgentLocal /\ SoundAt("edit", m) /\ AgentTypeOK
  BY <1>1, <1>3, Knowing
<1>6. m.plan = {} /\ m.row \in AgentIds /\ m.new \in AgentRow
  BY <1>4, <1>5 DEF KnowsAt, SoundAt
<1>7. RatesWith(m) \in SUBSET RateType
  <2>1. [agentTx EXCEPT ![m.row] = m.new] \in [AgentIds -> Maybe(AgentRow)]
    BY <1>5, <1>6 DEF AgentTypeOK, Maybe
  <2> QED BY <2>1, RatesType DEF RatesWith
<1>8. NeedsTwin(m) => NextEntry \in EntryIds
  BY <1>3, <1>5, AgentAssumption DEF AgentTypeOK, EntryIds, NextEntry
<1>9. n \in AgentLocal /\ n.row = m.row /\ n.new = m.new /\ n.plan = {}
  <2>1. CASE NeedsTwin(m)
    BY <1>1, <1>5, <1>6, <1>8, <2>1 DEF AgentLocal, Maybe
  <2>2. CASE ~NeedsTwin(m)
    BY <1>1, <1>5, <1>6, <1>7, <2>2 DEF AgentLocal
  <2> QED BY <2>1, <2>2
<1>10. n.new.type = "out" => n.rates = RatesWith(n)
  <2>1. ASSUME n.new.type = "out" PROVE n.rates = RatesWith(m)
    BY <1>1, <1>5, <1>9, <2>1 DEF NeedsTwin, AgentLocal
  <2> QED BY <1>9, <2>1 DEF RatesWith
<1>11. KnowsAt(l, n)
  BY <1>2, <1>9, <1>10 DEF KnowsAt
<1>12. l \in AgentPlaces
  BY <1>2 DEF AgentPlaces
<1> QED BY <1>3, <1>4, <1>9, <1>11, <1>12, AloneReads

LEMMA PricedReadAlone ==
    ASSUME IInv, Lone, ~agentOverlap, NEW r \in Requests, ReadPriced(r)
    PROVE  Lone'
<1>1. PICK m, Q : m = agentMem[r] /\ Q = Quotes(m.rates)
  OBVIOUS
<1>2. PICK n, l : n = [m EXCEPT !.plan = Q] /\ l = IF agentPc[r] = "rows" THEN "write" ELSE "price"
  OBVIOUS
<1>3. /\ agentPc[r] \in {"rows", "rowsAfter"} /\ AgentRemember(r, n) /\ AgentGoto(r, l)
      /\ UNCHANGED <<agentTx, ledgerTx, touched, disturbed>> /\ agentOverlap' = agentOverlap
  BY <1>1, <1>2 DEF ReadPriced, agentTraffic
<1>4. /\ Alone(r) /\ KnowsAt(agentPc[r], m)
      /\ ~disturbed /\ agentPc[r] \notin Repricing => AllFit
  BY <1>1, <1>3, GoesOnAlone, AloneKnows
<1>5. m \in AgentLocal /\ AgentTypeOK
  BY <1>1, Knowing
<1>6. m.rates \in SUBSET RateType
  BY <1>5 DEF AgentLocal
<1>7. /\ Q \in SUBSET QuoteType
      /\ \A p \in Q : GoodQuote(m.rates, p)
      /\ \A t \in EntryIds : Priced(t) /\ m.rates # {} => \E p \in Q : p.entry = t
  BY <1>1, <1>5, <1>6, QuotesType, QuotesFit
<1>8. n \in AgentLocal /\ n.row = m.row /\ n.new = m.new /\ n.plan = Q /\ n.rates = m.rates
  BY <1>2, <1>5, <1>7 DEF AgentLocal
<1>9. RatesWith(n) = RatesWith(m)
  BY <1>8 DEF RatesWith
<1>10. KnowsAt(l, n)
  <2>1. CASE agentPc[r] = "rows"
    <3>1. l = "write" /\ m.new.type = "out" /\ m.rates = RatesWith(m)
      BY <1>2, <1>4, <2>1 DEF KnowsAt
    <3> QED BY <1>1, <1>8, <1>9, <3>1 DEF KnowsAt
  <2>2. CASE agentPc[r] = "rowsAfter"
    <3>1. l = "price" /\ m.rates = RatesOf(agentTx)
      BY <1>2, <1>4, <2>2 DEF KnowsAt
    <3>2. \A t \in EntryIds : Priced(t) => FitsRates(m.rates, ledgerTx[t]) \/ \E p \in Q : p.entry = t
      BY <1>7 DEF FitsRates
    <3> QED BY <1>7, <1>8, <3>1, <3>2 DEF KnowsAt
  <2> QED BY <1>3, <2>1, <2>2
<1>11. l \in AgentPlaces /\ (l \notin Repricing => agentPc[r] \notin Repricing)
  BY <1>2, <1>3 DEF AgentPlaces, Repricing
<1> QED BY <1>3, <1>4, <1>8, <1>10, <1>11, AloneReads

LEMMA RatesReadAlone ==
    ASSUME IInv, Lone, ~agentOverlap, NEW r \in Requests, ReadRates(r)
    PROVE  Lone'
<1>1. PICK m, R : m = agentMem[r] /\ R = RatesOf(agentTx)
  OBVIOUS
<1>2. PICK n : n = [m EXCEPT !.rates = R]
  OBVIOUS
<1>3. /\ agentPc[r] = "rates" /\ Alone(r)
      /\ IF R = {} THEN AgentEnd(r) ELSE AgentRemember(r, n) /\ AgentGoto(r, "rowsAfter")
      /\ UNCHANGED <<agentTx, ledgerTx, touched, disturbed>> /\ agentOverlap' = agentOverlap
  BY <1>1, <1>2, GoesOnAlone DEF ReadRates, agentTraffic
<1>4. CASE R = {}
  <2>1. AllFit
    BY <1>1, <1>4 DEF AllFit, FitsRates
  <2> QED BY <1>3, <1>4, <2>1, AloneEnds
<1>5. CASE R # {}
  <2>1. m \in AgentLocal /\ R \in SUBSET RateType
    BY <1>1, Knowing, RatesType DEF AgentTypeOK
  <2>2. n \in AgentLocal /\ n.rates = R
    BY <1>2, <2>1 DEF AgentLocal
  <2>3. KnowsAt("rowsAfter", n)
    BY <1>1, <2>2 DEF KnowsAt
  <2>4. "rowsAfter" \in AgentPlaces /\ "rowsAfter" \in Repricing
    BY DEF AgentPlaces, Repricing
  <2> QED BY <1>3, <1>5, <2>2, <2>3, <2>4, AloneReads
<1> QED BY <1>4, <1>5

LEMMA AllPricedAlone ==
    ASSUME IInv, Lone, ~agentOverlap, NEW r \in Requests, AllPriced(r)
    PROVE  Lone'
<1>1. PICK m : m = agentMem[r]
  OBVIOUS
<1>2. /\ agentPc[r] = "price" /\ m.plan = {} /\ AgentEnd(r) /\ Alone(r)
      /\ UNCHANGED <<agentTx, ledgerTx, touched>> /\ agentOverlap' = agentOverlap
  BY <1>1, GoesOnAlone DEF AllPriced, agentTraffic
<1>3. KnowsAt("price", m)
  BY <1>1, <1>2, AloneKnows
<1>4. AllFit
  BY <1>2, <1>3 DEF KnowsAt, AllFit
<1> QED BY <1>2, <1>4, AloneEnds

LEMMA StoppedAlone ==
    ASSUME IInv, Lone, ~agentOverlap, NEW r \in Requests, StopAgent(r)
    PROVE  Lone'
<1>1. /\ agentPc[r] # "idle" /\ AgentEnd(r) /\ Alone(r)
      /\ disturbed' = (disturbed \/ agentPc[r] \in Repricing)
      /\ touched' = IF agentPc[r] = "mirror" THEN touched \cup {agentMem[r].entry} ELSE touched
      /\ UNCHANGED <<agentTx, ledgerTx>> /\ agentOverlap' = agentOverlap
  BY GoesOnAlone DEF StopAgent, agentTraffic, Repricing
<1>2. AllRowed /\ AllPaid /\ (~disturbed' => AllFit)
  BY <1>1, AloneKnows
<1>3. AllRowed'
  <2>1. touched \subseteq touched' /\ \A t : Priced(t)' = Priced(t)
    BY <1>1 DEF Priced
  <2> QED BY <1>1, <1>2, <2>1 DEF AllRowed
<1>4. AllPaid' = AllPaid /\ AllFit' = AllFit
  BY <1>1 DEF AllPaid, AllFit, Priced, FitsRates, QuotedAt, RatesOf
<1>5. OthersStay(r) /\ agentPc'[r] = "idle" /\ agentMem'[r] = AgentBlank
  <2>1. "idle" \in AgentPlaces /\ AgentBlank \in AgentLocal /\ AgentTypeOK
    BY BlankType DEF AgentPlaces, IInv
  <2> QED BY <1>1, <2>1, MoveType DEF OthersStay, AgentEnd
<1>6. KnowsAt("idle", AgentBlank)'
  BY DEF KnowsAt
<1> QED BY <1>1, <1>2, <1>3, <1>4, <1>5, <1>6, AloneKept

-----------------------------------------------------------------------------
(* Steps that write.                                                       *)

LEMMA AloneWritesEnd ==
    ASSUME IInv, Lone, NEW r \in Requests, Alone(r), agentOverlap' = agentOverlap, AgentEnd(r),
           AllRowed', AllPaid', ~disturbed' => AllFit'
    PROVE  Lone'
<1>1. "idle" \in AgentPlaces /\ AgentBlank \in AgentLocal /\ AgentTypeOK
  BY BlankType DEF AgentPlaces, IInv
<1>2. OthersStay(r) /\ agentPc'[r] = "idle" /\ agentMem'[r] = AgentBlank
  BY <1>1, MoveType DEF OthersStay, AgentEnd
<1>3. KnowsAt("idle", AgentBlank)'
  BY DEF KnowsAt
<1> QED BY <1>2, <1>3, AloneKept

LEMMA IdleKept ==
    ASSUME IInv, Lone, ~agentOverlap, MeanwhileOrBetween,
           AllRowed /\ AllPaid /\ (~disturbed => AllFit) => AllRowed' /\ AllPaid' /\ (~disturbed' => AllFit')
    PROVE  Lone'
<1>1. /\ \A q \in Requests : agentPc[q] = "idle"
      /\ agentPc' = agentPc /\ agentMem' = agentMem /\ agentOverlap' = agentOverlap
  BY DEF MeanwhileOrBetween, AgentsIdle, agentTraffic
<1>2. AllRowed /\ AllPaid /\ (~disturbed => AllFit)
  BY <1>1 DEF Lone, Repricing
<1>3. \A q \in Requests : KnowsAt(agentPc[q], agentMem[q])'
  BY <1>1 DEF KnowsAt
<1> QED BY <1>2, <1>3 DEF Lone

\* The rows fit while the rates stay and what is written fits.
LEMMA FitKept ==
    ASSUME AllFit, NEW R, R = RatesOf(agentTx), R = RatesOf(agentTx'),
           \A t \in EntryIds : Priced(t)' =>
              (Priced(t) /\ ledgerTx'[t] = ledgerTx[t]) \/ FitsRates(R, ledgerTx'[t])
    PROVE  AllFit'
<1>1. \A t \in EntryIds : Priced(t)' => FitsRates(R, ledgerTx'[t])
  BY DEF AllFit
<1> QED BY <1>1 DEF AllFit

LEMMA MoneyAddedAlone ==
    ASSUME IInv, Lone, ~agentOverlap, NEW f \in Supplies, AddMoney(f)
    PROVE  Lone'
<1>1. PICK n, t, w : /\ n = agentTxs + 1 /\ t = NextEntry
                     /\ w = NewRow(f, IF f.type = "settle" /\ ~f.treasury THEN None ELSE t)
  OBVIOUS
<1>2. /\ MeanwhileOrBetween /\ f.type # "out" /\ n <= MaxAgentTx
      /\ agentTx' = [agentTx EXCEPT ![n] = w] /\ UNCHANGED <<touched, disturbed>>
      /\ \/ UNCHANGED ledgerTx
         \/ t <= MaxEntries /\ w = NewRow(f, t) /\ ledgerTx' = [ledgerTx EXCEPT ![t] = TwinOf(w)]
  BY <1>1 DEF AddMoney
<1>3. /\ agentTxs \in Nat /\ entries \in Nat /\ MaxAgentTx \in Nat /\ MaxEntries \in Nat
      /\ agentTx \in [AgentIds -> Maybe(AgentRow)] /\ ledgerTx \in [EntryIds -> Maybe(EntryRow)]
  BY AgentAssumption DEF IInv, AgentTypeOK
<1>4. n \in AgentIds /\ agentTx[n] = None
  BY <1>1, <1>2, <1>3 DEF AgentIds, IInv, RowsKnown
<1>5. t <= MaxEntries => t \in EntryIds
  BY <1>1, <1>3 DEF EntryIds, NextEntry
<1>6. f \in AgentForm
  BY AgentAssumption
<1>7. w.type = f.type
  BY <1>1 DEF NewRow
<1>8. \A k \in AgentIds : Alike(agentTx[k], agentTx'[k])
  BY <1>2, <1>3, <1>4, <1>7 DEF Alike
<1>9. RatesOf(agentTx) = RatesOf(agentTx')
  BY <1>8, RatesSame
<1>10. ASSUME NEW e \in EntryIds
       PROVE  \/ ledgerTx'[e] = ledgerTx[e]
              \/ /\ e = t /\ ledgerTx'[e].kind = f.type /\ w.twin = t
                 /\ agentTx'[n] # None /\ agentTx'[n].twin = t
  <2>1. CASE UNCHANGED ledgerTx
    BY <2>1
  <2>2. CASE t <= MaxEntries /\ w = NewRow(f, t) /\ ledgerTx' = [ledgerTx EXCEPT ![t] = TwinOf(w)]
    <3>1. w \in AgentRow /\ w.twin = t
      BY <1>5, <1>6, <2>2, NewRowType DEF Maybe
    <3>2. agentTx'[n] = w /\ w # None
      BY <1>2, <1>3, <1>4, <3>1, NoneIsNoRow
    <3>3. TwinOf(w).kind = f.type
      BY <1>7 DEF TwinOf
    <3> QED BY <1>3, <1>5, <2>2, <3>1, <3>2, <3>3
  <2> QED BY <1>2, <2>1, <2>2
<1>11. f.type \notin {"transfer", "payment"}
  BY <1>6 DEF AgentForm
<1>12. \A e \in EntryIds : Priced(e)' => Priced(e) /\ ledgerTx'[e] = ledgerTx[e]
  BY <1>10, <1>11 DEF Priced
<1>13. ASSUME AllRowed PROVE AllRowed'
  <2> SUFFICES ASSUME NEW e \in EntryIds, ledgerTx'[e] # None, ~Priced(e)', e \notin touched
               PROVE  \E k \in AgentIds : agentTx'[k] # None /\ agentTx'[k].twin = e
    BY <1>2 DEF AllRowed
  <2>1. CASE ledgerTx'[e] = ledgerTx[e]
    <3>1. PICK k \in AgentIds : agentTx[k] # None /\ agentTx[k].twin = e
      BY <1>13, <2>1 DEF AllRowed, Priced
    <3>2. k # n
      BY <1>4, <3>1
    <3> QED BY <1>2, <1>3, <3>1, <3>2
  <2>2. CASE ledgerTx'[e] # ledgerTx[e]
    BY <1>4, <1>10, <2>2
  <2> QED BY <2>1, <2>2
<1>14. AllPaid => AllPaid'
  BY <1>12 DEF AllPaid
<1>15. ASSUME AllFit PROVE AllFit'
  <2>1. PICK R : R = RatesOf(agentTx)
    OBVIOUS
  <2> QED BY <1>9, <1>12, <1>15, <2>1, FitKept
<1> QED BY <1>2, <1>13, <1>14, <1>15, IdleKept

LEMMA MovePostedAlone ==
    ASSUME IInv, Lone, ~agentOverlap, NEW r \in Requests, PostMove(r)
    PROVE  Lone'
<1>1. PICK m : m = agentMem[r]
  OBVIOUS
<1>2. /\ agentPc[r] = "post" /\ AgentEnd(r) /\ Alone(r)
      /\ ledgerTx' = [ledgerTx EXCEPT ![m.entry] = m.move]
      /\ UNCHANGED <<agentTx, touched, disturbed>> /\ agentOverlap' = agentOverlap
  BY <1>1, GoesOnAlone DEF PostMove, agentTraffic
<1>3. AllRowed /\ AllPaid /\ (~disturbed => AllFit) /\ KnowsAt("post", m)
  BY <1>1, <1>2, AloneKnows DEF Repricing
<1>4. SoundAt("post", m) /\ ledgerTx \in [EntryIds -> Maybe(EntryRow)]
  BY <1>1, <1>2, Knowing DEF AgentTypeOK
<1>5. m.entry \in EntryIds /\ m.move \in EntryRow /\ m.move.kind \in Kinds
  BY <1>4 DEF SoundAt
<1>6. PICK R : R = RatesOf(agentTx)
  OBVIOUS
<1>7. m.move.amount > 0 /\ FitsRates(R, m.move)
  BY <1>3, <1>6 DEF KnowsAt, FitsRates
<1>8. \A t \in EntryIds : ledgerTx'[t] = IF t = m.entry THEN m.move ELSE ledgerTx[t]
  BY <1>2, <1>4
<1>9. Priced(m.entry)'
  BY <1>5, <1>8, NoneIsNoRow DEF Priced, Kinds
<1>10. AllRowed'
  BY <1>2, <1>3, <1>8, <1>9 DEF AllRowed, Priced
<1>11. AllPaid'
  BY <1>3, <1>7, <1>8 DEF AllPaid, Priced
<1>12. ASSUME ~disturbed' PROVE AllFit'
  <2>1. \A t \in EntryIds : Priced(t)' =>
              (Priced(t) /\ ledgerTx'[t] = ledgerTx[t]) \/ FitsRates(R, ledgerTx'[t])
    BY <1>7, <1>8 DEF Priced
  <2>2. AllFit /\ R = RatesOf(agentTx')
    BY <1>2, <1>3, <1>6, <1>12
  <2> QED BY <1>6, <2>1, <2>2, FitKept
<1> QED BY <1>2, <1>10, <1>11, <1>12, AloneWritesEnd

LEMMA PaymentWrittenAlone ==
    ASSUME IInv, Lone, ~agentOverlap, NEW r \in Requests, WritePayment(r)
    PROVE  Lone'
<1>1. PICK m, e : m = agentMem[r] /\ e = [m.move EXCEPT !.date = Given(m.date, ledgerTx[m.entry].date)]
  OBVIOUS
<1>2. /\ agentPc[r] = "payment" /\ AgentEnd(r) /\ Alone(r) /\ ledgerTx[m.entry] # None
      /\ ledgerTx' = [ledgerTx EXCEPT ![m.entry] = e]
      /\ UNCHANGED <<agentTx, touched, disturbed>> /\ agentOverlap' = agentOverlap
  BY <1>1, GoesOnAlone DEF WritePayment, agentTraffic
<1>3. AllRowed /\ AllPaid /\ (~disturbed => AllFit) /\ KnowsAt("payment", m)
  BY <1>1, <1>2, AloneKnows DEF Repricing
<1>4. SoundAt("payment", m) /\ m \in AgentLocal /\ ledgerTx \in [EntryIds -> Maybe(EntryRow)] /\ AgentTypeOK
  BY <1>1, <1>2, Knowing DEF AgentTypeOK
<1>5. m.entry \in EntryIds /\ m.move \in EntryRow /\ m.move.kind \in Kinds
  BY <1>4 DEF SoundAt
<1>6. e \in EntryRow /\ e.kind = m.move.kind /\ e.amount = m.move.amount /\ e.rate = m.move.rate
      /\ e.second = m.move.second /\ e.date = Given(m.date, ledgerTx[m.entry].date)
  <2>1. PICK d : d = Given(m.date, ledgerTx[m.entry].date)
    OBVIOUS
  <2>2. d \in Nat
    BY <1>2, <1>4, <1>5, <2>1, EntryTyped, GivenNat DEF EntryRow, AgentLocal
  <2>3. e = [m.move EXCEPT !.date = d]
    BY <1>1, <2>1
  <2> QED BY <1>5, <2>1, <2>2, <2>3 DEF EntryRow
<1>7. PICK R : R = RatesOf(agentTx)
  OBVIOUS
<1>8. e.amount > 0 /\ FitsRates(R, e)
  BY <1>2, <1>3, <1>6, <1>7 DEF KnowsAt, FitsRates
<1>9. \A t \in EntryIds : ledgerTx'[t] = IF t = m.entry THEN e ELSE ledgerTx[t]
  BY <1>2, <1>4
<1>10. Priced(m.entry)'
  BY <1>5, <1>6, <1>9, NoneIsNoRow DEF Priced, Kinds
<1>11. AllRowed'
  BY <1>2, <1>3, <1>9, <1>10 DEF AllRowed, Priced
<1>12. AllPaid'
  BY <1>3, <1>8, <1>9 DEF AllPaid, Priced
<1>13. ASSUME ~disturbed' PROVE AllFit'
  <2>1. \A t \in EntryIds : Priced(t)' =>
              (Priced(t) /\ ledgerTx'[t] = ledgerTx[t]) \/ FitsRates(R, ledgerTx'[t])
    BY <1>8, <1>9 DEF Priced
  <2>2. AllFit /\ R = RatesOf(agentTx')
    BY <1>2, <1>3, <1>7, <1>13
  <2> QED BY <1>7, <2>1, <2>2, FitKept
<1> QED BY <1>2, <1>11, <1>12, <1>13, AloneWritesEnd

LEMMA RowPricedAlone ==
    ASSUME IInv, Lone, ~agentOverlap, NEW r \in Requests, NEW p \in agentMem[r].plan, PriceRow(r, p)
    PROVE  Lone'
<1>1. PICK m, e, s : m = agentMem[r] /\ e = p.entry /\ s = Quoted(e, p)
  OBVIOUS
<1>2. PICK n : n = [m EXCEPT !.plan = @ \ {p}]
  OBVIOUS
<1>3. /\ agentPc[r] = "price" /\ Alone(r) /\ ledgerTx[e] # None /\ p \in m.plan
      /\ ledgerTx' = [ledgerTx EXCEPT ![e] = s] /\ AgentRemember(r, n)
      /\ UNCHANGED <<agentTx, touched, disturbed, agentPc>> /\ agentOverlap' = agentOverlap
  BY <1>1, <1>2, GoesOnAlone DEF PriceRow, agentTraffic
<1>4. AllRowed /\ AllPaid /\ KnowsAt("price", m)
  BY <1>1, <1>3, AloneKnows
<1>5. m \in AgentLocal /\ AgentTypeOK /\ SoundAt("price", m)
  BY <1>1, <1>3, Knowing
<1>6. p \in QuoteType /\ e \in EntryIds /\ ledgerTx[e] \in EntryRow /\ ledgerTx[e].kind \in Kinds
      /\ ledgerTx \in [EntryIds -> Maybe(EntryRow)]
  BY <1>1, <1>3, <1>5, EntryTyped DEF AgentLocal, QuoteType, SoundAt, AgentTypeOK
<1>7. /\ s \in EntryRow /\ s # None /\ s.kind = ledgerTx[e].kind /\ s.date = ledgerTx[e].date
      /\ s.amount = ledgerTx[e].amount /\ s.rate = p.rate /\ s.second = p.second
  BY <1>1, <1>3, <1>5, <1>6, QuotedType, NoneIsNoRow DEF Quoted, EntryRow
<1>8. FitsRates(m.rates, s)
  <2>1. GoodQuote(m.rates, p)
    BY <1>1, <1>3, <1>4 DEF KnowsAt
  <2> QED BY <1>1, <1>7, <2>1 DEF GoodQuote, FitsRates
<1>9. \A t \in EntryIds : ledgerTx'[t] = IF t = e THEN s ELSE ledgerTx[t]
  BY <1>3, <1>6
<1>10. \A t \in EntryIds : Priced(t)' <=> Priced(t)
  BY <1>3, <1>7, <1>9 DEF Priced
<1>11. \A t \in EntryIds : ledgerTx'[t] # None =>
          /\ ledgerTx[t] # None
          /\ ledgerTx'[t].date = ledgerTx[t].date /\ ledgerTx'[t].amount = ledgerTx[t].amount
  BY <1>3, <1>7, <1>9
<1>12. AllRowed'
  BY <1>3, <1>4, <1>10, <1>11 DEF AllRowed
<1>13. AllPaid'
  BY <1>4, <1>10, <1>11 DEF AllPaid, Priced
<1>14. n \in AgentLocal /\ n.rates = m.rates /\ n.plan = m.plan \ {p}
  BY <1>2, <1>5 DEF AgentLocal
<1>15. KnowsAt("price", n)'
  <2>1. m.rates = RatesOf(agentTx')
    BY <1>3, <1>4 DEF KnowsAt
  <2>2. ASSUME NEW u \in n.plan, ledgerTx'[u.entry] # None PROVE GoodQuote(n.rates, u)'
    <3>1. u.entry \in EntryIds /\ u \in m.plan
      BY <1>5, <1>14 DEF AgentLocal, QuoteType
    <3>2. GoodQuote(m.rates, u)
      BY <1>4, <1>11, <2>2, <3>1 DEF KnowsAt
    <3> QED BY <1>11, <1>14, <2>2, <3>1, <3>2 DEF GoodQuote
  <2>3. ASSUME NEW t \in EntryIds, Priced(t)'
        PROVE  FitsRates(n.rates, ledgerTx'[t]) \/ \E u \in n.plan : u.entry = t
    <3>1. CASE t = e
      BY <1>8, <1>9, <1>14, <3>1
    <3>2. CASE t # e
      <4>1. FitsRates(m.rates, ledgerTx[t]) \/ \E u \in m.plan : u.entry = t
        BY <1>4, <1>10, <2>3 DEF KnowsAt
      <4> QED BY <1>1, <1>9, <1>14, <3>2, <4>1
    <3> QED BY <3>1, <3>2
  <2> QED BY <1>14, <2>1, <2>2, <2>3 DEF KnowsAt
<1>16. OthersStay(r) /\ agentPc'[r] = "price" /\ agentMem'[r] = n
  BY <1>3, <1>5 DEF OthersStay, AgentRemember, AgentTypeOK
<1> QED BY <1>3, <1>12, <1>13, <1>15, <1>16, AloneKept DEF Repricing

LEMMA EntryWrittenAlone ==
    ASSUME IInv, Lone, ~agentOverlap, NEW r \in Requests, WriteEntry(r)
    PROVE  Lone'
<1>1. PICK m, e, old : m = agentMem[r] /\ e = m.entry /\ old = ledgerTx[e]
  OBVIOUS
<1>2. PICK d, a, b : /\ d = Given(m.date, old.date)
                     /\ a = IF m.move = None THEN old.amount ELSE m.move.amount
                     /\ b = IF m.move = None THEN old.second ELSE m.move.second
  OBVIOUS
<1>3. PICK s : s = [old EXCEPT !.date = d, !.amount = a, !.second = b]
  OBVIOUS
<1>4. /\ agentPc[r] = "entry" /\ old # None /\ Alone(r)
      /\ ledgerTx' = [ledgerTx EXCEPT ![e] = s]
      /\ disturbed' = (disturbed \/ (Priced(e) /\ m.date \notin {None, old.date}))
      /\ IF Priced(e) THEN AgentEnd(r) ELSE AgentGoto(r, "mirror") /\ UNCHANGED agentMem
      /\ UNCHANGED <<agentTx, touched>> /\ agentOverlap' = agentOverlap
  BY <1>1, <1>2, <1>3, GoesOnAlone DEF WriteEntry, agentTraffic
<1>5. AllRowed /\ AllPaid /\ (~disturbed => AllFit) /\ KnowsAt("entry", m)
  BY <1>1, <1>4, AloneKnows DEF Repricing
<1>6. m \in AgentLocal /\ AgentTypeOK /\ SoundAt("entry", m) /\ ledgerTx \in [EntryIds -> Maybe(EntryRow)]
  BY <1>1, <1>4, Knowing DEF AgentTypeOK
<1>7. e \in EntryIds /\ old \in EntryRow /\ m.move \in Maybe(EntryRow)
  BY <1>1, <1>4, <1>6, EntryTyped DEF SoundAt, AgentLocal
<1>8. a \in Int /\ b \in Int /\ d \in Nat
  <2>1. d \in Nat
    BY <1>2, <1>6, <1>7, GivenNat DEF AgentLocal, EntryRow
  <2>2. old.amount \in Int /\ old.second \in Int
    BY <1>7 DEF EntryRow
  <2>3. m.move # None => m.move.amount \in Int /\ m.move.second \in Int
    BY <1>7 DEF Maybe, EntryRow
  <2> QED BY <1>2, <2>1, <2>2, <2>3
<1>9. /\ s \in EntryRow /\ s # None /\ s.kind = old.kind /\ s.date = d /\ s.amount = a
      /\ s.rate = old.rate /\ s.second = b
  BY <1>3, <1>7, <1>8, NoneIsNoRow DEF EntryRow
<1>10. \A t \in EntryIds : ledgerTx'[t] = IF t = e THEN s ELSE ledgerTx[t]
  BY <1>4, <1>6, <1>7
<1>11. \A t \in EntryIds : Priced(t)' <=> Priced(t)
  BY <1>1, <1>4, <1>9, <1>10 DEF Priced
<1>12. AllRowed'
  BY <1>1, <1>4, <1>5, <1>9, <1>10, <1>11 DEF AllRowed
<1>13. ASSUME Priced(e) PROVE a > 0 /\ old.amount > 0
  <2>1. old.amount > 0 /\ old.amount \in Int
    BY <1>1, <1>5, <1>7, <1>13 DEF AllPaid, EntryRow
  <2>2. m.move # None => m.move.amount > 0
    BY <1>1, <1>5, <1>13 DEF KnowsAt
  <2> QED BY <1>2, <2>1, <2>2
<1>14. AllPaid'
  BY <1>5, <1>9, <1>10, <1>11, <1>13 DEF AllPaid
<1>15. PICK R : R = RatesOf(agentTx)
  OBVIOUS
\* the second amount is taken along at the same rate
<1>16. ASSUME ~disturbed', Priced(e) PROVE FitsRates(R, s)
  <2>1. FitsRates(R, old) /\ d = old.date
    <3>1. AllFit /\ (m.date = None \/ m.date = old.date)
      BY <1>4, <1>5, <1>16
    <3> QED BY <1>1, <1>2, <1>7, <1>15, <1>16, <3>1 DEF AllFit, Given
  <2>2. CASE m.move = None
    BY <1>2, <1>9, <2>1, <2>2 DEF FitsRates
  <2>3. CASE m.move # None
    <3>1. a > 0 /\ a \in Nat /\ m.move = Rescaled(old, a) /\ b = m.move.second
      BY <1>1, <1>2, <1>5, <1>8, <1>13, <1>16, <2>3 DEF KnowsAt
    <3>2. CASE R = {}
      BY <3>2 DEF FitsRates
    <3>3. CASE R # {}
      <4>1. PICK x \in InForce(R, old.date) : old.rate = x.rate /\ old.second = Exchanged(old.amount, x.rate)
        BY <2>1, <3>3 DEF FitsRates, QuotedAt
      <4>2. x.rate \in Nat
        BY <1>6, <1>15, InForceIn, RatesType DEF AgentTypeOK, RateType
      <4>3. PICK y : y = x.rate
        OBVIOUS
      <4>4. b = Exchanged(a, y)
        BY <1>7, <1>13, <1>16, <3>1, <4>1, <4>2, <4>3, RescaledFits
      <4> QED BY <1>9, <2>1, <4>1, <4>3, <4>4 DEF FitsRates, QuotedAt
    <3> QED BY <3>2, <3>3
  <2> QED BY <2>2, <2>3
<1>17. ASSUME ~disturbed' PROVE AllFit'
  <2>1. \A t \in EntryIds : Priced(t)' =>
              (Priced(t) /\ ledgerTx'[t] = ledgerTx[t]) \/ FitsRates(R, ledgerTx'[t])
    BY <1>10, <1>11, <1>16, <1>17
  <2>2. AllFit /\ R = RatesOf(agentTx')
    BY <1>4, <1>5, <1>15, <1>17
  <2> QED BY <1>15, <2>1, <2>2, FitKept
<1>18. CASE Priced(e)
  BY <1>4, <1>12, <1>14, <1>17, <1>18, AloneWritesEnd
<1>19. CASE ~Priced(e)
  <2>1. OthersStay(r) /\ agentPc'[r] = "mirror" /\ agentMem'[r] = m
    BY <1>1, <1>4, <1>6, <1>19 DEF OthersStay, AgentGoto, AgentTypeOK
  <2>2. KnowsAt("mirror", m)'
    BY DEF KnowsAt
  <2> QED BY <1>4, <1>12, <1>14, <1>17, <2>1, <2>2, AloneKept
<1> QED BY <1>18, <1>19

LEMMA EntryMirroredAlone ==
    ASSUME IInv, Lone, ~agentOverlap, NEW r \in Requests, Mirror(r)
    PROVE  Lone'
<1>1. PICK m, rows : m = agentMem[r] /\ rows = TwinsRows(m.entry)
  OBVIOUS
<1>2. /\ agentPc[r] = "mirror" /\ AgentEnd(r) /\ Alone(r)
      /\ agentTx' = [n \in AgentIds |-> IF n \in rows THEN Mirrored(agentTx[n], m) ELSE agentTx[n]]
      /\ disturbed' = (disturbed \/ \E n \in rows :
            agentTx[n].type = "out" /\ m.date \notin {None, agentTx[n].date})
      /\ UNCHANGED <<ledgerTx, touched>> /\ agentOverlap' = agentOverlap
  BY <1>1, GoesOnAlone DEF Mirror, agentTraffic
<1>3. AllRowed /\ AllPaid /\ (~disturbed => AllFit)
  BY <1>1, <1>2, AloneKnows DEF Repricing
<1>4. AgentTypeOK
  BY DEF IInv
<1>5. ASSUME NEW n \in AgentIds, n \in rows
      PROVE  /\ agentTx[n] # None /\ agentTx'[n] # None /\ agentTx'[n].twin = agentTx[n].twin
             /\ agentTx'[n].type = agentTx[n].type /\ agentTx'[n].rate = agentTx[n].rate
             /\ agentTx'[n].date = Given(m.date, agentTx[n].date)
  <2>1. agentTx[n] # None /\ agentTx[n] \in AgentRow
    BY <1>1, <1>4, <1>5, RowTyped DEF TwinsRows
  <2>2. agentTx'[n] = Mirrored(agentTx[n], m)
    BY <1>2, <1>5
  <2>3. PICK d, a : /\ d = Given(m.date, agentTx[n].date)
                    /\ a = IF m.move = None THEN agentTx[n].amount ELSE m.move.amount
    OBVIOUS
  <2>4. agentTx'[n] = [agentTx[n] EXCEPT !.date = d, !.amount = a]
    BY <2>2, <2>3 DEF Mirrored
  <2>5. d \in Nat /\ a \in Int
    <3>1. m.date \in Maybe(Nat) /\ m.move \in Maybe(EntryRow)
      BY <1>1, Knowing DEF AgentLocal
    <3>2. m.move # None => m.move.amount \in Int
      BY <3>1 DEF Maybe, EntryRow
    <3> QED BY <2>1, <2>3, <3>1, <3>2, GivenNat DEF AgentRow
  <2>6. agentTx'[n] \in AgentRow
    BY <2>1, <2>4, <2>5 DEF AgentRow
  <2> QED BY <2>1, <2>3, <2>4, <2>6, NoneIsNoRow DEF AgentRow
<1>6. \A n \in AgentIds : n \notin rows => agentTx'[n] = agentTx[n]
  BY <1>2
<1>7. AllRowed'
  <2>1. \A n \in AgentIds : agentTx[n] # None => agentTx'[n] # None /\ agentTx'[n].twin = agentTx[n].twin
    BY <1>5, <1>6
  <2>2. \A t : Priced(t)' = Priced(t)
    BY <1>2 DEF Priced
  <2> QED BY <1>2, <1>3, <2>1, <2>2 DEF AllRowed
<1>8. AllPaid'
  BY <1>2, <1>3 DEF AllPaid, Priced
<1>9. ASSUME ~disturbed' PROVE AllFit'
  <2>1. ASSUME NEW n \in AgentIds PROVE Alike(agentTx[n], agentTx'[n])
    <3>1. CASE n \in rows
      <4>1. agentTx[n].type = "out" => agentTx'[n].date = agentTx[n].date
        BY <1>2, <1>5, <1>9, <3>1 DEF Given
      <4> QED BY <1>5, <3>1, <4>1 DEF Alike
    <3>2. CASE n \notin rows
      BY <1>6, <3>2 DEF Alike
    <3> QED BY <3>1, <3>2
  <2>2. RatesOf(agentTx) = RatesOf(agentTx')
    BY <2>1, RatesSame
  <2>3. PICK R : R = RatesOf(agentTx)
    OBVIOUS
  <2>4. \A t \in EntryIds : Priced(t)' => Priced(t) /\ ledgerTx'[t] = ledgerTx[t]
    BY <1>2 DEF Priced
  <2>5. AllFit
    BY <1>2, <1>3, <1>9
  <2> QED BY <2>2, <2>3, <2>4, <2>5, FitKept
<1> QED BY <1>2, <1>7, <1>8, <1>9, AloneWritesEnd

\* Rows of an agent go, with no twin but theirs: the twins that stay keep their rows,
\* and the rates stay when no supply goes.
LEMMA RowsGone ==
    ASSUME AgentTypeOK, NEW rows, agentTx' = WithoutRows(rows),
           \A n \in AgentIds \cap rows : agentTx[n] # None => \/ agentTx[n].twin = None
                                                  \/ agentTx[n].twin \in touched'
                                                  \/ ledgerTx'[agentTx[n].twin] = None,
           \A t \in EntryIds : ledgerTx'[t] # None => ledgerTx'[t] = ledgerTx[t],
           touched \subseteq touched'
    PROVE  /\ AllRowed => AllRowed'
           /\ AllPaid => AllPaid'
           /\ (\A n \in AgentIds \cap rows : agentTx[n] # None => agentTx[n].type # "out")
                 /\ AllFit => AllFit'
<1>1. \A n \in AgentIds : agentTx'[n] = IF n \in rows THEN None ELSE agentTx[n]
  BY DEF WithoutRows
<1>2. \A t \in EntryIds : Priced(t)' => Priced(t) /\ ledgerTx'[t] = ledgerTx[t]
  BY DEF Priced
<1>3. ASSUME AllRowed PROVE AllRowed'
  <2> SUFFICES ASSUME NEW t \in EntryIds, ledgerTx'[t] # None, ~Priced(t)', t \notin touched'
               PROVE  \E n \in AgentIds : agentTx'[n] # None /\ agentTx'[n].twin = t
    BY DEF AllRowed
  <2>1. ledgerTx'[t] = ledgerTx[t] /\ ~Priced(t) /\ t \notin touched
    BY DEF Priced
  <2>2. PICK n \in AgentIds : agentTx[n] # None /\ agentTx[n].twin = t
    BY <1>3, <2>1 DEF AllRowed
  <2>3. n \notin rows
    BY <2>2, NoneIsNoRow
  <2> QED BY <1>1, <2>2, <2>3
<1>4. AllPaid => AllPaid'
  BY <1>2 DEF AllPaid
<1>5. ASSUME \A n \in AgentIds \cap rows : agentTx[n] # None => agentTx[n].type # "out", AllFit
      PROVE  AllFit'
  <2>1. \A n \in AgentIds : Alike(agentTx[n], agentTx'[n])
    BY <1>1, <1>5 DEF Alike
  <2>2. RatesOf(agentTx) = RatesOf(agentTx')
    BY <2>1, RatesSame
  <2>3. PICK R : R = RatesOf(agentTx)
    OBVIOUS
  <2> QED BY <1>2, <1>5, <2>2, <2>3, FitKept
<1> QED BY <1>3, <1>4, <1>5

LEMMA EntryRemovedAlone ==
    ASSUME IInv, Lone, ~agentOverlap, NEW t \in EntryIds, RemoveEntry(t)
    PROVE  Lone'
<1>1. PICK rows : rows = TwinsRows(t)
  OBVIOUS
<1>2. /\ MeanwhileOrBetween /\ ledgerTx' = WithoutEntry(t) /\ agentTx' = WithoutRows(rows)
      /\ disturbed' = (disturbed \/ Supplying(rows)) /\ touched' = touched
  BY <1>1 DEF RemoveEntry
<1>3. AgentTypeOK /\ ledgerTx \in [EntryIds -> Maybe(EntryRow)]
  BY DEF IInv, AgentTypeOK
<1>4. \A e \in EntryIds : ledgerTx'[e] = IF e = t THEN None ELSE ledgerTx[e]
  BY <1>2, <1>3 DEF WithoutEntry
<1>5. \A n \in rows : n \in AgentIds /\ agentTx[n].twin = t
  BY <1>1 DEF TwinsRows
<1>6. /\ AllRowed => AllRowed'
      /\ AllPaid => AllPaid'
      /\ (\A n \in AgentIds \cap rows : agentTx[n] # None => agentTx[n].type # "out")
            /\ AllFit => AllFit'
  BY <1>2, <1>3, <1>4, <1>5, RowsGone
<1>7. ~disturbed' => ~disturbed /\ \A n \in AgentIds \cap rows : agentTx[n] # None => agentTx[n].type # "out"
  BY <1>2 DEF Supplying
<1> QED BY <1>2, <1>6, <1>7, IdleKept

LEMMA AgentRemovedAlone ==
    ASSUME IInv, Lone, ~agentOverlap, NEW rows \in SUBSET AgentIds, RemoveAgent(rows)
    PROVE  Lone'
<1>1. /\ MeanwhileOrBetween /\ agentTx' = WithoutRows(rows) /\ ledgerTx' = ledgerTx
      /\ touched' = touched \cup ({agentTx[n].twin : n \in rows} \ {None})
      /\ disturbed' = (disturbed \/ Supplying(rows))
  BY DEF RemoveAgent
<1>2. AgentTypeOK
  BY DEF IInv
<1>3. /\ AllRowed => AllRowed'
      /\ AllPaid => AllPaid'
      /\ (\A n \in AgentIds \cap rows : agentTx[n] # None => agentTx[n].type # "out")
            /\ AllFit => AllFit'
  BY <1>1, <1>2, RowsGone
<1>4. ~disturbed' => ~disturbed /\ \A n \in AgentIds \cap rows : agentTx[n] # None => agentTx[n].type # "out"
  BY <1>1 DEF Supplying
<1> QED BY <1>1, <1>3, <1>4, IdleKept

LEMMA CascadedAlone ==
    ASSUME IInv, Lone, ~agentOverlap, NEW r \in Requests, Cascade(r)
    PROVE  Lone'
<1>1. PICK m : m = agentMem[r]
  OBVIOUS
<1>2. /\ agentPc[r] = "cascade" /\ Alone(r)
      /\ IF m.new.type = "out" THEN AgentGoto(r, "rates") /\ UNCHANGED agentMem ELSE AgentEnd(r)
      /\ UNCHANGED <<touched, disturbed>> /\ agentOverlap' = agentOverlap
  BY <1>1, GoesOnAlone DEF Cascade, agentTraffic
<1>3. AllRowed /\ AllPaid /\ (~disturbed => AllFit) /\ KnowsAt("cascade", m)
  BY <1>1, <1>2, AloneKnows DEF Repricing
<1>4. m \in AgentLocal /\ AgentTypeOK /\ SoundAt("cascade", m) /\ ledgerTx \in [EntryIds -> Maybe(EntryRow)]
  BY <1>1, <1>2, Knowing DEF AgentTypeOK
<1>5. m.row \in AgentIds /\ m.twin \in Maybe(EntryIds) /\ agentTx[m.row] # None
      /\ agentTx[m.row].type = m.new.type /\ agentTx[m.row].twin = m.twin
  BY <1>3, <1>4 DEF KnowsAt, SoundAt, AgentLocal
<1>6. m.twin # None => TwinsRows(m.twin) = {m.row}
  <2>1. DistinctTwins
    BY DEF IInv
  <2> QED BY <1>5, <2>1 DEF TwinsRows, DistinctTwins
<1>7. AllRowed' /\ AllPaid' /\ (m.new.type # "out" /\ AllFit => AllFit')
  <2>1. CASE m.twin # None /\ ledgerTx[m.twin] # None
    <3>1. agentTx' = WithoutRows({m.row}) /\ ledgerTx' = WithoutEntry(m.twin)
      BY <1>1, <1>6, <2>1 DEF Cascade
    <3>2. m.twin \in EntryIds
      BY <1>5, <2>1 DEF Maybe
    <3>3. \A e \in EntryIds : ledgerTx'[e] = IF e = m.twin THEN None ELSE ledgerTx[e]
      BY <1>4, <3>1 DEF WithoutEntry
    <3>4. /\ AllRowed => AllRowed'
          /\ AllPaid => AllPaid'
          /\ (\A n \in AgentIds \cap {m.row} : agentTx[n] # None => agentTx[n].type # "out")
                /\ AllFit => AllFit'
      BY <1>2, <1>4, <1>5, <3>1, <3>2, <3>3, RowsGone
    <3> QED BY <1>3, <1>5, <3>4
  <2>2. CASE m.twin # None /\ ledgerTx[m.twin] = None
    <3>1. UNCHANGED <<agentTx, ledgerTx, touched>>
      BY <1>1, <1>2, <2>2 DEF Cascade
    <3> QED BY <1>3, <3>1, TablesStay
  <2>3. CASE m.twin = None
    <3>1. agentTx' = WithoutRows({m.row}) /\ ledgerTx' = ledgerTx
      BY <1>1, <2>3 DEF Cascade
    <3>2. /\ AllRowed => AllRowed'
          /\ AllPaid => AllPaid'
          /\ (\A n \in AgentIds \cap {m.row} : agentTx[n] # None => agentTx[n].type # "out")
                /\ AllFit => AllFit'
      BY <1>2, <1>4, <1>5, <2>3, <3>1, RowsGone
    <3> QED BY <1>3, <1>5, <3>2
  <2> QED BY <2>1, <2>2, <2>3
<1>8. CASE m.new.type = "out"
  <2>1. OthersStay(r) /\ agentPc'[r] = "rates" /\ agentMem'[r] = m
    BY <1>1, <1>2, <1>4, <1>8 DEF OthersStay, AgentGoto, AgentTypeOK
  <2>2. KnowsAt("rates", m)'
    BY DEF KnowsAt
  <2> QED BY <1>2, <1>7, <2>1, <2>2, AloneKept DEF Repricing
<1>9. CASE m.new.type # "out"
  BY <1>2, <1>3, <1>7, <1>9, AloneWritesEnd
<1> QED BY <1>8, <1>9

LEMMA RowWrittenAlone ==
    ASSUME IInv, Lone, ~agentOverlap, NEW r \in Requests, WriteAgentTx(r)
    PROVE  Lone'
<1>1. PICK m, w : /\ m = agentMem[r]
                  /\ w = IF m.creates THEN m.new
                         ELSE [m.new EXCEPT !.twin = IF m.fresh THEN m.twin ELSE agentTx[m.row].twin]
  OBVIOUS
<1>2. /\ agentPc[r] = "write" /\ Writable(m) /\ AgentEnd(r) /\ Alone(r)
      /\ agentTx' = [agentTx EXCEPT ![m.row] = w]
      /\ ledgerTx' = [t \in EntryIds |->
            IF t = m.twin THEN TwinOf(m.new)
            ELSE IF \E p \in m.plan : p.entry = t
                 THEN Quoted(t, CHOOSE p \in m.plan : p.entry = t)
                 ELSE ledgerTx[t]]
      /\ touched' = touched \ {m.twin} /\ disturbed' = (disturbed /\ m.new.type # "out")
      /\ agentOverlap' = agentOverlap
  BY <1>1, GoesOnAlone DEF WriteAgentTx, agentTraffic
<1>3. AllRowed /\ AllPaid /\ (~disturbed => AllFit) /\ KnowsAt("write", m)
  BY <1>1, <1>2, AloneKnows DEF Repricing
<1>4. m \in AgentLocal /\ AgentTypeOK /\ SoundAt("write", m) /\ agentTx \in [AgentIds -> Maybe(AgentRow)]
  BY <1>1, <1>2, Knowing DEF AgentTypeOK
<1>5. /\ m.row \in AgentIds /\ m.new \in AgentRow /\ m.twin \in Maybe(EntryIds)
      /\ m.creates => m.fresh /\ m.new.twin = m.twin /\ agentTx[m.row] = None
      /\ ~m.creates => agentTx[m.row] # None /\ agentTx[m.row].type = m.new.type
                         /\ agentTx[m.row].twin = IF m.fresh THEN None ELSE m.twin
      /\ m.rates \in SUBSET RateType /\ m.plan \in SUBSET QuoteType
  BY <1>2, <1>4 DEF SoundAt, AgentLocal, MakingAt, Writable
\* the row that is written
<1>6. w # None /\ w.twin = m.twin /\ w.type = m.new.type /\ w.date = m.new.date /\ w.rate = m.new.rate
  <2>1. CASE m.creates
    BY <1>1, <1>5, <2>1, NoneIsNoRow
  <2>2. CASE ~m.creates
    <3>1. w = [m.new EXCEPT !.twin = m.twin]
      BY <1>1, <1>5, <2>2
    <3>2. w \in AgentRow
      BY <1>5, <3>1 DEF AgentRow
    <3> QED BY <1>5, <3>1, <3>2, NoneIsNoRow DEF AgentRow
  <2> QED BY <2>1, <2>2
<1>7. \A n \in AgentIds : agentTx'[n] = IF n = m.row THEN w ELSE agentTx[n]
  BY <1>2, <1>4
<1>8. m.new.type = "out" => m.rates = RatesOf(agentTx') /\ m.plan = Quotes(m.rates)
  <2>1. PICK g : g = [agentTx EXCEPT ![m.row] = m.new]
    OBVIOUS
  <2>2. \A n \in AgentIds : g[n] = IF n = m.row THEN m.new ELSE agentTx[n]
    BY <1>4, <2>1
  <2>3. \A n \in AgentIds : Alike(g[n], agentTx'[n])
    BY <1>5, <1>6, <1>7, <2>2, NoneIsNoRow DEF Alike
  <2>4. RatesOf(g) = RatesOf(agentTx')
    BY <2>3, RatesSame
  <2> QED BY <1>3, <2>1, <2>4 DEF KnowsAt, RatesWith
<1>9. m.new.type # "out" => m.plan = {} /\ RatesOf(agentTx) = RatesOf(agentTx')
  <2>1. ASSUME m.new.type # "out" PROVE \A n \in AgentIds : Alike(agentTx[n], agentTx'[n])
    BY <1>5, <1>6, <1>7, <2>1 DEF Alike
  <2> QED BY <1>3, <2>1, RatesSame DEF KnowsAt
\* the entries that are written
<1>10. ASSUME NEW t \in EntryIds
       PROVE  \/ t = m.twin /\ ledgerTx'[t] = TwinOf(m.new)
              \/ /\ t # m.twin /\ m.new.type = "out"
                 /\ \E p \in m.plan : p.entry = t /\ ledgerTx'[t] = Quoted(t, p)
              \/ t # m.twin /\ ledgerTx'[t] = ledgerTx[t] /\ ~\E p \in m.plan : p.entry = t
  <2>1. CASE t = m.twin
    BY <1>2, <2>1
  <2>2. CASE t # m.twin /\ \E p \in m.plan : p.entry = t
    <3>1. PICK p : p = CHOOSE u \in m.plan : u.entry = t
      OBVIOUS
    <3>2. p \in m.plan /\ p.entry = t
      BY <2>2, <3>1
    <3>3. ledgerTx'[t] = Quoted(t, p)
      BY <1>2, <2>2, <3>1
    <3> QED BY <1>9, <2>2, <3>2, <3>3
  <2>3. CASE t # m.twin /\ ~\E p \in m.plan : p.entry = t
    BY <1>2, <2>3
  <2> QED BY <2>1, <2>2, <2>3
<1>11. ~Priced(m.twin)' \/ m.twin = None
  <2>1. ASSUME m.twin # None PROVE ~Priced(m.twin)'
    <3>1. ledgerTx'[m.twin] = TwinOf(m.new)
      BY <1>5, <1>10, <2>1 DEF Maybe
    <3>2. TwinOf(m.new).kind \in Types
      BY <1>5 DEF TwinOf, AgentRow, Types
    <3> QED BY <3>1, <3>2 DEF Priced, Types
  <2> QED BY <2>1
\* a quote fits, and changes neither date nor amount
<1>12. ASSUME NEW p \in m.plan, m.new.type = "out"
       PROVE  /\ p.entry \in EntryIds /\ Priced(p.entry)
              /\ Quoted(p.entry, p) # None /\ Quoted(p.entry, p).kind = ledgerTx[p.entry].kind
              /\ Quoted(p.entry, p).amount = ledgerTx[p.entry].amount
              /\ FitsRates(m.rates, Quoted(p.entry, p))
  <2>1. GoodQuote(m.rates, p) /\ p.entry \in EntryIds /\ Priced(p.entry)
    BY <1>4, <1>5, <1>8, <1>12, QuotesFit
  <2>2. ledgerTx[p.entry] \in EntryRow
    BY <1>4, <2>1, EntryTyped DEF Priced
  <2>3. PICK s : s = Quoted(p.entry, p)
    OBVIOUS
  <2>4. s \in EntryRow
    BY <1>4, <1>5, <2>1, <2>3, QuotedType DEF Priced
  <2>5. /\ s.kind = ledgerTx[p.entry].kind /\ s.date = ledgerTx[p.entry].date
        /\ s.amount = ledgerTx[p.entry].amount /\ s.rate = p.rate /\ s.second = p.second
    BY <2>2, <2>3 DEF Quoted, EntryRow
  <2>6. FitsRates(m.rates, s)
    BY <2>1, <2>5 DEF GoodQuote, FitsRates
  <2> QED BY <2>1, <2>3, <2>4, <2>5, <2>6, NoneIsNoRow
<1>13. ASSUME NEW t \in EntryIds, Priced(t)'
       PROVE  /\ Priced(t) /\ ledgerTx'[t].amount = ledgerTx[t].amount
              /\ m.new.type = "out" => FitsRates(m.rates, ledgerTx'[t])
              /\ m.new.type # "out" => ledgerTx'[t] = ledgerTx[t]
  <2>1. t # m.twin
    BY <1>11, <1>13, NoneIsNoRow
  <2>2. CASE m.new.type = "out" /\ \E p \in m.plan : p.entry = t /\ ledgerTx'[t] = Quoted(t, p)
    BY <1>12, <2>2
  <2>3. CASE ledgerTx'[t] = ledgerTx[t] /\ ~\E p \in m.plan : p.entry = t
    <3>1. Priced(t)
      BY <1>13, <2>3 DEF Priced
    <3>2. m.new.type = "out" => m.rates = {}
      BY <1>4, <1>5, <1>8, <2>3, <3>1, QuotesFit
    <3> QED BY <2>3, <3>1, <3>2 DEF FitsRates
  <2> QED BY <1>10, <2>1, <2>2, <2>3
<1>14. AllPaid'
  BY <1>3, <1>13 DEF AllPaid
<1>15. AllRowed'
  <2> SUFFICES ASSUME NEW t \in EntryIds, ledgerTx'[t] # None, ~Priced(t)', t \notin touched'
               PROVE  \E n \in AgentIds : agentTx'[n] # None /\ agentTx'[n].twin = t
    BY DEF AllRowed
  <2>1. CASE t = m.twin
    BY <1>5, <1>6, <1>7, <2>1
  <2>2. CASE t # m.twin
    <3>1. ledgerTx[t] # None /\ ~Priced(t) /\ t \notin touched
      <4>1. ledgerTx'[t] = ledgerTx[t]
        BY <1>10, <1>12, <2>2 DEF Priced
      <4> QED BY <1>2, <2>2, <4>1 DEF Priced
    <3>2. PICK n \in AgentIds : agentTx[n] # None /\ agentTx[n].twin = t
      BY <1>3, <3>1 DEF AllRowed
    <3>3. n # m.row
      BY <1>5, <2>2, <3>2, NoneIsNoRow
    <3> QED BY <1>7, <3>2, <3>3
  <2> QED BY <2>1, <2>2
<1>16. ASSUME ~disturbed' PROVE AllFit'
  <2>1. CASE m.new.type = "out"
    BY <1>8, <1>13, <2>1 DEF AllFit
  <2>2. CASE m.new.type # "out"
    <3>1. AllFit
      BY <1>2, <1>3, <1>16, <2>2
    <3>2. PICK R : R = RatesOf(agentTx)
      OBVIOUS
    <3> QED BY <1>9, <1>13, <2>2, <3>1, <3>2, FitKept
  <2> QED BY <2>1, <2>2
<1> QED BY <1>2, <1>14, <1>15, <1>16, AloneWritesEnd

-----------------------------------------------------------------------------

LEMMA LoneInit == AgentInit => Lone
<1> SUFFICES ASSUME AgentInit PROVE Lone
  OBVIOUS
<1>1. /\ \A t \in EntryIds : ledgerTx[t] = None
      /\ \A r \in Requests : agentPc[r] = "idle"
  BY DEF AgentInit
<1>2. \A r \in Requests : KnowsAt(agentPc[r], agentMem[r])
  BY <1>1 DEF KnowsAt
<1> QED BY <1>1, <1>2 DEF Lone, AllRowed, AllPaid, AllFit, Priced

LEMMA LoneStep ==
    ASSUME IInv, Lone, [AgentNext]_agentVars
    PROVE  Lone'
<1>1. CASE UNCHANGED agentVars
  <2>1. UNCHANGED <<agentTx, ledgerTx, touched, disturbed, agentPc, agentMem, agentOverlap>>
    BY <1>1 DEF agentVars, agentTraffic
  <2>2. \A r \in Requests : KnowsAt(agentPc[r], agentMem[r])' = KnowsAt(agentPc[r], agentMem[r])
    <3> SUFFICES ASSUME NEW r \in Requests
                 PROVE  KnowsAt(agentPc[r], agentMem[r])' = KnowsAt(agentPc[r], agentMem[r])
      OBVIOUS
    <3>1. PICK l, m : l = agentPc[r] /\ m = agentMem[r]
      OBVIOUS
    <3>2. agentPc'[r] = l /\ agentMem'[r] = m
      BY <2>1, <3>1
    <3>3. KnowsAt(l, m)' = KnowsAt(l, m)
      BY <2>1, TablesStay
    <3> QED BY <3>1, <3>2, <3>3
  <2>3. AllRowed' = AllRowed /\ AllPaid' = AllPaid /\ AllFit' = AllFit
    BY <2>1, TablesStay
  <2> QED BY <2>1, <2>2, <2>3 DEF Lone
<1>2. CASE agentOverlap
  <2>1. agentOverlap' = agentOverlap
    <3>1. ASSUME NEW r \in Requests, BeginAgent(r) PROVE agentOverlap' = agentOverlap
      BY <3>1 DEF BeginAgent, RejectAgent, BeginSupply, BeginDelete, BeginEdit, BeginMove, BeginPayment,
                  BeginEntryEdit, EnterAgent, agentVars, agentTraffic
    <3>2. ASSUME NEW r \in Requests, StepAgent(r) PROVE agentOverlap' = agentOverlap
      <4>1. CASE EditRow(r) \/ ReadPriced(r) \/ WriteAgentTx(r) \/ Cascade(r)
        BY <4>1 DEF EditRow, ReadPriced, WriteAgentTx, Cascade, agentTraffic
      <4>2. CASE ReadRates(r) \/ AllPriced(r) \/ \E p \in agentMem[r].plan : PriceRow(r, p)
        BY <4>2 DEF ReadRates, AllPriced, PriceRow, agentTraffic
      <4>3. CASE PostMove(r) \/ WritePayment(r) \/ WriteEntry(r) \/ Mirror(r) \/ StopAgent(r)
        BY <4>3 DEF PostMove, WritePayment, WriteEntry, Mirror, StopAgent, agentTraffic
      <4> QED BY <3>2, <4>1, <4>2, <4>3 DEF StepAgent
    <3>3. MeanwhileOrBetween => agentOverlap' = agentOverlap
      BY DEF MeanwhileOrBetween, agentTraffic
    <3>4. CASE AgentNext
      BY <3>1, <3>2, <3>3, <3>4 DEF AgentNext, AddMoney, RemoveEntry, RemoveAgent
    <3>5. CASE UNCHANGED agentVars
      BY <3>5 DEF agentVars, agentTraffic
    <3> QED BY <3>4, <3>5
  <2> QED BY <1>2, <2>1 DEF Lone
<1>3. CASE ~agentOverlap /\ AgentNext
  <2>1. ASSUME NEW r \in Requests, BeginAgent(r) PROVE Lone'
    BY <1>1, <1>3, <2>1, SupplyAlone, EditAlone, DeleteAlone, MoveAlone, PaymentAlone, EntryEditAlone
       DEF BeginAgent, RejectAgent
  <2>2. ASSUME NEW r \in Requests, StepAgent(r) PROVE Lone'
    BY <1>3, <2>2, RowEditedAlone, PricedReadAlone, RowWrittenAlone, CascadedAlone, RatesReadAlone,
       AllPricedAlone, RowPricedAlone, MovePostedAlone, PaymentWrittenAlone, EntryWrittenAlone,
       EntryMirroredAlone, StoppedAlone DEF StepAgent
  <2> QED BY <1>3, <2>1, <2>2, MoneyAddedAlone, EntryRemovedAlone, AgentRemovedAlone DEF AgentNext
<1> QED BY <1>1, <1>2, <1>3

LEMMA LoneRowsKept == IInv /\ Lone => AgentRowsKept
<1> SUFFICES ASSUME IInv, Lone PROVE AgentRowsKept
  OBVIOUS
<1>1. TwinsHaveRows
  BY DEF TwinsHaveRows, CalmAgents, Lone, AllRowed
<1>2. PricesCurrent
  <2> SUFFICES ASSUME CalmAgents, ~disturbed, NEW t \in EntryIds, Priced(t), RatesOf(agentTx) # {}
               PROVE  \E x \in RatesOf(agentTx) :
                        /\ ledgerTx[t].rate = x.rate
                        /\ ledgerTx[t].second = Exchanged(ledgerTx[t].amount, x.rate)
                        /\ \A y \in RatesOf(agentTx) :
                              IF x.date <= ledgerTx[t].date THEN y.date <= ledgerTx[t].date => NotAfter(y, x)
                                                            ELSE NotAfter(x, y)
    BY Zenon DEF PricesCurrent
  <2>1. AllFit
    BY DEF CalmAgents, AgentsIdle, Lone, Repricing
  <2>2. PICK R, d : R = RatesOf(agentTx) /\ d = ledgerTx[t].date
    OBVIOUS
  <2>3. PICK x \in InForce(R, d) : ledgerTx[t].rate = x.rate
                                     /\ ledgerTx[t].second = Exchanged(ledgerTx[t].amount, x.rate)
    BY <2>1, <2>2 DEF AllFit, FitsRates, QuotedAt
  <2>4. /\ x \in R
        /\ \A y \in R : IF x.date <= d THEN y.date <= d => NotAfter(y, x) ELSE NotAfter(x, y)
    BY <2>3, InForceMeans
  <2> QED BY <2>2, <2>3, <2>4
<1> QED BY <1>1, <1>2 DEF AgentRowsKept

\* Of requests that come one at a time: every twin that stays in the money log has
\* its row, and whatever supplies, edits and deletions came, each priced row has
\* the rate in force at its date and the amount it makes (agent-rate.ts,
\* repriceAgentRows; forex.repository.ts, deleteAgentTx), for any dates, rates and
\* amounts.
THEOREM AgentRowsAlwaysKept == AgentSpec => []AgentRowsKept
<1>1. AgentInit => IInv /\ Lone
  BY InvInit, LoneInit
<1>2. IInv /\ Lone /\ [AgentNext]_agentVars => (IInv /\ Lone)'
  BY InvStep, LoneStep
<1>3. IInv /\ Lone => AgentRowsKept
  BY LoneRowsKept
<1> QED BY <1>1, <1>2, <1>3, PTL DEF AgentSpec

-----------------------------------------------------------------------------
(* Loans.  Every write of the counters comes from one reading of the loan, *)
(* in which they were within it; what was lent never changes while the     *)
(* loan exists, so the reading, however old, is good enough.               *)

WithinRow(o) == o.goods + o.cash <= o.qty

\* The loan l was given out, and while it exists it is the loan that was read.
Reads(l, o) ==
    /\ l \in Loans /\ l \in opened
    /\ o # None
    /\ Lent(l) => loan[l].qty = o.qty

Returning(r) ==
    loanPc[r] \in {"pay", "record", "count"} =>
        /\ loanMem[r].id \in Ids
        /\ Reads(loanMem[r].loan, loanMem[r].old)
        /\ loanMem[r].old.goods + loanMem[r].old.cash + loanMem[r].qty <= loanMem[r].old.qty

RollingBack(r) ==
    loanPc[r] = "cascade" /\ loanMem[r].old # None =>
        Reads(loanMem[r].of, loanMem[r].old) /\ WithinRow(loanMem[r].old)

LoanKnows(r) == Returning(r) /\ RollingBack(r)

OnlyOpened == \A l \in Loans : Lent(l) => l \in opened

LoanIInv == LoanTypeOK /\ OnlyOpened /\ CountersWithinLoan /\ \A r \in Requests : LoanKnows(r)

-----------------------------------------------------------------------------
LEMMA LoanNotNone ==
    None \notin LoanRow /\ None \notin [loan : Loans, kind : {"goods", "money"}, qty : Nat]
<1>1. LoanRow \subseteq [qty : Nat, goods : Int, cash : Int, status : {"OPEN", "RETURNED"}]
  BY DEF LoanRow
<1> QED BY <1>1, LoanAssumption

LEMMA LoanBlankType == LoanBlank \in LoanLocal
  BY DEF LoanBlank, LoanLocal

LEMMA LoanLocalTypes ==
  ASSUME NEW m \in LoanLocal
  PROVE  /\ \A u \in Ids : [m EXCEPT !.todo = @ \ {u}] \in LoanLocal
         /\ \A u \in Ids : [m EXCEPT !.id = u, !.old = None] \in LoanLocal
         /\ \A u \in Ids, o \in LoanRow, l \in Loans, q \in Nat :
                [m EXCEPT !.id = u, !.old = o, !.of = l, !.qty = q] \in LoanLocal
  BY DEF LoanLocal

LEMMA ReturnType ==
  ASSUME NEW l \in Loans, NEW o \in LoanRow, NEW kind \in {"goods", "money"},
         NEW q \in Nat, NEW u \in Ids
  PROVE  [LoanBlank EXCEPT !.loan = l, !.old = o, !.kind = kind, !.qty = q, !.id = u] \in LoanLocal
  BY LoanBlankType DEF LoanLocal

LEMMA CleanType ==
  ASSUME NEW l \in Loans, NEW S \in SUBSET Ids
  PROVE  /\ [LoanBlank EXCEPT !.loan = l, !.todo = S] \in LoanLocal
         /\ [LoanBlank EXCEPT !.todo = S] \in LoanLocal
  BY LoanBlankType DEF LoanLocal

\* What a return and a roll-back make of the row of a loan.
LEMMA CountedRow ==
  ASSUME NEW row \in LoanRow, NEW m \in LoanLocal, m.old \in LoanRow,
         m.old.goods + m.old.cash + m.qty <= m.old.qty, row.qty = m.old.qty
  PROVE  /\ Counted(row, m) \in LoanRow
         /\ Counted(row, m).qty = row.qty
         /\ WithinRow(Counted(row, m))
<1>1. /\ m.old.goods \in Nat /\ m.old.cash \in Nat /\ m.qty \in Nat /\ m.old.qty \in Nat
      /\ m.kind \in {"goods", "money"}
  BY DEF LoanRow, LoanLocal
<1> DEFINE goods == m.old.goods + (IF m.kind = "goods" THEN m.qty ELSE 0)
<1> DEFINE cash == m.old.cash + (IF m.kind = "money" THEN m.qty ELSE 0)
<1> DEFINE status == IF goods + cash >= m.old.qty THEN "RETURNED" ELSE row.status
<1>2. goods \in Nat /\ cash \in Nat /\ goods + cash <= m.old.qty
  BY <1>1
<1>3. status \in {"OPEN", "RETURNED"}
  BY DEF LoanRow
<1>4. Counted(row, m) = [row EXCEPT !.goods = goods, !.cash = cash, !.status = status]
  BY DEF Counted
<1> HIDE DEF goods, cash, status
<1>5. Counted(row, m) = [qty |-> row.qty, goods |-> goods, cash |-> cash, status |-> status]
  BY <1>4 DEF LoanRow
<1> QED BY <1>2, <1>3, <1>5 DEF LoanRow, WithinRow

LEMMA RolledBackRow ==
  ASSUME NEW row \in LoanRow, NEW o \in LoanRow, NEW q \in Nat, WithinRow(o), row.qty = o.qty
  PROVE  /\ RolledBack(row, o, q) \in LoanRow
         /\ RolledBack(row, o, q).qty = row.qty
         /\ WithinRow(RolledBack(row, o, q))
<1> DEFINE cash == AtLeastZero(o.cash - q)
<1>1. o.goods \in Nat /\ o.cash \in Nat /\ o.qty \in Nat
  BY DEF LoanRow
<1>2. cash \in Nat /\ cash <= o.cash
  BY <1>1 DEF AtLeastZero
<1>3. RolledBack(row, o, q) = [row EXCEPT !.goods = o.goods, !.cash = cash, !.status = "OPEN"]
  BY DEF RolledBack
<1> HIDE DEF cash
<1>4. RolledBack(row, o, q) =
        [qty |-> row.qty, goods |-> o.goods, cash |-> cash, status |-> "OPEN"]
  BY <1>3 DEF LoanRow
<1>5. o.goods + cash <= o.qty
  BY <1>1, <1>2 DEF WithinRow
<1> QED BY <1>1, <1>2, <1>4, <1>5 DEF LoanRow, WithinRow

-----------------------------------------------------------------------------
(* What a step leaves of the knowledge of a request.                       *)

\* A loan that was given out is either gone or has the quantity it had.
LoanStable ==
    /\ opened \subseteq opened'
    /\ \A l \in opened : Lent(l)' => Lent(l) /\ loan'[l].qty = loan[l].qty

LEMMA LoanKnowsStays ==
  ASSUME LoanTypeOK, LoanStable, NEW q \in Requests, LoanKnows(q),
         loanPc'[q] = loanPc[q], loanMem'[q] = loanMem[q]
  PROVE  LoanKnows(q)'
<1>1. \A l, o : Reads(l, o) => Reads(l, o)'
  BY DEF LoanStable, Reads, Lent
<1>2. Returning(q)'
  BY <1>1 DEF LoanKnows, Returning
<1>3. RollingBack(q)'
  BY <1>1 DEF LoanKnows, RollingBack
<1> QED BY <1>2, <1>3 DEF LoanKnows

LEMMA LoanQuietStable == ASSUME UNCHANGED <<loan, opened>> PROVE LoanStable
  BY DEF LoanStable, Lent

\* A request that is idle, or cleans up, knows nothing that could be wrong.
LEMMA LoanKnowsIdle == ASSUME NEW q \in Requests, loanPc'[q] \in {"idle", "clean"} PROVE LoanKnows(q)'
  BY DEF LoanKnows, Returning, RollingBack

LEMMA OtherLoansStay ==
  ASSUME LoanIInv, LoanStable, NEW r \in Requests,
         \A q \in Requests \ {r} : loanPc'[q] = loanPc[q] /\ loanMem'[q] = loanMem[q],
         LoanKnows(r)'
  PROVE  \A q \in Requests : LoanKnows(q)'
<1>1. ASSUME NEW q \in Requests \ {r} PROVE LoanKnows(q)'
  BY <1>1, LoanKnowsStays DEF LoanIInv
<1> QED BY <1>1

LEMMA LoanQuietStep ==
  ASSUME LoanIInv, LoanTypeOK', UNCHANGED <<loan, opened>>, \A q \in Requests : LoanKnows(q)'
  PROVE  LoanIInv'
  BY DEF LoanIInv, OnlyOpened, CountersWithinLoan, Lent

LEMMA LoanEndStep ==
  ASSUME LoanIInv, NEW r \in Requests, LoanEnd(r),
         UNCHANGED <<loan, opened, ret, money, used, loanOverlap>>,
         loanCuts' \in Nat
  PROVE  LoanIInv'
<1>1. LoanTypeOK'
  BY LoanBlankType DEF LoanIInv, LoanTypeOK, LoanEnd, LoanGoto, LoanRemember, loanTraffic
<1>2. /\ loanPc'[r] = "idle"
      /\ \A q \in Requests \ {r} : loanPc'[q] = loanPc[q] /\ loanMem'[q] = loanMem[q]
  BY DEF LoanIInv, LoanTypeOK, LoanEnd, LoanGoto, LoanRemember
<1>3. \A q \in Requests : LoanKnows(q)'
  BY <1>2, LoanKnowsIdle, LoanQuietStable, OtherLoansStay
<1> QED BY <1>1, <1>3, LoanQuietStep

-----------------------------------------------------------------------------
(* The steps.                                                              *)

LEMMA LoanCreateStep ==
  ASSUME LoanIInv, NEW l \in Loans, NEW q \in Quantities, CreateLoan(l, q)
  PROVE  LoanIInv'
<1> DEFINE row == [qty |-> q, goods |-> 0, cash |-> 0, status |-> "OPEN"]
<1>1. /\ l \notin opened /\ opened' = opened \cup {l} /\ loan' = [loan EXCEPT ![l] = row]
      /\ UNCHANGED <<ret, money, used, loanPc, loanMem, loanTraffic>>
  BY DEF CreateLoan
<1>2. row \in LoanRow /\ WithinRow(row)
  BY LoanAssumption DEF LoanRow, WithinRow
<1>3. loan'[l] = row /\ \A k \in Loans : k # l => loan'[k] = loan[k]
  BY <1>1 DEF LoanIInv, LoanTypeOK
<1> HIDE DEF row
<1>4. LoanTypeOK'
  BY <1>1, <1>2 DEF LoanIInv, LoanTypeOK, loanTraffic
<1>5. LoanStable
  BY <1>1, <1>3 DEF LoanIInv, LoanTypeOK, LoanStable, Lent
<1>6. ASSUME NEW r \in Requests PROVE LoanKnows(r)'
  BY <1>1, <1>5, LoanKnowsStays DEF LoanIInv
<1>7. OnlyOpened' /\ CountersWithinLoan'
  BY <1>1, <1>2, <1>3 DEF LoanIInv, OnlyOpened, CountersWithinLoan, WithinRow, Lent
<1> QED BY <1>4, <1>6, <1>7 DEF LoanIInv

LEMMA BeginReturnStep ==
  ASSUME LoanIInv, NEW r \in Requests, NEW l \in Loans, NEW kind \in {"goods", "money"},
         NEW q \in Quantities, BeginReturn(r, l, kind, q)
  PROVE  LoanIInv'
<1>1. PICK u \in Ids \ used :
        /\ used' = used \cup {u}
        /\ LoanRemember(r, [LoanBlank EXCEPT !.loan = l, !.old = loan[l], !.kind = kind,
                                     !.qty = q, !.id = u])
  BY DEF BeginReturn
<1> DEFINE m == [LoanBlank EXCEPT !.loan = l, !.old = loan[l], !.kind = kind, !.qty = q, !.id = u]
<1>2. /\ loanPc[r] = "idle" /\ Lent(l) /\ q <= loan[l].qty - loan[l].goods - loan[l].cash
      /\ LoanGoto(r, IF kind = "money" THEN "pay" ELSE "record")
      /\ UNCHANGED <<loan, opened, ret, money, loanTraffic>>
  BY DEF BeginReturn, MayBeginLoan, Open, Remaining
<1>3. loan[l] \in LoanRow /\ q \in Nat
  BY <1>2, LoanAssumption DEF LoanIInv, LoanTypeOK, Lent
<1>4. m \in LoanLocal
  BY <1>3, ReturnType
<1>5. LoanTypeOK'
  BY <1>1, <1>2, <1>4 DEF LoanIInv, LoanTypeOK, LoanGoto, LoanRemember, loanTraffic
<1>6. /\ loanMem'[r] = m /\ loanPc'[r] \in {"pay", "record"}
      /\ \A p \in Requests \ {r} : loanPc'[p] = loanPc[p] /\ loanMem'[p] = loanMem[p]
  BY <1>1, <1>2 DEF LoanIInv, LoanTypeOK, LoanGoto, LoanRemember
<1>7. m.loan = l /\ m.old = loan[l] /\ m.qty = q /\ m.id = u
  BY DEF LoanBlank
<1>8. loan[l].goods + loan[l].cash + q <= loan[l].qty
  BY <1>2, <1>3 DEF LoanRow
<1>9. Reads(l, loan[l])'
  BY <1>2, <1>3, LoanNotNone DEF LoanIInv, OnlyOpened, Reads, Lent
<1>10. LoanKnows(r)'
  <2> HIDE DEF m
  <2>1. Returning(r)'
    BY <1>2, <1>6, <1>7, <1>8, <1>9 DEF Returning, Reads, Lent
  <2> QED BY <1>6, <2>1 DEF LoanKnows, RollingBack
<1>11. \A p \in Requests : LoanKnows(p)'
  BY <1>2, <1>6, <1>10, LoanQuietStable, OtherLoansStay
<1> QED BY <1>2, <1>5, <1>11, LoanQuietStep

LEMMA PayStep ==
  ASSUME LoanIInv, NEW r \in Requests, PayReturn(r)
  PROVE  LoanIInv'
<1>1. /\ loanPc[r] = "pay" /\ loanPc'[r] = "record"
      /\ UNCHANGED <<loan, opened, ret, used, loanMem>>
      /\ \A q \in Requests \ {r} : loanPc'[q] = loanPc[q]
  BY DEF LoanIInv, LoanTypeOK, PayReturn, LoanGoto
<1>2. loanMem[r].id \in Ids
  BY <1>1 DEF LoanIInv, LoanKnows, Returning
<1>3. LoanTypeOK'
  BY <1>2 DEF LoanIInv, LoanTypeOK, PayReturn, LoanGoto, loanTraffic
<1>4. Returning(r)
  BY DEF LoanIInv, LoanKnows
<1>5. LoanKnows(r)'
  BY <1>1, <1>4 DEF LoanKnows, Returning, RollingBack, Reads, Lent
<1>6. \A q \in Requests : LoanKnows(q)'
  BY <1>1, <1>5, LoanQuietStable, OtherLoansStay
<1> QED BY <1>1, <1>3, <1>6, LoanQuietStep

LEMMA RecordStep ==
  ASSUME LoanIInv, NEW r \in Requests, RecordReturn(r)
  PROVE  LoanIInv'
<1>1. /\ loanPc[r] = "record" /\ loanPc'[r] = "count" /\ Lent(loanMem[r].loan)
      /\ ret' = [ret EXCEPT ![loanMem[r].id] =
                    [loan |-> loanMem[r].loan, kind |-> loanMem[r].kind, qty |-> loanMem[r].qty]]
      /\ UNCHANGED <<loan, opened, money, used, loanMem>>
      /\ \A q \in Requests \ {r} : loanPc'[q] = loanPc[q]
  BY DEF LoanIInv, LoanTypeOK, RecordReturn, LoanGoto
<1>2. loanMem[r].loan \in Loans /\ Returning(r)
  BY <1>1 DEF LoanIInv, LoanKnows, Returning, Reads
<1>3. [loan |-> loanMem[r].loan, kind |-> loanMem[r].kind, qty |-> loanMem[r].qty]
        \in [loan : Loans, kind : {"goods", "money"}, qty : Nat]
  BY <1>2 DEF LoanIInv, LoanTypeOK, LoanLocal
<1>4. LoanTypeOK'
  BY <1>1, <1>3 DEF LoanIInv, LoanTypeOK, RecordReturn, LoanGoto, loanTraffic
<1>5. LoanKnows(r)'
  BY <1>1, <1>2 DEF LoanKnows, Returning, RollingBack, Reads, Lent
<1>6. \A q \in Requests : LoanKnows(q)'
  BY <1>1, <1>5, LoanQuietStable, OtherLoansStay
<1> QED BY <1>1, <1>4, <1>6, LoanQuietStep

LEMMA CountStep ==
  ASSUME LoanIInv, NEW r \in Requests, CountReturn(r)
  PROVE  LoanIInv'
<1> DEFINE m == loanMem[r]
<1> DEFINE row == Counted(loan[m.loan], m)
<1>1. /\ loanPc[r] = "count" /\ Lent(m.loan) /\ loan' = [loan EXCEPT ![m.loan] = row]
      /\ loanPc'[r] = "idle"
      /\ UNCHANGED <<opened, ret, money, used>>
      /\ \A q \in Requests \ {r} : loanPc'[q] = loanPc[q] /\ loanMem'[q] = loanMem[q]
  BY DEF LoanIInv, LoanTypeOK, CountReturn, LoanEnd, LoanGoto, LoanRemember
<1>2. /\ m.loan \in Loans /\ m.old # None /\ loan[m.loan].qty = m.old.qty
      /\ m.old.goods + m.old.cash + m.qty <= m.old.qty
  BY <1>1 DEF LoanIInv, LoanKnows, Returning, Reads
<1>3. loan[m.loan] \in LoanRow /\ m \in LoanLocal /\ m.old \in LoanRow
  BY <1>1, <1>2 DEF LoanIInv, LoanTypeOK, LoanLocal, Lent
<1>4. row \in LoanRow /\ row.qty = loan[m.loan].qty /\ WithinRow(row)
  BY <1>2, <1>3, CountedRow
<1> HIDE DEF row
<1>5. loan'[m.loan] = row /\ \A l \in Loans : l # m.loan => loan'[l] = loan[l]
  BY <1>1, <1>2 DEF LoanIInv, LoanTypeOK
<1>6. LoanTypeOK'
  BY <1>1, <1>4, LoanBlankType DEF LoanIInv, LoanTypeOK, CountReturn, LoanEnd, LoanGoto, LoanRemember,
     loanTraffic
<1>7. LoanStable
  BY <1>1, <1>2, <1>4, <1>5 DEF LoanIInv, LoanTypeOK, LoanStable, Lent
<1>8. \A q \in Requests : LoanKnows(q)'
  BY <1>1, <1>7, LoanKnowsIdle, OtherLoansStay
<1>9. OnlyOpened' /\ CountersWithinLoan'
  BY <1>1, <1>2, <1>4, <1>5 DEF LoanIInv, OnlyOpened, CountersWithinLoan, WithinRow, Lent
<1> QED BY <1>6, <1>8, <1>9 DEF LoanIInv

LEMMA BeginRemoveStep ==
  ASSUME LoanIInv, NEW r \in Requests, NEW l \in Loans, BeginRemove(r, l)
  PROVE  LoanIInv'
<1>1. [LoanBlank EXCEPT !.loan = l, !.todo = Paid(l)] \in LoanLocal
  BY CleanType DEF Paid
<1>2. LoanTypeOK'
  BY <1>1 DEF LoanIInv, LoanTypeOK, BeginRemove, LoanGoto, LoanRemember, loanTraffic
<1>3. /\ loanPc'[r] = "clean" /\ UNCHANGED <<loan, opened>>
      /\ \A q \in Requests \ {r} : loanPc'[q] = loanPc[q] /\ loanMem'[q] = loanMem[q]
  BY DEF LoanIInv, LoanTypeOK, BeginRemove, LoanGoto, LoanRemember
<1>4. \A q \in Requests : LoanKnows(q)'
  BY <1>3, LoanKnowsIdle, LoanQuietStable, OtherLoansStay
<1> QED BY <1>2, <1>3, <1>4, LoanQuietStep

LEMMA BeginDeleteStep ==
  ASSUME LoanIInv, NEW r \in Requests, NEW u \in Ids, BeginDeleteMoney(r, u)
  PROVE  LoanIInv'
<1>1. [LoanBlank EXCEPT !.todo = {u}] \in LoanLocal
  BY LoanBlankType DEF LoanLocal
<1>2. LoanTypeOK'
  BY <1>1 DEF LoanIInv, LoanTypeOK, BeginDeleteMoney, LoanGoto, LoanRemember, loanTraffic
<1>3. /\ loanPc'[r] = "clean" /\ UNCHANGED <<loan, opened>>
      /\ \A q \in Requests \ {r} : loanPc'[q] = loanPc[q] /\ loanMem'[q] = loanMem[q]
  BY DEF LoanIInv, LoanTypeOK, BeginDeleteMoney, LoanGoto, LoanRemember
<1>4. \A q \in Requests : LoanKnows(q)'
  BY <1>3, LoanKnowsIdle, LoanQuietStable, OtherLoansStay
<1> QED BY <1>2, <1>3, <1>4, LoanQuietStep

LEMMA CascadeReadStep ==
  ASSUME LoanIInv, NEW r \in Requests, NEW u \in Ids, CascadeRead(r, u)
  PROVE  LoanIInv'
<1>0. loanMem[r] \in LoanLocal
  BY DEF LoanIInv, LoanTypeOK
<1>1. UNCHANGED <<loan, opened, ret, money, used>> /\ loanPc[r] = "clean"
  BY DEF CascadeRead
<1>2. CASE u \notin money
  <2>1. [loanMem[r] EXCEPT !.todo = @ \ {u}] \in LoanLocal
    BY <1>0, LoanLocalTypes
  <2>2. LoanTypeOK'
    BY <1>2, <2>1 DEF LoanIInv, LoanTypeOK, CascadeRead, LoanRemember, loanTraffic
  <2>3. /\ loanPc'[r] = "clean"
        /\ \A q \in Requests \ {r} : loanPc'[q] = loanPc[q] /\ loanMem'[q] = loanMem[q]
    BY <1>1, <1>2 DEF LoanIInv, LoanTypeOK, CascadeRead, LoanRemember
  <2>4. \A q \in Requests : LoanKnows(q)'
    BY <1>1, <2>3, LoanKnowsIdle, LoanQuietStable, OtherLoansStay
  <2> QED BY <1>1, <2>2, <2>4, LoanQuietStep
<1>3. CASE u \in money /\ Found(u) = None
  <2>1. [loanMem[r] EXCEPT !.id = u, !.old = None] \in LoanLocal
    BY <1>0, LoanLocalTypes
  <2>2. LoanTypeOK'
    BY <1>3, <2>1 DEF LoanIInv, LoanTypeOK, CascadeRead, LoanGoto, LoanRemember, loanTraffic
  <2>3. /\ loanPc'[r] = "cascade" /\ loanMem'[r] = [loanMem[r] EXCEPT !.id = u, !.old = None]
        /\ \A q \in Requests \ {r} : loanPc'[q] = loanPc[q] /\ loanMem'[q] = loanMem[q]
    BY <1>3 DEF LoanIInv, LoanTypeOK, CascadeRead, LoanGoto, LoanRemember
  <2>4. loanMem'[r].old = None
    BY <1>0, <2>3 DEF LoanLocal
  <2>5. LoanKnows(r)'
    BY <2>3, <2>4 DEF LoanKnows, Returning, RollingBack
  <2>6. \A q \in Requests : LoanKnows(q)'
    BY <1>1, <2>3, <2>5, LoanQuietStable, OtherLoansStay
  <2> QED BY <1>1, <2>2, <2>6, LoanQuietStep
<1>4. CASE u \in money /\ Found(u) # None
  <2> DEFINE l == ret[u].loan
  <2> DEFINE m == [loanMem[r] EXCEPT !.id = u, !.old = Found(u), !.of = l, !.qty = ret[u].qty]
  <2>1. ret[u] # None /\ Found(u) = loan[l]
    BY <1>4 DEF Found
  <2>2. l \in Loans /\ ret[u].qty \in Nat
    BY <2>1 DEF LoanIInv, LoanTypeOK
  <2>3. loan[l] \in LoanRow /\ Lent(l)
    BY <1>4, <2>1, <2>2 DEF LoanIInv, LoanTypeOK, Lent
  <2>4. m \in LoanLocal
    BY <1>0, <2>1, <2>2, <2>3, LoanLocalTypes
  <2>5. /\ loanPc'[r] = "cascade" /\ loanMem'[r] = m
        /\ \A q \in Requests \ {r} : loanPc'[q] = loanPc[q] /\ loanMem'[q] = loanMem[q]
    BY <1>4 DEF LoanIInv, LoanTypeOK, CascadeRead, LoanGoto, LoanRemember
  <2>6. m.of = l /\ m.old = loan[l]
    BY <1>0, <2>1 DEF LoanLocal
  <2>7. LoanTypeOK'
    BY <1>4, <2>4 DEF LoanIInv, LoanTypeOK, CascadeRead, LoanGoto, LoanRemember, loanTraffic
  <2>8. Reads(l, loan[l]) /\ WithinRow(loan[l])
    BY <1>4, <2>1, <2>2, <2>3 DEF LoanIInv, OnlyOpened, CountersWithinLoan, Reads, WithinRow
  <2> HIDE DEF m, l
  <2>9. LoanKnows(r)'
    BY <1>1, <2>5, <2>6, <2>8 DEF LoanKnows, Returning, RollingBack, Reads, Lent
  <2>10. \A q \in Requests : LoanKnows(q)'
    BY <1>1, <2>5, <2>9, LoanQuietStable, OtherLoansStay
  <2> QED BY <1>1, <2>7, <2>10, LoanQuietStep
<1> QED BY <1>2, <1>3, <1>4

LEMMA CascadeWriteStep ==
  ASSUME LoanIInv, NEW r \in Requests, CascadeWrite(r)
  PROVE  LoanIInv'
<1> DEFINE m == loanMem[r]
<1>1. m \in LoanLocal /\ loanPc[r] = "cascade"
  BY DEF LoanIInv, LoanTypeOK, CascadeWrite
<1>2. [m EXCEPT !.todo = @ \ {m.id}] \in LoanLocal
  BY <1>1 DEF LoanLocal
<1>3. /\ loanPc'[r] = "clean" /\ opened' = opened
      /\ \A q \in Requests \ {r} : loanPc'[q] = loanPc[q] /\ loanMem'[q] = loanMem[q]
  BY DEF LoanIInv, LoanTypeOK, CascadeWrite, LoanGoto, LoanRemember
<1>4. /\ loanPc' \in [Requests -> {"idle", "pay", "record", "count", "clean", "cascade"}]
      /\ loanMem' \in [Requests -> LoanLocal]
      /\ opened' \subseteq Loans /\ money' \subseteq Ids /\ used' \subseteq Ids
      /\ loanOverlap' \in BOOLEAN /\ loanCuts' \in Nat
  BY <1>2 DEF LoanIInv, LoanTypeOK, CascadeWrite, LoanGoto, LoanRemember, loanTraffic
<1>5. CASE m.old = None
  <2>1. UNCHANGED <<loan, opened, ret>>
    BY <1>3, <1>5 DEF CascadeWrite
  <2>2. LoanTypeOK'
    BY <1>4, <2>1 DEF LoanIInv, LoanTypeOK
  <2>3. \A q \in Requests : LoanKnows(q)'
    BY <1>3, <2>1, LoanKnowsIdle, LoanQuietStable, OtherLoansStay
  <2> QED BY <2>1, <2>2, <2>3, LoanQuietStep
<1>6. CASE m.old # None
  <2> DEFINE row == RolledBack(loan[m.of], m.old, m.qty)
  <2>1. /\ Lent(m.of) /\ ret' = [ret EXCEPT ![m.id] = None]
        /\ loan' = [loan EXCEPT ![m.of] = row]
    BY <1>6 DEF CascadeWrite
  <2>2. /\ m.of \in Loans /\ loan[m.of].qty = m.old.qty /\ WithinRow(m.old)
    BY <1>1, <1>6, <2>1 DEF LoanIInv, LoanKnows, RollingBack, Reads
  <2>3. loan[m.of] \in LoanRow /\ m.old \in LoanRow /\ m.qty \in Nat
    BY <1>1, <1>6, <2>1, <2>2 DEF LoanIInv, LoanTypeOK, LoanLocal, Lent
  <2>4. row \in LoanRow /\ row.qty = loan[m.of].qty /\ WithinRow(row)
    BY <2>2, <2>3, RolledBackRow
  <2> HIDE DEF row
  <2>5. loan'[m.of] = row /\ \A l \in Loans : l # m.of => loan'[l] = loan[l]
    BY <2>1, <2>2 DEF LoanIInv, LoanTypeOK
  <2>6. LoanTypeOK'
    BY <1>4, <2>1, <2>4 DEF LoanIInv, LoanTypeOK
  <2>7. LoanStable
    BY <1>3, <2>1, <2>2, <2>4, <2>5 DEF LoanIInv, LoanTypeOK, LoanStable, Lent
  <2>8. \A q \in Requests : LoanKnows(q)'
    BY <1>3, <2>7, LoanKnowsIdle, OtherLoansStay
  <2>9. OnlyOpened' /\ CountersWithinLoan'
    BY <1>3, <2>1, <2>2, <2>4, <2>5 DEF LoanIInv, OnlyOpened, CountersWithinLoan, WithinRow, Lent
  <2> QED BY <2>6, <2>8, <2>9 DEF LoanIInv
<1> QED BY <1>5, <1>6

LEMMA DeleteStep ==
  ASSUME LoanIInv, NEW r \in Requests, DeleteLoan(r)
  PROVE  LoanIInv'
<1> DEFINE l == loanMem[r].loan
<1>1. /\ loanPc'[r] = "idle" /\ opened' = opened
      /\ \A q \in Requests \ {r} : loanPc'[q] = loanPc[q] /\ loanMem'[q] = loanMem[q]
  BY DEF LoanIInv, LoanTypeOK, DeleteLoan, LoanEnd, LoanGoto, LoanRemember
<1>2. CASE l = None
  <2>1. LoanEnd(r) /\ UNCHANGED <<loan, opened, ret, money, used, loanOverlap, loanCuts>>
    BY <1>2 DEF DeleteLoan, loanTraffic
  <2>2. loanCuts' \in Nat
    BY <2>1 DEF LoanIInv, LoanTypeOK
  <2> QED BY <2>1, <2>2, LoanEndStep
<1>3. CASE l # None
  <2>1. loan' = [loan EXCEPT ![l] = None] /\ l \in Loans
    BY <1>3 DEF LoanIInv, LoanTypeOK, LoanLocal, DeleteLoan
  <2>2. loan'[l] = None /\ \A k \in Loans : k # l => loan'[k] = loan[k]
    BY <2>1 DEF LoanIInv, LoanTypeOK
  <2>3. LoanTypeOK'
    BY <1>3, LoanBlankType DEF LoanIInv, LoanTypeOK, DeleteLoan, LoanEnd, LoanGoto, LoanRemember,
       loanTraffic
  <2>4. LoanStable
    BY <1>1, <2>1, <2>2 DEF LoanIInv, LoanTypeOK, LoanStable, Lent
  <2>5. \A q \in Requests : LoanKnows(q)'
    BY <1>1, <2>4, LoanKnowsIdle, OtherLoansStay
  <2>6. OnlyOpened' /\ CountersWithinLoan'
    BY <1>1, <2>2 DEF LoanIInv, OnlyOpened, CountersWithinLoan, Lent
  <2> QED BY <2>3, <2>5, <2>6 DEF LoanIInv
<1> QED BY <1>2, <1>3

LEMMA LoanInitInv == LoanInit => LoanIInv
<1> SUFFICES ASSUME LoanInit PROVE LoanIInv
  OBVIOUS
<1>1. LoanTypeOK
  BY LoanBlankType DEF LoanInit, LoanTypeOK
<1> QED BY <1>1 DEF LoanInit, LoanIInv, OnlyOpened, CountersWithinLoan, LoanKnows, Returning,
            RollingBack, Lent

LEMMA LoanNextInv == LoanIInv /\ [LoanNext]_loanVars => LoanIInv'
<1> SUFFICES ASSUME LoanIInv, [LoanNext]_loanVars PROVE LoanIInv'
  OBVIOUS
<1>1. ASSUME NEW l \in Loans, NEW q \in Quantities, CreateLoan(l, q) PROVE LoanIInv'
  BY <1>1, LoanCreateStep
<1>2. ASSUME NEW r \in Requests, NEW l \in Loans, BeginRemove(r, l) PROVE LoanIInv'
  BY <1>2, BeginRemoveStep
<1>3. ASSUME NEW r \in Requests, NEW l \in Loans, NEW kind \in {"goods", "money"},
             NEW q \in Quantities, BeginReturn(r, l, kind, q)
      PROVE LoanIInv'
  BY <1>3, BeginReturnStep
<1>4. ASSUME NEW r \in Requests, NEW u \in Ids, BeginDeleteMoney(r, u) PROVE LoanIInv'
  BY <1>4, BeginDeleteStep
<1>5. ASSUME NEW r \in Requests, PayReturn(r) PROVE LoanIInv'
  BY <1>5, PayStep
<1>6. ASSUME NEW r \in Requests, RecordReturn(r) PROVE LoanIInv'
  BY <1>6, RecordStep
<1>7. ASSUME NEW r \in Requests, CountReturn(r) PROVE LoanIInv'
  BY <1>7, CountStep
<1>8. ASSUME NEW r \in Requests, NEW u \in Ids, CascadeRead(r, u) PROVE LoanIInv'
  BY <1>8, CascadeReadStep
<1>9. ASSUME NEW r \in Requests, CascadeWrite(r) PROVE LoanIInv'
  BY <1>9, CascadeWriteStep
<1>10. ASSUME NEW r \in Requests, DeleteLoan(r) PROVE LoanIInv'
  BY <1>10, DeleteStep
<1>11. ASSUME NEW r \in Requests, LoanRefuse(r) PROVE LoanIInv'
  <2>1. UNCHANGED <<loanOverlap, loanCuts>>
    BY <1>11 DEF LoanRefuse, loanTraffic
  <2> QED BY <1>11, <2>1, LoanEndStep DEF LoanRefuse, LoanIInv, LoanTypeOK
<1>12. ASSUME NEW r \in Requests, LoanCutOff(r) PROVE LoanIInv'
  <2>1. loanCuts' \in Nat
    BY <1>12 DEF LoanIInv, LoanTypeOK, LoanCutOff
  <2> QED BY <1>12, <2>1, LoanEndStep DEF LoanCutOff
<1>13. CASE UNCHANGED loanVars
  <2>1. LoanTypeOK'
    BY <1>13 DEF LoanIInv, LoanTypeOK, loanVars, loanTraffic
  <2>2. ASSUME NEW q \in Requests PROVE LoanKnows(q)'
    BY <1>13, LoanKnowsStays, LoanQuietStable DEF LoanIInv, loanVars
  <2> QED BY <1>13, <2>1, <2>2, LoanQuietStep DEF loanVars
<1>14. ASSUME NEW r \in Requests, NEW l \in Loans, LoanReject(r, l) PROVE LoanIInv'
  BY <1>13, <1>14 DEF LoanReject
<1> QED
  BY <1>1, <1>2, <1>3, <1>4, <1>5, <1>6, <1>7, <1>8, <1>9, <1>10, <1>11, <1>12, <1>13, <1>14
     DEF LoanNext, LoanBegin, LoanStep

\* The inductive invariant holds in every state the program reaches.
THEOREM LoanInvariance == LoanSpec => []LoanIInv
  BY LoanInitInv, LoanNextInv, PTL DEF LoanSpec

\* Types, for any loans, requests and quantities: no counter goes below zero.
THEOREM LoanTypeCorrect == LoanSpec => []LoanTypeOK
<1>1. LoanIInv => LoanTypeOK
  BY DEF LoanIInv
<1> QED BY <1>1, LoanInvariance, PTL

\* The counters of a loan never exceed what was lent, whatever returns,
\* deletions, removals and crashes loanOverlap.
THEOREM NeverOvercounted == LoanSpec => []CountersWithinLoan
<1>1. LoanIInv => CountersWithinLoan
  BY DEF LoanIInv
<1> QED BY <1>1, LoanInvariance, PTL

-----------------------------------------------------------------------------
(* What the returns of a loan come to.                                     *)

ReturnRow == [loan : Loans, kind : {"goods", "money"}, qty : Nat]

BackIn(rows, l, kind) == {u \in Ids : rows[u] # None /\ rows[u].loan = l /\ rows[u].kind = kind}
BackOf(rows, l, kind) == QuantityOf(rows, BackIn(rows, l, kind))

LEMMA ReturnedIs == \A l, kind : Returned(l, kind) = BackOf(ret, l, kind)
  BY DEF Returned, ReturnsOf, BackIn, BackOf

LEMMA QuantityIsTotal ==
  ASSUME NEW rows, NEW S, IsFiniteSet(S)
  PROVE  \E f : (\A y \in S : f[y] = rows[y].qty) /\ QuantityOf(rows, S) = TotalOf(f, S)
<1>1. PICK f : f = [y \in S |-> rows[y].qty]
  OBVIOUS
<1>2. PICK h : Sums(h, f, SUBSET S) /\ TotalOf(f, S) = h[S]
  BY SumIs
<1>3. \A s \in SUBSET S : s # {} => f[Pick(s)] = rows[Pick(s)].qty
  BY <1>1, PickIn
<1>4. h = [s \in SUBSET S |-> IF s = {} THEN 0 ELSE rows[Pick(s)].qty + h[s \ {Pick(s)}]]
  BY <1>2, <1>3 DEF Sums
<1> DEFINE g == CHOOSE k :
        k = [s \in SUBSET S |-> IF s = {} THEN 0 ELSE rows[Pick(s)].qty + k[s \ {Pick(s)}]]
<1>5. g = [s \in SUBSET S |-> IF s = {} THEN 0 ELSE rows[Pick(s)].qty + g[s \ {Pick(s)}]]
  BY <1>4
<1>6. QuantityOf(rows, S) = g[S]
  BY DEF QuantityOf, MapThenSumSet, MapThenFoldSet, Pick
<1> HIDE DEF g
<1>7. Sums(g, f, SUBSET S)
  BY <1>3, <1>5 DEF Sums
<1>8. g[S] = h[S]
  <2>1. S \in SUBSET (S \cap S) /\ \A x \in S : f[x] = f[x]
    OBVIOUS
  <2> QED BY <1>2, <1>7, <2>1, SumsSame
<1> QED BY <1>1, <1>2, <1>6, <1>8

LEMMA QuantitySame ==
  ASSUME NEW rows, NEW others, NEW R, IsFiniteSet(R), \A y \in R : rows[y] = others[y]
  PROVE  QuantityOf(rows, R) = QuantityOf(others, R)
<1>1. PICK f : (\A y \in R : f[y] = rows[y].qty) /\ QuantityOf(rows, R) = TotalOf(f, R)
  BY QuantityIsTotal
<1>2. PICK e : (\A y \in R : e[y] = others[y].qty) /\ QuantityOf(others, R) = TotalOf(e, R)
  BY QuantityIsTotal
<1>3. TotalOf(f, R) = TotalOf(e, R)
  BY <1>1, <1>2, SumSame
<1> QED BY <1>1, <1>2, <1>3

LEMMA QuantityType ==
  ASSUME NEW rows, NEW S, IsFiniteSet(S), \A y \in S : rows[y].qty \in Nat
  PROVE  QuantityOf(rows, S) \in Nat
<1>1. PICK f : (\A y \in S : f[y] = rows[y].qty) /\ QuantityOf(rows, S) = TotalOf(f, S)
  BY QuantityIsTotal
<1>2. TotalOf(f, S) \in Nat
  BY <1>1, SumType
<1> QED BY <1>1, <1>2

LEMMA QuantityEmpty == \A rows : QuantityOf(rows, {}) = 0
<1> SUFFICES ASSUME NEW rows PROVE QuantityOf(rows, {}) = 0
  OBVIOUS
<1>1. PICK f : QuantityOf(rows, {}) = TotalOf(f, {})
  BY FS_EmptySet, QuantityIsTotal
<1> QED BY <1>1, SumEmpty

LEMMA QuantityLess ==
  ASSUME NEW rows, NEW S, IsFiniteSet(S), \A y \in S : rows[y].qty \in Nat, NEW x \in S
  PROVE  QuantityOf(rows, S) = rows[x].qty + QuantityOf(rows, S \ {x})
<1>1. PICK f : (\A y \in S : f[y] = rows[y].qty) /\ QuantityOf(rows, S) = TotalOf(f, S)
  BY QuantityIsTotal
<1>2. PICK T : T = S \ {x}
  OBVIOUS
<1>3. IsFiniteSet(T) /\ T \subseteq S
  BY <1>2, OneLess
<1>4. PICK e : (\A y \in T : e[y] = rows[y].qty) /\ QuantityOf(rows, T) = TotalOf(e, T)
  BY <1>3, QuantityIsTotal
<1>5. TotalOf(e, T) = TotalOf(f, T)
  <2>1. \A y \in T : e[y] = f[y]
    BY <1>1, <1>3, <1>4
  <2> QED BY <1>3, <2>1, SumSame
<1>6. TotalOf(f, S) = f[x] + TotalOf(f, T)
  <2>1. \A y \in S : f[y] \in Int
    BY <1>1
  <2> QED BY <1>2, <2>1, SumAdds
<1>7. f[x] = rows[x].qty
  BY <1>1
<1> QED BY <1>1, <1>2, <1>4, <1>5, <1>6, <1>7

LEMMA BackType ==
  ASSUME NEW rows \in [Ids -> ReturnRow \cup {None}], IsFiniteSet({u \in Ids : rows[u] # None}),
         NEW l, NEW kind
  PROVE  /\ IsFiniteSet(BackIn(rows, l, kind))
         /\ \A u \in BackIn(rows, l, kind) : rows[u].qty \in Nat
         /\ BackOf(rows, l, kind) \in Nat
<1>1. BackIn(rows, l, kind) \subseteq {u \in Ids : rows[u] # None}
  BY DEF BackIn
<1>2. IsFiniteSet(BackIn(rows, l, kind))
  BY <1>1, FS_Subset
<1>3. \A u \in BackIn(rows, l, kind) : rows[u].qty \in Nat
  BY DEF BackIn, ReturnRow
<1>4. BackOf(rows, l, kind) \in Nat
  BY <1>2, <1>3, QuantityType DEF BackOf
<1> QED BY <1>2, <1>3, <1>4

\* One return less, of one loan and kind; every other sum is what it was.
LEMMA BackLess ==
  ASSUME NEW a \in [Ids -> ReturnRow \cup {None}], NEW b \in [Ids -> ReturnRow \cup {None}],
         IsFiniteSet({v \in Ids : b[v] # None}), NEW u \in Ids, b[u] # None,
         a[u] = None, \A v \in Ids \ {u} : a[v] = b[v]
  PROVE  /\ BackOf(b, b[u].loan, b[u].kind) = b[u].qty + BackOf(a, b[u].loan, b[u].kind)
         /\ \A l, kind : l # b[u].loan \/ kind # b[u].kind => BackOf(b, l, kind) = BackOf(a, l, kind)
<1>1. a[u] = None /\ \A v \in Ids : v # u => a[v] = b[v]
  OBVIOUS
<1>2. \A l, kind : BackIn(a, l, kind) = BackIn(b, l, kind) \ {u}
  BY <1>1 DEF BackIn
<1>3. \A l, kind : QuantityOf(a, BackIn(a, l, kind)) = QuantityOf(b, BackIn(b, l, kind) \ {u})
  <2> SUFFICES ASSUME NEW l, NEW kind
      PROVE QuantityOf(a, BackIn(a, l, kind)) = QuantityOf(b, BackIn(b, l, kind) \ {u})
    OBVIOUS
  <2>1. PICK S : S = BackIn(a, l, kind)
    OBVIOUS
  <2>2. IsFiniteSet(S)
    <3>1. S \subseteq BackIn(b, l, kind)
      BY <1>2, <2>1
    <3> QED BY <3>1, BackType, FS_Subset
  <2>3. \A v \in S : a[v] = b[v]
    <3>1. \A v \in S : v \in Ids /\ a[v] # None
      BY <2>1 DEF BackIn
    <3> QED BY <1>1, <3>1
  <2>4. QuantityOf(a, S) = QuantityOf(b, S)
    BY <2>2, <2>3, QuantitySame
  <2> QED BY <1>2, <2>1, <2>4
<1>4. BackOf(b, b[u].loan, b[u].kind) = b[u].qty + BackOf(a, b[u].loan, b[u].kind)
  <2>1. PICK S : S = BackIn(b, b[u].loan, b[u].kind)
    OBVIOUS
  <2>2. IsFiniteSet(S) /\ \A v \in S : b[v].qty \in Nat
    BY <2>1, BackType
  <2>3. u \in S
    BY <2>1 DEF BackIn
  <2>4. QuantityOf(b, S) = b[u].qty + QuantityOf(b, S \ {u})
    BY <2>2, <2>3, QuantityLess
  <2> QED BY <1>3, <2>1, <2>4 DEF BackOf
<1>5. ASSUME NEW l, NEW kind, l # b[u].loan \/ kind # b[u].kind
      PROVE  BackOf(b, l, kind) = BackOf(a, l, kind)
  <2>1. BackIn(b, l, kind) \ {u} = BackIn(b, l, kind)
    BY <1>5 DEF BackIn
  <2> QED BY <1>3, <2>1 DEF BackOf
<1> QED BY <1>4, <1>5

\* The returns of a loan say nothing about those of another.
LEMMA BackOfOthers ==
  ASSUME NEW a \in [Ids -> ReturnRow \cup {None}], NEW b \in [Ids -> ReturnRow \cup {None}],
         IsFiniteSet({v \in Ids : b[v] # None}), NEW l, NEW kind,
         \A u \in Ids : a[u] = b[u] \/ (a[u] = None /\ b[u].loan # l)
  PROVE  BackOf(a, l, kind) = BackOf(b, l, kind)
<1>1. PICK S : S = BackIn(b, l, kind)
  OBVIOUS
<1>2. BackIn(a, l, kind) = S
  BY <1>1 DEF BackIn
<1>3. IsFiniteSet(S)
  BY <1>1, BackType
<1>4. \A v \in S : a[v] = b[v]
  BY <1>1 DEF BackIn
<1>5. QuantityOf(a, S) = QuantityOf(b, S)
  BY <1>3, <1>4, QuantitySame
<1> QED BY <1>1, <1>2, <1>5 DEF BackOf

-----------------------------------------------------------------------------
(* Requests one at a time: loans, returns and money tell one story.        *)

\* What is recorded is of a loan that is there, and paid if it came as money.
ReturnRows ==
    /\ IsFiniteSet(used) /\ money \subseteq used
    /\ \A u \in Ids : ret[u] # None =>
        /\ u \in used /\ Lent(ret[u].loan) /\ ret[u].qty # 0
        /\ ret[u].kind = "money" <=> u \in money

\* Alone, what a request has read is what is there.
ReturnCarried(r) ==
    loanPc[r] \in {"pay", "record", "count"} =>
        /\ loanMem[r].id \in used /\ Lent(loanMem[r].loan)
        /\ loanMem[r].old = loan[loanMem[r].loan]
        /\ loanMem[r].old.status = "OPEN" /\ loanMem[r].qty # 0
ReturnAt(r) ==
    /\ loanPc[r] = "pay" => ret[loanMem[r].id] = None /\ loanMem[r].kind = "money"
    /\ loanPc[r] = "record" =>
        ret[loanMem[r].id] = None /\ (loanMem[r].kind = "money" <=> loanMem[r].id \in money)
    /\ loanPc[r] = "count" =>
        ret[loanMem[r].id] =
            [loan |-> loanMem[r].loan, kind |-> loanMem[r].kind, qty |-> loanMem[r].qty]
CascadeCarried(r) ==
    loanPc[r] = "cascade" =>
        /\ loanMem[r].id \in money
        /\ loanMem[r].old = None => ret[loanMem[r].id] = None
        /\ loanMem[r].old # None =>
            /\ ret[loanMem[r].id] # None
            /\ loanMem[r].of = ret[loanMem[r].id].loan /\ loanMem[r].qty = ret[loanMem[r].id].qty
            /\ loanMem[r].old = loan[loanMem[r].of]
RemovalCarried(r) ==
    loanPc[r] \in {"clean", "cascade"} /\ loanMem[r].loan # None =>
        Lent(loanMem[r].loan) /\ Paid(loanMem[r].loan) \subseteq loanMem[r].todo
Carries(r) == ReturnCarried(r) /\ ReturnAt(r) /\ CascadeCarried(r) /\ RemovalCarried(r)

OneLoanRequest == \A p, q \in Requests : loanPc[p] # "idle" /\ loanPc[q] # "idle" => p = q

\* The row o of the loan l counts no more than the returns, or exactly them.
LoanFits(o, l, rows, cut) ==
    /\ o.goods <= BackOf(rows, l, "goods") /\ o.cash <= BackOf(rows, l, "money")
    /\ cut = 0 =>
        /\ o.goods = BackOf(rows, l, "goods") /\ o.cash = BackOf(rows, l, "money")
        /\ o.status = "RETURNED" <=> o.goods + o.cash = o.qty

\* A return that is recorded and not yet counted is counted ahead.
CountsFor(r, l) == loanPc[r] = "count" /\ loanMem[r].loan = l
FitAhead(l) ==
    \A r \in Requests : CountsFor(r, l) => LoanFits(Counted(loan[l], loanMem[r]), l, ret, loanCuts)
FitNow(l) == (\A r \in Requests : ~CountsFor(r, l)) => LoanFits(loan[l], l, ret, loanCuts)
LoansFit == \A l \in Loans : Lent(l) => FitAhead(l) /\ FitNow(l)

MoneyKept ==
    loanCuts = 0 => \A u \in money :
        ret[u] # None \/ \E r \in Requests : loanPc[r] = "record" /\ loanMem[r].id = u

LoanSerial ==
    OneLoanRequest /\ ReturnRows /\ (\A r \in Requests : Carries(r)) /\ LoansFit /\ MoneyKept

-----------------------------------------------------------------------------
LEMMA RowsBack ==
  ASSUME LoanTypeOK, ReturnRows
  PROVE  ret \in [Ids -> ReturnRow \cup {None}] /\ IsFiniteSet({v \in Ids : ret[v] # None})
<1>1. {v \in Ids : ret[v] # None} \subseteq used
  BY DEF ReturnRows
<1> QED BY <1>1, FS_Subset DEF LoanTypeOK, ReturnRow, ReturnRows

LEMMA FitsCut ==
  ASSUME NEW o, NEW l, NEW rows, NEW cut, LoanFits(o, l, rows, cut), NEW more, more # 0
  PROVE  LoanFits(o, l, rows, more)
  BY DEF LoanFits

LEMMA FitsCounted ==
  ASSUME NEW a \in [Ids -> ReturnRow \cup {None}], NEW b \in [Ids -> ReturnRow \cup {None}],
         IsFiniteSet({v \in Ids : b[v] # None}), IsFiniteSet({v \in Ids : a[v] # None}),
         NEW u \in Ids, a[u] = None, \A v \in Ids \ {u} : a[v] = b[v],
         NEW m \in LoanLocal, b[u] = [loan |-> m.loan, kind |-> m.kind, qty |-> m.qty], b[u] # None,
         m.old \in LoanRow, m.old.status = "OPEN",
         m.old.goods + m.old.cash + m.qty <= m.old.qty, m.qty # 0,
         NEW cut, LoanFits(m.old, m.loan, a, cut)
  PROVE  LoanFits(Counted(m.old, m), m.loan, b, cut)
<1> DEFINE o == m.old
<1> DEFINE goods == o.goods + (IF m.kind = "goods" THEN m.qty ELSE 0)
           cash == o.cash + (IF m.kind = "money" THEN m.qty ELSE 0)
           c == Counted(o, m)
<1>1. /\ o.goods \in Nat /\ o.cash \in Nat /\ m.qty \in Nat /\ o.qty \in Nat
      /\ m.kind \in {"goods", "money"}
  BY DEF LoanRow, LoanLocal
<1>2. /\ BackOf(b, m.loan, m.kind) = m.qty + BackOf(a, m.loan, m.kind)
      /\ \A kind : kind # m.kind => BackOf(b, m.loan, kind) = BackOf(a, m.loan, kind)
  BY BackLess
<1>3. \A kind : BackOf(a, m.loan, kind) \in Nat /\ BackOf(b, m.loan, kind) \in Nat
  BY BackType
<1>4. /\ c.goods = goods /\ c.cash = cash /\ c.qty = o.qty
      /\ c.status = IF goods + cash >= o.qty THEN "RETURNED" ELSE "OPEN"
  BY DEF Counted, LoanRow
<1>5. goods \in Nat /\ cash \in Nat /\ goods + cash = o.goods + o.cash + m.qty
  BY <1>1
<1>6. CASE m.kind = "goods"
  <2>1. /\ BackOf(b, m.loan, "goods") = m.qty + BackOf(a, m.loan, "goods")
        /\ BackOf(b, m.loan, "money") = BackOf(a, m.loan, "money")
    BY <1>2, <1>6
  <2>2. goods = o.goods + m.qty /\ cash = o.cash
    BY <1>1, <1>6
  <2> HIDE DEF goods, cash, c, o
  <2>3. goods + cash <= o.qty
    BY <1>5 DEF o
  <2> QED BY <1>1, <1>3, <1>4, <1>5, <2>1, <2>2, <2>3 DEF LoanFits, o, c
<1>7. CASE m.kind = "money"
  <2>1. /\ BackOf(b, m.loan, "money") = m.qty + BackOf(a, m.loan, "money")
        /\ BackOf(b, m.loan, "goods") = BackOf(a, m.loan, "goods")
    BY <1>2, <1>7
  <2>2. cash = o.cash + m.qty /\ goods = o.goods
    BY <1>1, <1>7
  <2> HIDE DEF goods, cash, c, o
  <2>3. goods + cash <= o.qty
    BY <1>5 DEF o
  <2> QED BY <1>1, <1>3, <1>4, <1>5, <2>1, <2>2, <2>3 DEF LoanFits, o, c
<1> QED BY <1>1, <1>6, <1>7

\* Before it is counted, a loan counts no more than it will.
LEMMA FitsBehind ==
  ASSUME NEW rows \in [Ids -> ReturnRow \cup {None}], IsFiniteSet({v \in Ids : rows[v] # None}),
         NEW m \in LoanLocal, m.old \in LoanRow, NEW l, NEW cut,
         LoanFits(Counted(m.old, m), l, rows, cut), NEW more, more # 0
  PROVE  LoanFits(m.old, l, rows, more)
<1>1. /\ m.old.goods \in Nat /\ m.old.cash \in Nat /\ m.qty \in Nat
  BY DEF LoanRow, LoanLocal
<1>2. Counted(m.old, m).goods >= m.old.goods /\ Counted(m.old, m).cash >= m.old.cash
      /\ Counted(m.old, m).goods \in Nat /\ Counted(m.old, m).cash \in Nat
  BY <1>1 DEF Counted, LoanRow
<1>3. BackOf(rows, l, "goods") \in Nat /\ BackOf(rows, l, "money") \in Nat
  BY BackType
<1> QED BY <1>1, <1>2, <1>3 DEF LoanFits

LEMMA FitsRolledBack ==
  ASSUME NEW a \in [Ids -> ReturnRow \cup {None}], NEW b \in [Ids -> ReturnRow \cup {None}],
         IsFiniteSet({v \in Ids : b[v] # None}), IsFiniteSet({v \in Ids : a[v] # None}),
         NEW u \in Ids, a[u] = None, \A v \in Ids \ {u} : a[v] = b[v], b[u] # None,
         b[u].kind = "money", b[u].qty # 0,
         NEW o \in LoanRow, WithinRow(o), NEW cut, LoanFits(o, b[u].loan, b, cut)
  PROVE  LoanFits(RolledBack(o, o, b[u].qty), b[u].loan, a, cut)
<1> DEFINE l == b[u].loan
           q == b[u].qty
           cash == AtLeastZero(o.cash - q)
           c == RolledBack(o, o, q)
<1>1. q \in Nat /\ q # 0 /\ o.goods \in Nat /\ o.cash \in Nat /\ o.qty \in Nat
  BY DEF ReturnRow, LoanRow
<1>2. /\ BackOf(b, l, "money") = q + BackOf(a, l, "money")
      /\ BackOf(b, l, "goods") = BackOf(a, l, "goods")
  BY BackLess
<1>3. \A kind : BackOf(a, l, kind) \in Nat /\ BackOf(b, l, kind) \in Nat
  BY BackType
<1>4. c.goods = o.goods /\ c.cash = cash /\ c.qty = o.qty /\ c.status = "OPEN"
  BY DEF RolledBack, LoanRow
<1>5. cash = IF o.cash - q < 0 THEN 0 ELSE o.cash - q
  BY DEF AtLeastZero
<1>6. o.goods + o.cash <= o.qty
  BY DEF WithinRow
<1>7. /\ o.goods <= BackOf(b, l, "goods") /\ o.cash <= BackOf(b, l, "money")
      /\ cut = 0 => o.goods = BackOf(b, l, "goods") /\ o.cash = BackOf(b, l, "money")
  BY DEF LoanFits
<1> HIDE DEF l, q, cash, c
<1>8. LoanFits(c, l, a, cut)
  BY <1>1, <1>2, <1>3, <1>4, <1>5, <1>6, <1>7 DEF LoanFits
<1> QED BY <1>8 DEF c, l, q

\* What changes in the returns of one loan changes nothing for another.
LEMMA FitsOther ==
  ASSUME NEW a \in [Ids -> ReturnRow \cup {None}], NEW b \in [Ids -> ReturnRow \cup {None}],
         IsFiniteSet({v \in Ids : b[v] # None}), NEW l,
         \A v \in Ids : a[v] = b[v] \/ (a[v] = None /\ b[v].loan # l), NEW o, NEW cut
  PROVE  LoanFits(o, l, a, cut) <=> LoanFits(o, l, b, cut)
<1>1. BackOf(a, l, "goods") = BackOf(b, l, "goods") /\ BackOf(a, l, "money") = BackOf(b, l, "money")
  BY BackOfOthers
<1> QED BY <1>1 DEF LoanFits

LoanIIInv == LoanIInv /\ (~loanOverlap => LoanSerial)

-----------------------------------------------------------------------------
Only(r) == \A q \in Requests \ {r} : loanPc[q] = "idle"
OthersUnmoved(r) ==
    \A q \in Requests \ {r} : loanPc'[q] = loanPc[q] /\ loanMem'[q] = loanMem[q]

\* The first three parts of LoanSerial after a step of a request that is alone.
LEMMA AloneAfter ==
  ASSUME NEW r \in Requests, Only(r), OthersUnmoved(r), Carries(r)'
  PROVE  OneLoanRequest' /\ (\A q \in Requests : Carries(q)') /\ Only(r)'
<1>1. \A q \in Requests \ {r} : loanPc'[q] = "idle"
  BY DEF Only, OthersUnmoved
<1>2. ASSUME NEW q \in Requests \ {r} PROVE Carries(q)'
  BY <1>1 DEF Carries, ReturnCarried, ReturnAt, CascadeCarried, RemovalCarried
<1> QED BY <1>1, <1>2 DEF OneLoanRequest, Only

LEMMA OnlyOne ==
  ASSUME LoanSerial, NEW r \in Requests, loanPc[r] # "idle"
  PROVE  Only(r)
  BY DEF LoanSerial, OneLoanRequest, Only

\* A step that changes neither loans nor returns, nor begins or ends a count.
LEMMA FitQuiet ==
  ASSUME LoanSerial, NEW r \in Requests, OthersUnmoved(r), UNCHANGED <<loan, ret, loanCuts>>,
         loanPc[r] # "count", loanPc'[r] # "count", Only(r)
  PROVE  LoansFit'
<1>1. \A q \in Requests, l \in Loans : ~CountsFor(q, l) /\ ~CountsFor(q, l)'
  BY DEF CountsFor, Only, OthersUnmoved
<1>2. \A l \in Loans : Lent(l) => LoanFits(loan[l], l, ret, loanCuts)
  BY <1>1 DEF LoanSerial, LoansFit, FitNow
<1> QED BY <1>1, <1>2 DEF LoansFit, FitNow, FitAhead, Lent

LEMMA MoneyQuiet ==
  ASSUME LoanSerial, NEW r \in Requests, UNCHANGED <<ret, money, loanCuts>>, Only(r),
         loanPc[r] # "record" \/ (loanPc'[r] = "record" /\ loanMem'[r] = loanMem[r])
  PROVE  MoneyKept'
  BY DEF LoanSerial, MoneyKept, Only

LEMMA RowsQuiet ==
  ASSUME LoanSerial, UNCHANGED <<loan, ret, money, used>>
  PROVE  ReturnRows'
  BY DEF LoanSerial, ReturnRows, Lent

LEMMA SerialBeginReturn ==
  ASSUME LoanIIInv, ~loanOverlap, NEW r \in Requests, NEW l \in Loans,
         NEW kind \in {"goods", "money"}, NEW q \in Quantities, BeginReturn(r, l, kind, q)
  PROVE  LoanSerial'
<1>0. LoanSerial /\ LoanIInv /\ LoanTypeOK
  BY DEF LoanIIInv, LoanIInv
<1>1. PICK u \in Ids \ used :
        /\ used' = used \cup {u}
        /\ LoanRemember(r, [LoanBlank EXCEPT !.loan = l, !.old = loan[l], !.kind = kind,
                                     !.qty = q, !.id = u])
  BY DEF BeginReturn
<1>2. PICK m : m = [LoanBlank EXCEPT !.loan = l, !.old = loan[l], !.kind = kind, !.qty = q, !.id = u]
  OBVIOUS
<1>3. /\ m.loan = l /\ m.old = loan[l] /\ m.kind = kind /\ m.qty = q /\ m.id = u
  BY <1>2 DEF LoanBlank
<1>4. /\ Only(r) /\ loanPc[r] = "idle" /\ Lent(l) /\ loan[l].status = "OPEN"
      /\ UNCHANGED <<loan, opened, ret, money, loanTraffic>>
  BY DEF BeginReturn, MayBeginLoan, Only, Open
<1>5. /\ loanMem'[r] = m /\ loanPc'[r] = IF kind = "money" THEN "pay" ELSE "record"
      /\ OthersUnmoved(r)
  BY <1>0, <1>1, <1>2 DEF BeginReturn, LoanTypeOK, LoanGoto, LoanRemember, OthersUnmoved
<1>6. q # 0
  BY LoanAssumption
<1>7. ret[u] = None /\ u \notin money
  BY <1>0, <1>1 DEF LoanSerial, ReturnRows
<1>8. ReturnRows'
  <2>1. IsFiniteSet(used')
    BY <1>0, <1>1, FS_AddElement DEF LoanSerial, ReturnRows
  <2> QED BY <1>0, <1>1, <1>4, <2>1 DEF LoanSerial, ReturnRows, Lent
<1>9. ReturnCarried(r)'
  BY <1>1, <1>3, <1>4, <1>5, <1>6 DEF ReturnCarried, Lent
<1>10. ReturnAt(r)'
  BY <1>3, <1>4, <1>5, <1>7 DEF ReturnAt
<1>11. Carries(r)'
  BY <1>5, <1>9, <1>10 DEF Carries, CascadeCarried, RemovalCarried
<1>12. LoansFit'
  BY <1>0, <1>4, <1>5, FitQuiet DEF loanTraffic
<1>13. MoneyKept'
  BY <1>0, <1>4, <1>5, MoneyQuiet DEF loanTraffic
<1> QED BY <1>4, <1>5, <1>8, <1>11, <1>12, <1>13, AloneAfter DEF LoanSerial

LEMMA SerialBeginOther ==
  ASSUME LoanIIInv, ~loanOverlap, NEW r \in Requests,
         \/ \E l \in Loans : BeginRemove(r, l)
         \/ \E u \in Ids : BeginDeleteMoney(r, u)
  PROVE  LoanSerial'
<1>0. LoanSerial /\ LoanIInv /\ LoanTypeOK
  BY DEF LoanIIInv, LoanIInv
<1>1. PICK m : /\ loanMem' = [loanMem EXCEPT ![r] = m]
               /\ m.loan # None => Lent(m.loan) /\ Paid(m.loan) \subseteq m.todo
  <2>1. ASSUME NEW l \in Loans, BeginRemove(r, l)
        PROVE  \E m : loanMem' = [loanMem EXCEPT ![r] = m]
                        /\ (m.loan # None => Lent(m.loan) /\ Paid(m.loan) \subseteq m.todo)
    <3>1. PICK m : m = [LoanBlank EXCEPT !.loan = l, !.todo = Paid(l)]
      OBVIOUS
    <3>2. m.loan = l /\ m.todo = Paid(l)
      BY <3>1 DEF LoanBlank
    <3> QED BY <2>1, <3>1, <3>2 DEF BeginRemove, LoanRemember, Open
  <2>2. ASSUME NEW u \in Ids, BeginDeleteMoney(r, u)
        PROVE  \E m : loanMem' = [loanMem EXCEPT ![r] = m]
                        /\ (m.loan # None => Lent(m.loan) /\ Paid(m.loan) \subseteq m.todo)
    <3>1. PICK m : m = [LoanBlank EXCEPT !.todo = {u}]
      OBVIOUS
    <3>2. m.loan = None
      BY <3>1 DEF LoanBlank
    <3> QED BY <2>2, <3>1, <3>2 DEF BeginDeleteMoney, LoanRemember
  <2> QED BY <2>1, <2>2
<1>2. /\ Only(r) /\ loanPc[r] = "idle" /\ loanPc' = [loanPc EXCEPT ![r] = "clean"]
      /\ UNCHANGED <<loan, opened, ret, money, used, loanTraffic>>
  BY DEF BeginRemove, BeginDeleteMoney, MayBeginLoan, Only, LoanGoto
<1>3. loanMem'[r] = m /\ loanPc'[r] = "clean" /\ OthersUnmoved(r)
  BY <1>0, <1>1, <1>2 DEF LoanTypeOK, OthersUnmoved
<1>4. RemovalCarried(r)'
  BY <1>1, <1>2, <1>3 DEF RemovalCarried, Lent, Paid
<1>5. Carries(r)'
  BY <1>3, <1>4 DEF Carries, ReturnCarried, ReturnAt, CascadeCarried
<1>6. LoansFit'
  BY <1>0, <1>2, <1>3, FitQuiet DEF loanTraffic
<1>7. MoneyKept'
  BY <1>0, <1>2, <1>3, MoneyQuiet DEF loanTraffic
<1> QED BY <1>0, <1>2, <1>3, <1>5, <1>6, <1>7, AloneAfter, RowsQuiet DEF LoanSerial

LEMMA SerialPay ==
  ASSUME LoanIIInv, ~loanOverlap, NEW r \in Requests, PayReturn(r)
  PROVE  LoanSerial'
<1>0. LoanSerial /\ LoanIInv /\ LoanTypeOK
  BY DEF LoanIIInv, LoanIInv
<1>1. PICK m : m = loanMem[r]
  OBVIOUS
<1>2. /\ loanPc[r] = "pay" /\ loanPc'[r] = "record" /\ money' = money \cup {m.id}
      /\ loanMem'[r] = m /\ OthersUnmoved(r)
      /\ UNCHANGED <<loan, opened, ret, used, loanTraffic>>
  BY <1>0, <1>1 DEF PayReturn, LoanTypeOK, LoanGoto, OthersUnmoved
<1>3. Only(r)
  BY <1>0, <1>2, OnlyOne
<1>4. Carries(r)
  BY <1>0 DEF LoanSerial
<1>5. ret[m.id] = None /\ m.kind = "money" /\ m.id \in used
  BY <1>1, <1>2, <1>4 DEF Carries, ReturnAt, ReturnCarried
<1>6. ReturnRows'
  <2>1. \A u \in Ids : ret[u] # None => (u \in money <=> u \in money')
    BY <1>2, <1>5
  <2> QED BY <1>0, <1>2, <1>5, <2>1 DEF LoanSerial, ReturnRows, Lent
<1>7. ReturnCarried(r)'
  BY <1>1, <1>2, <1>4 DEF Carries, ReturnCarried, Lent
<1>8. ReturnAt(r)'
  BY <1>2, <1>5 DEF ReturnAt
<1>9. Carries(r)'
  BY <1>2, <1>7, <1>8 DEF Carries, CascadeCarried, RemovalCarried
<1>10. LoansFit'
  BY <1>0, <1>2, <1>3, FitQuiet DEF loanTraffic
<1>11. MoneyKept'
  <2>1. ASSUME loanCuts' = 0, NEW u \in money'
        PROVE  ret'[u] # None \/ \E q \in Requests : loanPc'[q] = "record" /\ loanMem'[q].id = u
    <3>1. CASE u = m.id
      BY <1>2, <3>1
    <3>2. CASE u # m.id
      BY <1>0, <1>2, <1>3, <2>1, <3>2 DEF LoanSerial, MoneyKept, Only, loanTraffic
    <3> QED BY <3>1, <3>2
  <2> QED BY <2>1 DEF MoneyKept
<1> QED BY <1>2, <1>3, <1>6, <1>9, <1>10, <1>11, AloneAfter DEF LoanSerial

LEMMA SerialRecord ==
  ASSUME LoanIIInv, LoanTypeOK', ~loanOverlap, NEW r \in Requests, RecordReturn(r)
  PROVE  LoanSerial'
<1>0. LoanSerial /\ LoanIInv /\ LoanTypeOK
  BY DEF LoanIIInv, LoanIInv
<1>1. PICK m : m = loanMem[r]
  OBVIOUS
<1>2. PICK row : row = [loan |-> m.loan, kind |-> m.kind, qty |-> m.qty]
  OBVIOUS
<1>3. /\ loanPc[r] = "record" /\ loanPc'[r] = "count" /\ ret' = [ret EXCEPT ![m.id] = row]
      /\ loanMem'[r] = m /\ OthersUnmoved(r)
      /\ UNCHANGED <<loan, opened, money, used, loanTraffic>>
  BY <1>0, <1>1, <1>2 DEF RecordReturn, LoanTypeOK, LoanGoto, OthersUnmoved
<1>4. Only(r)
  BY <1>0, <1>3, OnlyOne
<1>5. Carries(r) /\ LoanKnows(r)
  BY <1>0 DEF LoanSerial, LoanIInv
<1>6. /\ m.id \in used /\ Lent(m.loan) /\ m.old = loan[m.loan] /\ m.old.status = "OPEN" /\ m.qty # 0
      /\ ret[m.id] = None /\ (m.kind = "money" <=> m.id \in money)
  BY <1>1, <1>3, <1>5 DEF Carries, ReturnAt, ReturnCarried
<1>7. /\ m.id \in Ids /\ m.loan \in Loans
      /\ m.old.goods + m.old.cash + m.qty <= m.old.qty
  BY <1>1, <1>3, <1>5 DEF LoanKnows, Returning, Reads
<1>8. m \in LoanLocal /\ row \in ReturnRow /\ row # None
  <2>1. m \in LoanLocal
    BY <1>0, <1>1 DEF LoanTypeOK
  <2>2. row \in ReturnRow
    BY <1>2, <1>7, <2>1 DEF LoanLocal, ReturnRow
  <2> QED BY <2>1, <2>2, LoanNotNone DEF ReturnRow
<1>9. ret'[m.id] = row /\ \A v \in Ids \ {m.id} : ret'[v] = ret[v]
  BY <1>0, <1>3, <1>7 DEF LoanTypeOK
<1>10. m.old \in LoanRow
  BY <1>0, <1>6, <1>7 DEF LoanTypeOK, Lent
<1>11. ReturnRows'
  <2>1. row.loan = m.loan /\ row.kind = m.kind /\ row.qty = m.qty
    BY <1>2
  <2>2. PICK b : b = ret'
    OBVIOUS
  <2>3. ASSUME NEW u \in Ids, b[u] # None
        PROVE  /\ u \in used /\ loan[b[u].loan] # None /\ b[u].qty # 0
               /\ b[u].kind = "money" <=> u \in money
    <3>1. CASE u = m.id
      BY <1>6, <1>9, <2>1, <2>2, <3>1 DEF Lent
    <3>2. CASE u # m.id
      BY <1>0, <1>9, <2>2, <2>3, <3>2 DEF LoanSerial, ReturnRows, Lent
    <3> QED BY <3>1, <3>2
  <2> QED BY <1>0, <1>3, <2>2, <2>3 DEF LoanSerial, ReturnRows, Lent
<1>12. ReturnCarried(r)'
  BY <1>3, <1>6 DEF ReturnCarried, Lent
<1>13. ReturnAt(r)'
  BY <1>2, <1>3, <1>9 DEF ReturnAt
<1>14. Carries(r)'
  BY <1>3, <1>12, <1>13 DEF Carries, CascadeCarried, RemovalCarried
<1>15. LoansFit'
  <2>1. PICK a, b : a = ret /\ b = ret'
    OBVIOUS
  <2>2. /\ a \in [Ids -> ReturnRow \cup {None}] /\ IsFiniteSet({v \in Ids : a[v] # None})
        /\ b \in [Ids -> ReturnRow \cup {None}] /\ IsFiniteSet({v \in Ids : b[v] # None})
    <3>1. ret' \in [Ids -> ReturnRow \cup {None}]
      BY DEF LoanTypeOK, ReturnRow
    <3>2. {v \in Ids : ret'[v] # None} \subseteq used
      BY <1>3, <1>11 DEF ReturnRows
    <3> QED BY <1>0, <2>1, <3>1, <3>2, RowsBack, FS_Subset DEF LoanSerial, ReturnRows
  <2>3. /\ a[m.id] = None /\ b[m.id] = row /\ \A v \in Ids \ {m.id} : a[v] = b[v]
    BY <1>6, <1>9, <2>1
  <2>4. ASSUME NEW l \in Loans, Lent(l)' PROVE FitAhead(l)' /\ FitNow(l)'
    <3>1. /\ \A q \in Requests : ~CountsFor(q, l)
          /\ \A q \in Requests : CountsFor(q, l)' => q = r /\ l = m.loan
      BY <1>3, <1>4 DEF CountsFor, Only, OthersUnmoved
    <3>2. LoanFits(loan[l], l, a, loanCuts)
      BY <1>0, <1>3, <2>1, <2>4, <3>1 DEF LoanSerial, LoansFit, FitNow, Lent
    <3>3. CASE l = m.loan
      <4>1. LoanFits(m.old, m.loan, a, loanCuts)
        BY <1>6, <3>2, <3>3
      <4>2. b[m.id] = [loan |-> m.loan, kind |-> m.kind, qty |-> m.qty] /\ b[m.id] # None
        BY <1>2, <1>8, <2>3
      <4>3. PICK cut : cut = loanCuts
        OBVIOUS
      <4>4. LoanFits(Counted(m.old, m), m.loan, b, cut)
        <5>1. LoanFits(m.old, m.loan, a, cut)
          BY <4>1, <4>3
        <5>2. a[m.id] = None /\ \A v \in Ids \ {m.id} : a[v] = b[v]
          BY <2>3
        <5> QED BY <1>6, <1>7, <1>8, <1>10, <2>2, <4>2, <5>1, <5>2, FitsCounted
      <4>5. FitAhead(l)'
        <5>1. LoanFits(Counted(loan'[l], m), l, ret', loanCuts')
          BY <1>3, <1>6, <2>1, <3>3, <4>3, <4>4 DEF loanTraffic
        <5> QED BY <1>3, <3>1, <5>1 DEF FitAhead
      <4>6. CountsFor(r, l)'
        BY <1>3, <3>3 DEF CountsFor
      <4> QED BY <4>5, <4>6 DEF FitNow
    <3>4. CASE l # m.loan
      <4>1. PICK cut : cut = loanCuts
        OBVIOUS
      <4>2. \A v \in Ids : a[v] = b[v] \/ (a[v] = None /\ b[v].loan # l)
        BY <1>2, <2>3, <3>4
      <4>3. PICK o : o = loan[l]
        OBVIOUS
      <4>4. LoanFits(o, l, a, cut)
        BY <3>2, <4>1, <4>3
      <4>5. LoanFits(o, l, b, cut)
        BY <2>2, <4>2, <4>4, FitsOther
      <4>6. LoanFits(loan'[l], l, ret', loanCuts')
        BY <1>3, <2>1, <4>1, <4>3, <4>5 DEF loanTraffic
      <4> QED BY <3>1, <3>4, <4>6 DEF FitAhead, FitNow
    <3> QED BY <3>3, <3>4
  <2> QED BY <2>4 DEF LoansFit
<1>16. MoneyKept'
  <2>1. ASSUME loanCuts' = 0, NEW u \in money'
        PROVE  ret'[u] # None
    <3>1. CASE u = m.id
      BY <1>8, <1>9, <3>1
    <3>2. CASE u # m.id
      <4>1. u \in Ids
        BY <1>0, <1>3, <2>1 DEF LoanTypeOK
      <4>2. ret[u] # None
        BY <1>0, <1>1, <1>3, <1>4, <2>1, <3>2 DEF LoanSerial, MoneyKept, Only, loanTraffic
      <4> QED BY <1>9, <3>2, <4>1, <4>2
    <3> QED BY <3>1, <3>2
  <2> QED BY <2>1 DEF MoneyKept
<1> QED BY <1>3, <1>4, <1>11, <1>14, <1>15, <1>16, AloneAfter DEF LoanSerial

LEMMA SerialCount ==
  ASSUME LoanIIInv, ~loanOverlap, NEW r \in Requests, CountReturn(r)
  PROVE  LoanSerial'
<1>0. LoanSerial /\ LoanIInv /\ LoanTypeOK
  BY DEF LoanIIInv, LoanIInv
<1>1. PICK m : m = loanMem[r]
  OBVIOUS
<1>2. /\ loanPc[r] = "count" /\ loanPc'[r] = "idle" /\ OthersUnmoved(r)
      /\ Lent(m.loan) /\ loan' = [loan EXCEPT ![m.loan] = Counted(loan[m.loan], m)]
      /\ UNCHANGED <<opened, ret, money, used, loanTraffic>>
  BY <1>0, <1>1 DEF CountReturn, LoanTypeOK, LoanGoto, LoanEnd, LoanRemember, OthersUnmoved
<1>3. Only(r)
  BY <1>0, <1>2, OnlyOne
<1>4. Carries(r) /\ LoanKnows(r)
  BY <1>0 DEF LoanSerial, LoanIInv
<1>5. m.loan \in Loans /\ m.old = loan[m.loan] /\ m.old.goods + m.old.cash + m.qty <= m.old.qty
  BY <1>1, <1>2, <1>4 DEF LoanKnows, Returning, Reads, Carries, ReturnCarried
<1>6. PICK row : row = Counted(loan[m.loan], m)
  OBVIOUS
<1>7. loan'[m.loan] = row /\ \A l \in Loans \ {m.loan} : loan'[l] = loan[l]
  BY <1>0, <1>2, <1>5, <1>6 DEF LoanTypeOK
<1>8. row # None
  <2>1. m \in LoanLocal /\ loan[m.loan] \in LoanRow
    BY <1>0, <1>1, <1>2, <1>5 DEF LoanTypeOK, Lent
  <2>2. row \in LoanRow
    BY <1>5, <1>6, <2>1, CountedRow
  <2> QED BY <2>2, LoanNotNone
<1>9. \A l \in Loans : Lent(l)' <=> Lent(l)
  BY <1>2, <1>5, <1>7, <1>8 DEF Lent
<1>10. ReturnRows'
  <2>1. \A u \in Ids : ret[u] # None => ret[u].loan \in Loans
    BY <1>0 DEF LoanTypeOK
  <2> QED BY <1>0, <1>2, <1>9, <2>1 DEF LoanSerial, ReturnRows
<1>11. Carries(r)'
  BY <1>2 DEF Carries, ReturnCarried, ReturnAt, CascadeCarried, RemovalCarried
<1>12. LoansFit'
  <2>1. ASSUME NEW l \in Loans, Lent(l)' PROVE LoanFits(loan'[l], l, ret', loanCuts')
    <3>1. CASE l = m.loan
      <4>1. CountsFor(r, l) /\ Lent(l)
        BY <1>1, <1>2, <3>1 DEF CountsFor
      <4>2. LoanFits(Counted(loan[l], loanMem[r]), l, ret, loanCuts)
        BY <1>0, <4>1 DEF LoanSerial, LoansFit, FitAhead
      <4> QED BY <1>1, <1>2, <1>6, <1>7, <3>1, <4>2 DEF loanTraffic
    <3>2. CASE l # m.loan
      <4>1. \A q \in Requests : ~CountsFor(q, l)
        BY <1>1, <1>3, <3>2 DEF CountsFor, Only
      <4>2. LoanFits(loan[l], l, ret, loanCuts)
        BY <1>0, <1>9, <2>1, <4>1 DEF LoanSerial, LoansFit, FitNow
      <4> QED BY <1>2, <1>7, <3>2, <4>2 DEF loanTraffic
    <3> QED BY <3>1, <3>2
  <2>2. \A q \in Requests, l \in Loans : ~CountsFor(q, l)'
    BY <1>2, <1>3 DEF CountsFor, Only, OthersUnmoved
  <2> QED BY <2>1, <2>2 DEF LoansFit, FitAhead, FitNow
<1>13. MoneyKept'
  BY <1>0, <1>2, <1>3, MoneyQuiet DEF loanTraffic
<1> QED BY <1>2, <1>3, <1>10, <1>11, <1>12, <1>13, AloneAfter DEF LoanSerial

LEMMA SerialCascadeRead ==
  ASSUME LoanIIInv, ~loanOverlap, NEW r \in Requests, NEW u \in Ids, CascadeRead(r, u)
  PROVE  LoanSerial'
<1>0. LoanSerial /\ LoanIInv /\ LoanTypeOK
  BY DEF LoanIIInv, LoanIInv
<1>1. PICK m : m = loanMem[r]
  OBVIOUS
<1>2. /\ loanPc[r] = "clean" /\ u \in m.todo
      /\ UNCHANGED <<loan, opened, ret, money, used, loanTraffic>>
  BY <1>1 DEF CascadeRead
<1>3. Only(r)
  BY <1>0, <1>2, OnlyOne
<1>4. m.loan # None => Lent(m.loan) /\ Paid(m.loan) \subseteq m.todo
  BY <1>0, <1>1, <1>2 DEF LoanSerial, Carries, RemovalCarried
<1>5. m \in LoanLocal
  BY <1>0, <1>1 DEF LoanTypeOK
<1>6. SUFFICES Carries(r)' /\ OthersUnmoved(r) /\ loanPc'[r] \in {"clean", "cascade"}
  <2>1. LoansFit'
    BY <1>0, <1>2, <1>3, <1>6, FitQuiet DEF loanTraffic
  <2>2. MoneyKept'
    BY <1>0, <1>2, <1>3, <1>6, MoneyQuiet DEF loanTraffic
  <2> QED BY <1>0, <1>2, <1>3, <1>6, <2>1, <2>2, AloneAfter, RowsQuiet DEF LoanSerial
<1>7. CASE u \notin money
  <2>1. PICK n : n = [m EXCEPT !.todo = m.todo \ {u}]
    OBVIOUS
  <2>2. n.loan = m.loan /\ n.todo = m.todo \ {u}
    BY <1>5, <2>1 DEF LoanLocal
  <2>3. /\ loanMem'[r] = n /\ loanPc'[r] = "clean" /\ OthersUnmoved(r)
    BY <1>0, <1>1, <1>2, <1>7, <2>1 DEF CascadeRead, LoanTypeOK, LoanRemember, OthersUnmoved
  <2>4. \A l : u \notin Paid(l)
    BY <1>0, <1>7 DEF LoanSerial, ReturnRows, Paid
  <2>5. RemovalCarried(r)'
    BY <1>2, <1>4, <2>2, <2>3, <2>4 DEF RemovalCarried, Lent, Paid
  <2> QED BY <2>3, <2>5 DEF Carries, ReturnCarried, ReturnAt, CascadeCarried
<1>8. CASE u \in money /\ Found(u) = None
  <2>1. PICK n : n = [m EXCEPT !.id = u, !.old = None]
    OBVIOUS
  <2>2. n.loan = m.loan /\ n.todo = m.todo /\ n.id = u /\ n.old = None
    BY <1>5, <2>1 DEF LoanLocal
  <2>3. /\ loanMem'[r] = n /\ loanPc'[r] = "cascade" /\ OthersUnmoved(r)
    BY <1>0, <1>1, <1>2, <1>8, <2>1 DEF CascadeRead, LoanTypeOK, LoanGoto, LoanRemember, OthersUnmoved
  <2>4. ret[u] = None
    BY <1>0, <1>8 DEF Found, LoanSerial, ReturnRows, Lent
  <2>5. RemovalCarried(r)'
    BY <1>2, <1>4, <2>2, <2>3 DEF RemovalCarried, Lent, Paid
  <2>6. CascadeCarried(r)'
    BY <1>2, <1>8, <2>2, <2>3, <2>4 DEF CascadeCarried
  <2> QED BY <2>3, <2>5, <2>6 DEF Carries, ReturnCarried, ReturnAt
<1>9. CASE u \in money /\ Found(u) # None
  <2>1. PICK n : n = [m EXCEPT !.id = u, !.old = Found(u), !.of = ret[u].loan, !.qty = ret[u].qty]
    OBVIOUS
  <2>2. /\ n.loan = m.loan /\ n.todo = m.todo /\ n.id = u /\ n.old = Found(u)
        /\ n.of = ret[u].loan /\ n.qty = ret[u].qty
    BY <1>5, <2>1 DEF LoanLocal
  <2>3. /\ loanMem'[r] = n /\ loanPc'[r] = "cascade" /\ OthersUnmoved(r)
    BY <1>0, <1>1, <1>2, <1>9, <2>1 DEF CascadeRead, LoanTypeOK, LoanGoto, LoanRemember, OthersUnmoved
  <2>4. ret[u] # None /\ Found(u) = loan[ret[u].loan]
    BY <1>9 DEF Found
  <2>5. RemovalCarried(r)'
    BY <1>2, <1>4, <2>2, <2>3 DEF RemovalCarried, Lent, Paid
  <2>6. CascadeCarried(r)'
    BY <1>2, <1>9, <2>2, <2>3, <2>4 DEF CascadeCarried
  <2> QED BY <2>3, <2>5, <2>6 DEF Carries, ReturnCarried, ReturnAt
<1> QED BY <1>7, <1>8, <1>9

LEMMA SerialCascadeWrite ==
  ASSUME LoanIIInv, LoanTypeOK', ~loanOverlap, NEW r \in Requests, CascadeWrite(r)
  PROVE  LoanSerial'
<1>0. LoanSerial /\ LoanIInv /\ LoanTypeOK
  BY DEF LoanIIInv, LoanIInv
<1>1. PICK m : m = loanMem[r]
  OBVIOUS
<1>2. PICK n : n = [m EXCEPT !.todo = m.todo \ {m.id}]
  OBVIOUS
<1>3. m \in LoanLocal
  BY <1>0, <1>1 DEF LoanTypeOK
<1>4. n.loan = m.loan /\ n.todo = m.todo \ {m.id}
  BY <1>2, <1>3 DEF LoanLocal
<1>5. /\ loanPc[r] = "cascade" /\ loanPc'[r] = "clean" /\ loanMem'[r] = n /\ OthersUnmoved(r)
      /\ money' = money \ {m.id} /\ UNCHANGED <<opened, used, loanTraffic>>
  BY <1>0, <1>1, <1>2 DEF CascadeWrite, LoanTypeOK, LoanGoto, LoanRemember, OthersUnmoved
<1>6. Only(r)
  BY <1>0, <1>5, OnlyOne
<1>7. Carries(r) /\ LoanKnows(r)
  BY <1>0 DEF LoanSerial, LoanIInv
<1>8. m.id \in Ids /\ m.id \in money
  BY <1>0, <1>1, <1>5, <1>7 DEF Carries, CascadeCarried, LoanTypeOK
<1>9. m.loan # None => Lent(m.loan) /\ Paid(m.loan) \subseteq m.todo
  BY <1>1, <1>5, <1>7 DEF Carries, RemovalCarried
<1>10. \A q \in Requests, l \in Loans : ~CountsFor(q, l) /\ ~CountsFor(q, l)'
  BY <1>5, <1>6 DEF CountsFor, Only, OthersUnmoved
\* nobody records, so money that is there has its return
<1>11. loanCuts = 0 => \A u \in money : ret[u] # None
  BY <1>0, <1>5, <1>6 DEF LoanSerial, MoneyKept, Only
<1>12. CASE m.old = None
  <2>1. UNCHANGED <<loan, ret>> /\ ret[m.id] = None
    BY <1>1, <1>5, <1>7, <1>12 DEF CascadeWrite, Carries, CascadeCarried
  <2>2. ReturnRows'
    BY <1>0, <1>5, <2>1 DEF LoanSerial, ReturnRows, Lent
  <2>3. RemovalCarried(r)'
    <3>1. \A l : m.id \notin Paid(l)
      BY <2>1 DEF Paid
    <3> QED BY <1>4, <1>5, <1>9, <2>1, <3>1 DEF RemovalCarried, Lent, Paid
  <2>4. Carries(r)'
    BY <1>5, <2>3 DEF Carries, ReturnCarried, ReturnAt, CascadeCarried
  <2>5. LoansFit'
    BY <1>0, <1>5, <1>6, <2>1, FitQuiet DEF loanTraffic
  <2>6. MoneyKept'
    BY <1>5, <1>11, <2>1 DEF MoneyKept, loanTraffic
  <2> QED BY <1>5, <1>6, <2>2, <2>4, <2>5, <2>6, AloneAfter DEF LoanSerial
<1>13. CASE m.old # None
  <2>1. /\ ret[m.id] # None /\ m.of = ret[m.id].loan /\ m.qty = ret[m.id].qty
        /\ m.old = loan[m.of] /\ Lent(m.of)
        /\ ret' = [ret EXCEPT ![m.id] = None]
        /\ loan' = [loan EXCEPT ![m.of] = RolledBack(loan[m.of], m.old, m.qty)]
    BY <1>1, <1>5, <1>7, <1>13 DEF CascadeWrite, Carries, CascadeCarried
  <2>2. m.of \in Loans /\ WithinRow(m.old)
    BY <1>1, <1>5, <1>7, <1>13 DEF LoanKnows, RollingBack, Reads
  <2>3. m.old \in LoanRow
    BY <1>0, <2>1, <2>2 DEF LoanTypeOK, Lent
  <2>4. PICK a, b : a = ret' /\ b = ret
    OBVIOUS
  <2>5. a[m.id] = None /\ \A v \in Ids \ {m.id} : a[v] = b[v]
    BY <1>0, <1>8, <2>1, <2>4 DEF LoanTypeOK
  <2>6. /\ a \in [Ids -> ReturnRow \cup {None}] /\ IsFiniteSet({v \in Ids : a[v] # None})
        /\ b \in [Ids -> ReturnRow \cup {None}] /\ IsFiniteSet({v \in Ids : b[v] # None})
    <3>1. ret' \in [Ids -> ReturnRow \cup {None}]
      BY DEF LoanTypeOK, ReturnRow
    <3>2. {v \in Ids : a[v] # None} \subseteq {v \in Ids : b[v] # None}
      BY <2>5
    <3> QED BY <1>0, <2>4, <3>1, <3>2, RowsBack, FS_Subset DEF LoanSerial
  <2>7. PICK row : row = RolledBack(m.old, m.old, b[m.id].qty)
    OBVIOUS
  <2>8. loan'[m.of] = row /\ \A l \in Loans \ {m.of} : loan'[l] = loan[l]
    BY <1>0, <2>1, <2>2, <2>4, <2>7 DEF LoanTypeOK
  <2>9. /\ b[m.id] # None /\ b[m.id].kind = "money" /\ b[m.id].qty # 0 /\ b[m.id].loan = m.of
        /\ b[m.id].qty \in Nat
    BY <1>0, <1>8, <2>1, <2>4, <2>6 DEF LoanSerial, ReturnRows, ReturnRow
  <2>10. row # None
    <3>1. row \in LoanRow
      BY <2>2, <2>3, <2>7, <2>9, RolledBackRow
    <3> QED BY <3>1, LoanNotNone
  <2>11. \A l \in Loans : (loan'[l] # None <=> loan[l] # None)
    BY <2>1, <2>2, <2>8, <2>10 DEF Lent
  <2>12. ReturnRows'
    <3>1. ASSUME NEW u \in Ids, a[u] # None
          PROVE  /\ u \in used /\ loan'[a[u].loan] # None /\ a[u].qty # 0
                 /\ a[u].kind = "money" <=> u \in money \ {m.id}
      <4>1. u # m.id /\ b[u] = a[u] /\ b[u].loan \in Loans
        <5>1. u # m.id
          BY <2>5, <3>1
        <5>2. b[u] = a[u]
          BY <2>5, <5>1
        <5>3. b[u] \in ReturnRow
          BY <2>6, <3>1, <5>2
        <5> QED BY <5>1, <5>2, <5>3 DEF ReturnRow
      <4>2. /\ u \in used /\ Lent(b[u].loan) /\ b[u].qty # 0
            /\ b[u].kind = "money" <=> u \in money
        BY <1>0, <2>4, <3>1, <4>1 DEF LoanSerial, ReturnRows
      <4> QED BY <2>11, <4>1, <4>2 DEF Lent
    <3> QED BY <1>0, <1>5, <2>4, <3>1 DEF LoanSerial, ReturnRows, Lent
  <2>13. RemovalCarried(r)'
    <3>1. \A l : {u \in Ids : a[u] # None /\ a[u].loan = l /\ a[u].kind = "money"}
                    \subseteq Paid(l) \ {m.id}
      BY <2>4, <2>5 DEF Paid
    <3>2. m.loan # None => m.loan \in Loans
      BY <1>3 DEF LoanLocal
    <3> QED BY <1>4, <1>5, <1>9, <2>4, <2>11, <3>1, <3>2 DEF RemovalCarried, Lent, Paid
  <2>14. Carries(r)'
    BY <1>5, <2>13 DEF Carries, ReturnCarried, ReturnAt, CascadeCarried
  <2>15. LoansFit'
    <3>1. ASSUME NEW l \in Loans, Lent(l)' PROVE LoanFits(loan'[l], l, ret', loanCuts')
      <4>1. PICK cut, o : cut = loanCuts /\ o = loan[l]
        OBVIOUS
      <4>2. LoanFits(o, l, b, cut)
        BY <1>0, <1>10, <2>4, <2>11, <3>1, <4>1 DEF LoanSerial, LoansFit, FitNow, Lent
      <4>3. CASE l = m.of
        <5>1. o = m.old /\ b[m.id].loan = l
          BY <2>1, <2>9, <4>1, <4>3
        <5>2. o \in LoanRow /\ WithinRow(o) /\ LoanFits(o, b[m.id].loan, b, cut)
          BY <2>2, <2>3, <4>2, <5>1
        <5>3. LoanFits(RolledBack(o, o, b[m.id].qty), b[m.id].loan, a, cut)
          BY <1>8, <2>5, <2>6, <2>9, <5>2, FitsRolledBack
        <5> QED BY <1>5, <2>4, <2>7, <2>8, <4>1, <4>3, <5>1, <5>3 DEF loanTraffic
      <4>4. CASE l # m.of
        <5>1. \A v \in Ids : a[v] = b[v] \/ (a[v] = None /\ b[v].loan # l)
          BY <2>5, <2>9, <4>4
        <5>2. LoanFits(o, l, a, cut)
          BY <2>6, <4>2, <5>1, FitsOther
        <5> QED BY <1>5, <2>4, <2>8, <4>1, <4>4, <5>2 DEF loanTraffic
      <4> QED BY <4>3, <4>4
    <3> QED BY <1>10, <3>1 DEF LoansFit, FitAhead, FitNow
  <2>16. MoneyKept'
    <3>1. ASSUME loanCuts' = 0, NEW u \in money' PROVE ret'[u] # None
      <4>1. u \in Ids /\ u # m.id /\ ret[u] # None
        BY <1>0, <1>5, <1>11, <3>1 DEF LoanTypeOK, loanTraffic
      <4> QED BY <2>4, <2>5, <4>1
    <3> QED BY <3>1 DEF MoneyKept
  <2> QED BY <1>5, <1>6, <2>12, <2>14, <2>15, <2>16, AloneAfter DEF LoanSerial
<1> QED BY <1>12, <1>13

LEMMA SerialDelete ==
  ASSUME LoanIIInv, LoanTypeOK', ~loanOverlap, NEW r \in Requests, DeleteLoan(r)
  PROVE  LoanSerial'
<1>0. LoanSerial /\ LoanIInv /\ LoanTypeOK
  BY DEF LoanIIInv, LoanIInv
<1>1. PICK k : k = loanMem[r].loan
  OBVIOUS
<1>2. /\ loanPc[r] = "clean" /\ loanPc'[r] = "idle" /\ OthersUnmoved(r)
      /\ loanMem[r].todo = {} /\ UNCHANGED <<opened, money, used, loanTraffic>>
  BY <1>0 DEF DeleteLoan, LoanTypeOK, LoanGoto, LoanEnd, LoanRemember, OthersUnmoved
<1>3. Only(r)
  BY <1>0, <1>2, OnlyOne
<1>4. k # None => Lent(k) /\ Paid(k) = {}
  BY <1>0, <1>1, <1>2 DEF LoanSerial, Carries, RemovalCarried
<1>5. \A q \in Requests, l \in Loans : ~CountsFor(q, l) /\ ~CountsFor(q, l)'
  BY <1>2, <1>3 DEF CountsFor, Only, OthersUnmoved
<1>6. loanCuts = 0 => \A u \in money : ret[u] # None
  BY <1>0, <1>2, <1>3 DEF LoanSerial, MoneyKept, Only
<1>7. Carries(r)'
  BY <1>2 DEF Carries, ReturnCarried, ReturnAt, CascadeCarried, RemovalCarried
<1>8. CASE k = None
  <2>1. UNCHANGED <<loan, ret>>
    BY <1>1, <1>8 DEF DeleteLoan
  <2>2. LoansFit'
    BY <1>0, <1>2, <1>3, <2>1, FitQuiet DEF loanTraffic
  <2>3. MoneyKept'
    BY <1>2, <1>6, <2>1 DEF MoneyKept, loanTraffic
  <2> QED BY <1>0, <1>2, <1>3, <1>7, <2>1, <2>2, <2>3, AloneAfter, RowsQuiet DEF LoanSerial
<1>9. CASE k # None
  <2>1. PICK a, b : a = ret' /\ b = ret
    OBVIOUS
  <2>2. /\ loan' = [loan EXCEPT ![k] = None]
        /\ a = [u \in Ids |-> IF b[u] # None /\ b[u].loan = k THEN None ELSE b[u]]
    BY <1>1, <1>9, <2>1 DEF DeleteLoan
  <2>3. \A l \in Loans \ {k} : loan'[l] = loan[l]
    BY <1>0, <2>2 DEF LoanTypeOK
  <2>4. \A l \in Loans : loan'[l] # None => l # k
    BY <1>0, <2>2 DEF LoanTypeOK
  <2>5. \A u \in Ids : a[u] = IF b[u] # None /\ b[u].loan = k THEN None ELSE b[u]
    BY <2>2
  <2>6. /\ a \in [Ids -> ReturnRow \cup {None}] /\ IsFiniteSet({v \in Ids : a[v] # None})
        /\ b \in [Ids -> ReturnRow \cup {None}] /\ IsFiniteSet({v \in Ids : b[v] # None})
    <3>1. ret' \in [Ids -> ReturnRow \cup {None}]
      BY DEF LoanTypeOK, ReturnRow
    <3>2. {v \in Ids : a[v] # None} \subseteq {v \in Ids : b[v] # None}
      BY <2>5
    <3> QED BY <1>0, <2>1, <3>1, <3>2, RowsBack, FS_Subset DEF LoanSerial
  <2>7. ReturnRows'
    <3>1. ASSUME NEW u \in Ids, a[u] # None
          PROVE  /\ u \in used /\ loan'[a[u].loan] # None /\ a[u].qty # 0
                 /\ a[u].kind = "money" <=> u \in money
      <4>1. a[u] = b[u] /\ b[u].loan # k
        BY <2>5, <3>1
      <4>2. b[u].loan \in Loans
        <5>1. b[u] \in ReturnRow
          BY <2>6, <3>1, <4>1
        <5> QED BY <5>1 DEF ReturnRow
      <4>3. /\ u \in used /\ Lent(b[u].loan) /\ b[u].qty # 0
            /\ b[u].kind = "money" <=> u \in money
        BY <1>0, <2>1, <3>1, <4>1 DEF LoanSerial, ReturnRows
      <4> QED BY <2>3, <4>1, <4>2, <4>3 DEF Lent
    <3> QED BY <1>0, <1>2, <2>1, <3>1 DEF LoanSerial, ReturnRows, Lent
  <2>8. LoansFit'
    <3>1. ASSUME NEW l \in Loans, Lent(l)' PROVE LoanFits(loan'[l], l, ret', loanCuts')
      <4>1. l # k /\ Lent(l) /\ loan'[l] = loan[l]
        BY <2>3, <2>4, <3>1 DEF Lent
      <4>2. PICK cut, o : cut = loanCuts /\ o = loan[l]
        OBVIOUS
      <4>3. LoanFits(o, l, b, cut)
        BY <1>0, <1>5, <2>1, <4>1, <4>2 DEF LoanSerial, LoansFit, FitNow
      <4>4. \A v \in Ids : a[v] = b[v] \/ (a[v] = None /\ b[v].loan # l)
        BY <2>5, <4>1
      <4>5. LoanFits(o, l, a, cut)
        BY <2>6, <4>3, <4>4, FitsOther
      <4> QED BY <1>2, <2>1, <4>1, <4>2, <4>5 DEF loanTraffic
    <3> QED BY <1>5, <3>1 DEF LoansFit, FitAhead, FitNow
  <2>9. MoneyKept'
    <3>1. ASSUME loanCuts' = 0, NEW u \in money' PROVE ret'[u] # None
      <4>1. u \in Ids /\ u \in money /\ ret[u] # None
        BY <1>0, <1>2, <1>6, <3>1 DEF LoanTypeOK, loanTraffic
      <4>2. ret[u].kind = "money"
        BY <1>0, <4>1 DEF LoanSerial, ReturnRows
      <4>3. ret[u].loan # k
        BY <1>4, <1>9, <4>1, <4>2 DEF Paid
      <4> QED BY <2>1, <2>5, <4>1, <4>3
    <3> QED BY <3>1 DEF MoneyKept
  <2> QED BY <1>2, <1>3, <1>7, <2>7, <2>8, <2>9, AloneAfter DEF LoanSerial
<1> QED BY <1>8, <1>9

\* Alone, no statement finds its row gone.
LEMMA NeverRefused ==
  ASSUME LoanIIInv, ~loanOverlap, NEW r \in Requests
  PROVE  ~LoanRefused(r)
<1>1. Carries(r)
  BY DEF LoanIIInv, LoanSerial
<1>2. \A u \in Ids : ret[u] # None => Lent(ret[u].loan)
  BY DEF LoanIIInv, LoanSerial, ReturnRows
<1>3. loanPc[r] = "cascade" => loanMem[r].id \in Ids
  BY <1>1 DEF LoanIIInv, LoanIInv, LoanTypeOK, Carries, CascadeCarried
<1> QED BY <1>1, <1>2, <1>3
        DEF LoanRefused, Carries, ReturnCarried, CascadeCarried, RemovalCarried

LEMMA SerialCut ==
  ASSUME LoanIIInv, ~loanOverlap, NEW r \in Requests, LoanCutOff(r)
  PROVE  LoanSerial'
<1>0. LoanSerial /\ LoanIInv /\ LoanTypeOK
  BY DEF LoanIIInv, LoanIInv
<1>1. /\ loanPc[r] # "idle" /\ loanPc'[r] = "idle" /\ OthersUnmoved(r)
      /\ loanCuts' # 0 /\ UNCHANGED <<loan, opened, ret, money, used>>
  BY <1>0 DEF LoanCutOff, LoanTypeOK, LoanGoto, LoanEnd, LoanRemember, OthersUnmoved
<1>2. Only(r)
  BY <1>0, <1>1, OnlyOne
<1>3. Carries(r)'
  BY <1>1 DEF Carries, ReturnCarried, ReturnAt, CascadeCarried, RemovalCarried
<1>4. \A q \in Requests, l \in Loans : ~CountsFor(q, l)'
  BY <1>1, <1>2 DEF CountsFor, Only, OthersUnmoved
<1>5. LoansFit'
  <2>1. ASSUME NEW l \in Loans, Lent(l) PROVE LoanFits(loan[l], l, ret, loanCuts')
    <3>1. PICK more, cut, o, rows : more = loanCuts' /\ cut = loanCuts /\ o = loan[l] /\ rows = ret
      OBVIOUS
    <3>2. CASE CountsFor(r, l)
      <4>1. PICK m : m = loanMem[r]
        OBVIOUS
      <4>2. m \in LoanLocal /\ o \in LoanRow
        BY <1>0, <2>1, <3>1, <4>1 DEF LoanTypeOK, Lent
      <4>3. m.old = o
        BY <1>0, <3>1, <3>2, <4>1 DEF CountsFor, LoanSerial, Carries, ReturnCarried
      <4>4. LoanFits(Counted(m.old, m), l, rows, cut)
        BY <1>0, <2>1, <3>1, <3>2, <4>1, <4>3 DEF LoanSerial, LoansFit, FitAhead
      <4>5. rows \in [Ids -> ReturnRow \cup {None}] /\ IsFiniteSet({v \in Ids : rows[v] # None})
        BY <1>0, <3>1, RowsBack DEF LoanSerial
      <4>6. LoanFits(m.old, l, rows, more)
        BY <1>1, <3>1, <4>2, <4>3, <4>4, <4>5, FitsBehind
      <4> QED BY <3>1, <4>3, <4>6
    <3>3. CASE ~CountsFor(r, l)
      <4>1. \A q \in Requests : ~CountsFor(q, l)
        BY <1>2, <3>3 DEF CountsFor, Only
      <4>2. LoanFits(o, l, rows, cut)
        BY <1>0, <2>1, <3>1, <4>1 DEF LoanSerial, LoansFit, FitNow
      <4>3. LoanFits(o, l, rows, more)
        BY <1>1, <3>1, <4>2, FitsCut
      <4> QED BY <3>1, <4>3
    <3> QED BY <3>2, <3>3
  <2> QED BY <1>1, <1>4, <2>1 DEF LoansFit, FitAhead, FitNow, Lent
<1>6. MoneyKept'
  BY <1>1 DEF MoneyKept
<1> QED BY <1>0, <1>1, <1>2, <1>3, <1>5, <1>6, AloneAfter, RowsQuiet DEF LoanSerial

\* A loan that was not there before has no returns.
LEMMA SerialCreate ==
  ASSUME LoanIIInv, ~loanOverlap, NEW k \in Loans, NEW q \in Quantities, CreateLoan(k, q)
  PROVE  LoanSerial'
<1>0. LoanSerial /\ LoanIInv /\ LoanTypeOK
  BY DEF LoanIIInv, LoanIInv
<1>1. PICK row : row = [qty |-> q, goods |-> 0, cash |-> 0, status |-> "OPEN"]
  OBVIOUS
<1>2. /\ k \notin opened /\ loan' = [loan EXCEPT ![k] = row]
      /\ UNCHANGED <<ret, money, used, loanPc, loanMem, loanTraffic>>
  BY <1>1 DEF CreateLoan
<1>3. ~Lent(k)
  BY <1>0, <1>2 DEF LoanIInv, OnlyOpened
<1>4. row \in LoanRow /\ row # None /\ q \in Nat /\ q # 0
  BY <1>1, LoanNotNone, LoanAssumption DEF LoanRow
<1>5. loan'[k] = row /\ \A l \in Loans \ {k} : loan'[l] = loan[l]
  BY <1>0, <1>2 DEF LoanTypeOK
<1>6. \A l \in Loans : Lent(l) => l # k /\ loan'[l] = loan[l] /\ loan'[l] # None
  BY <1>3, <1>5 DEF Lent
<1>7. \A u \in Ids : ret[u] # None => ret[u].loan \in Loans /\ Lent(ret[u].loan)
  BY <1>0 DEF LoanTypeOK, LoanSerial, ReturnRows
<1>8. ReturnRows'
  BY <1>0, <1>2, <1>6, <1>7 DEF LoanSerial, ReturnRows, Lent
<1>9. ASSUME NEW r \in Requests PROVE Carries(r)'
  <2>1. Carries(r) /\ LoanKnows(r) /\ loanMem[r] \in LoanLocal
    BY <1>0 DEF LoanSerial, LoanIInv, LoanTypeOK
  <2>2. ReturnCarried(r)'
    BY <1>2, <1>6, <2>1 DEF Carries, ReturnCarried, LoanKnows, Returning, Reads, Lent
  <2>3. ReturnAt(r)'
    BY <1>2, <2>1 DEF Carries, ReturnAt
  <2>4. CascadeCarried(r)'
    <3>1. loanPc[r] = "cascade" => loanMem[r].id \in Ids
      BY <1>0, <2>1 DEF Carries, CascadeCarried, LoanTypeOK
    <3> QED BY <1>2, <1>6, <1>7, <2>1, <3>1 DEF Carries, CascadeCarried
  <2>5. RemovalCarried(r)'
    <3>1. loanMem[r].loan # None => loanMem[r].loan \in Loans
      BY <2>1 DEF LoanLocal
    <3> QED BY <1>2, <1>6, <2>1, <3>1 DEF Carries, RemovalCarried, Paid, Lent
  <2> QED BY <2>2, <2>3, <2>4, <2>5 DEF Carries
<1>10. LoansFit'
  <2>1. ASSUME NEW l \in Loans, Lent(l)' PROVE FitAhead(l)' /\ FitNow(l)'
    <3>1. CASE l = k
      <4>1. PICK rows, cut : rows = ret /\ cut = loanCuts
        OBVIOUS
      <4>2. \A kind : BackIn(rows, k, kind) = {}
        BY <1>3, <1>7, <4>1 DEF BackIn
      <4>3. \A kind : BackOf(rows, k, kind) = 0
        BY <4>2, QuantityEmpty DEF BackOf
      <4>4. row.goods = 0 /\ row.cash = 0 /\ row.qty = q /\ row.status = "OPEN"
        BY <1>1
      <4>5. LoanFits(row, k, rows, cut)
        BY <1>4, <4>3, <4>4 DEF LoanFits
      <4>6. LoanFits(loan'[l], l, ret', loanCuts')
        BY <1>2, <1>5, <3>1, <4>1, <4>5 DEF loanTraffic
      <4>7. \A r \in Requests : ~CountsFor(r, k)'
        <5>1. \A r \in Requests : ~CountsFor(r, k)
          BY <1>0, <1>3 DEF CountsFor, LoanSerial, Carries, ReturnCarried
        <5> QED BY <1>2, <5>1 DEF CountsFor
      <4> QED BY <3>1, <4>6, <4>7 DEF FitAhead, FitNow
    <3>2. CASE l # k
      <4>1. Lent(l) /\ loan'[l] = loan[l]
        BY <1>5, <2>1, <3>2 DEF Lent
      <4>2. FitAhead(l) /\ FitNow(l)
        BY <1>0, <4>1 DEF LoanSerial, LoansFit
      <4> QED BY <1>2, <4>1, <4>2 DEF FitAhead, FitNow, CountsFor, loanTraffic
    <3> QED BY <3>1, <3>2
  <2> QED BY <2>1 DEF LoansFit
<1>11. MoneyKept'
  BY <1>0, <1>2 DEF LoanSerial, MoneyKept, loanTraffic
<1>12. OneLoanRequest'
  BY <1>0, <1>2 DEF LoanSerial, OneLoanRequest
<1> QED BY <1>8, <1>9, <1>10, <1>11, <1>12 DEF LoanSerial

LEMMA SerialInit == LoanInit => LoanIIInv
<1> SUFFICES ASSUME LoanInit PROVE LoanIIInv
  OBVIOUS
<1>1. LoanIInv
  BY LoanInitInv
<1>2. \A r \in Requests : loanPc[r] = "idle"
  BY DEF LoanInit
<1>3. OneLoanRequest /\ (\A r \in Requests : Carries(r))
  BY <1>2 DEF OneLoanRequest, Carries, ReturnCarried, ReturnAt, CascadeCarried, RemovalCarried
<1>4. ReturnRows
  BY FS_EmptySet DEF LoanInit, ReturnRows
<1>5. LoansFit /\ MoneyKept
  BY DEF LoanInit, LoansFit, MoneyKept, Lent
<1> QED BY <1>1, <1>3, <1>4, <1>5 DEF LoanIIInv, LoanSerial

LEMMA SerialStays ==
  ASSUME LoanIIInv, ~loanOverlap, UNCHANGED loanVars
  PROVE  LoanSerial'
<1>1. UNCHANGED <<loan, opened, ret, money, used, loanPc, loanMem, loanOverlap, loanCuts>>
  BY DEF loanVars, loanTraffic
<1>2. LoanSerial
  BY DEF LoanIIInv
<1>3. OneLoanRequest' /\ ReturnRows' /\ MoneyKept'
  BY <1>1, <1>2 DEF LoanSerial, OneLoanRequest, ReturnRows, MoneyKept, Lent
<1>4. \A r \in Requests : Carries(r)'
  BY <1>1, <1>2
     DEF LoanSerial, Carries, ReturnCarried, ReturnAt, CascadeCarried, RemovalCarried, Lent, Paid
<1>5. LoansFit'
  BY <1>1, <1>2 DEF LoanSerial, LoansFit, FitAhead, FitNow, CountsFor, Lent
<1> QED BY <1>3, <1>4, <1>5 DEF LoanSerial

LEMMA SerialNext == LoanIIInv /\ [LoanNext]_loanVars => LoanIIInv'
<1> SUFFICES ASSUME LoanIIInv, [LoanNext]_loanVars PROVE LoanIIInv'
  OBVIOUS
<1>1. LoanIInv'
  BY LoanNextInv DEF LoanIIInv
<1>2. LoanTypeOK'
  BY <1>1 DEF LoanIInv
<1>3. loanOverlap' = loanOverlap
  BY DEF LoanNext, LoanBegin, LoanStep, CreateLoan, BeginReturn, BeginRemove, BeginDeleteMoney,
         LoanReject, PayReturn, RecordReturn, CountReturn, CascadeRead, CascadeWrite, DeleteLoan,
         LoanRefuse, LoanCutOff, loanVars, loanTraffic
<1>4. ASSUME ~loanOverlap PROVE LoanSerial'
  <2>1. ASSUME NEW l \in Loans, NEW q \in Quantities, CreateLoan(l, q) PROVE LoanSerial'
    BY <1>4, <2>1, SerialCreate
  <2>2. ASSUME NEW r \in Requests, NEW l \in Loans, NEW kind \in {"goods", "money"},
               NEW q \in Quantities, BeginReturn(r, l, kind, q)
        PROVE  LoanSerial'
    BY <1>4, <2>2, SerialBeginReturn
  <2>3. ASSUME NEW r \in Requests, NEW l \in Loans, BeginRemove(r, l) PROVE LoanSerial'
    BY <1>4, <2>3, SerialBeginOther
  <2>4. ASSUME NEW r \in Requests, NEW u \in Ids, BeginDeleteMoney(r, u) PROVE LoanSerial'
    BY <1>4, <2>4, SerialBeginOther
  <2>5. ASSUME NEW r \in Requests, PayReturn(r) PROVE LoanSerial'
    BY <1>4, <2>5, SerialPay
  <2>6. ASSUME NEW r \in Requests, RecordReturn(r) PROVE LoanSerial'
    BY <1>2, <1>4, <2>6, SerialRecord
  <2>7. ASSUME NEW r \in Requests, CountReturn(r) PROVE LoanSerial'
    BY <1>4, <2>7, SerialCount
  <2>8. ASSUME NEW r \in Requests, NEW u \in Ids, CascadeRead(r, u) PROVE LoanSerial'
    BY <1>4, <2>8, SerialCascadeRead
  <2>9. ASSUME NEW r \in Requests, CascadeWrite(r) PROVE LoanSerial'
    BY <1>2, <1>4, <2>9, SerialCascadeWrite
  <2>10. ASSUME NEW r \in Requests, DeleteLoan(r) PROVE LoanSerial'
    BY <1>2, <1>4, <2>10, SerialDelete
  <2>11. ASSUME NEW r \in Requests, LoanRefuse(r) PROVE LoanSerial'
    BY <1>4, <2>11, NeverRefused DEF LoanRefuse
  <2>12. ASSUME NEW r \in Requests, LoanCutOff(r) PROVE LoanSerial'
    BY <1>4, <2>12, SerialCut
  <2>13. CASE UNCHANGED loanVars
    BY <1>4, <2>13, SerialStays
  <2>14. ASSUME NEW r \in Requests, NEW l \in Loans, LoanReject(r, l) PROVE LoanSerial'
    BY <2>13, <2>14 DEF LoanReject
  <2> QED
    BY <2>1, <2>2, <2>3, <2>4, <2>5, <2>6, <2>7, <2>8, <2>9, <2>10, <2>11, <2>12, <2>13, <2>14
       DEF LoanNext, LoanBegin, LoanStep
<1> QED BY <1>1, <1>3, <1>4 DEF LoanIIInv

LEMMA SerialCounts == LoanIIInv => ReturnsCounted
<1> SUFFICES ASSUME LoanIIInv PROVE ReturnsCounted
  OBVIOUS
<1>1. ASSUME ~loanOverlap PROVE LoanSerial /\ LoanTypeOK
  BY <1>1 DEF LoanIIInv, LoanIInv
<1>2. CountersMatchReturns
  <2> SUFFICES ASSUME LoansCalm, NEW l \in Loans, Lent(l)
               PROVE  /\ loan[l].goods = Returned(l, "goods") /\ loan[l].cash = Returned(l, "money")
                      /\ loan[l].status = "RETURNED" <=> loan[l].goods + loan[l].cash = loan[l].qty
    BY DEF CountersMatchReturns
  <2>1. FitNow(l) /\ \A r \in Requests : ~CountsFor(r, l)
    BY <1>1 DEF LoansCalm, LoanSerial, LoansFit, CountsFor
  <2> QED BY <2>1, ReturnedIs DEF LoansCalm, FitNow, LoanFits
<1>3. MoneyHasReturn
  BY <1>1 DEF MoneyHasReturn, LoansCalm, LoanSerial, MoneyKept
<1>4. ReturnsHaveMoney
  BY <1>1 DEF ReturnsHaveMoney, LoansAlone, LoanSerial, ReturnRows
<1>5. CountersBehindReturns
  <2> SUFFICES ASSUME LoansAlone, NEW l \in Loans, Lent(l)
               PROVE  loan[l].goods <= Returned(l, "goods") /\ loan[l].cash <= Returned(l, "money")
    BY DEF CountersBehindReturns
  <2>0. LoanSerial /\ LoanTypeOK
    BY <1>1 DEF LoansAlone
  <2>1. CASE \E r \in Requests : CountsFor(r, l)
    <3>1. PICK r \in Requests : CountsFor(r, l)
      BY <2>1
    <3>2. PICK m, o, rows, cut : m = loanMem[r] /\ o = loan[l] /\ rows = ret /\ cut = loanCuts
      OBVIOUS
    <3>3. m \in LoanLocal /\ o \in LoanRow
      BY <2>0, <3>2 DEF LoanTypeOK, Lent
    <3>4. m.old = o
      BY <2>0, <3>1, <3>2 DEF CountsFor, LoanSerial, Carries, ReturnCarried
    <3>5. LoanFits(Counted(m.old, m), l, rows, cut)
      BY <2>0, <3>1, <3>2, <3>4 DEF LoanSerial, LoansFit, FitAhead
    <3>6. rows \in [Ids -> ReturnRow \cup {None}] /\ IsFiniteSet({v \in Ids : rows[v] # None})
      BY <2>0, <3>2, RowsBack DEF LoanSerial
    <3>7. PICK more : more # 0
      OBVIOUS
    <3>8. m.old \in LoanRow
      BY <3>3, <3>4
    <3>9. LoanFits(m.old, l, rows, more)
      BY <3>3, <3>5, <3>6, <3>7, <3>8, FitsBehind
    <3> QED BY <3>2, <3>4, <3>9, ReturnedIs DEF LoanFits
  <2>2. CASE \A r \in Requests : ~CountsFor(r, l)
    BY <2>0, <2>2, ReturnedIs DEF LoanSerial, LoansFit, FitNow, LoanFits
  <2> QED BY <2>1, <2>2
<1> QED BY <1>2, <1>3, <1>4, <1>5 DEF ReturnsCounted

\* Of requests that come one at a time, for any loans, returns and quantities:
\* the counters of a loan are the sums of its returns, it is closed exactly
\* when all has come back, money and returns go together; wherever one was cut
\* off, nothing is counted that is not recorded and paid (loans.service.ts).
THEOREM AlwaysCounted == LoanSpec => []ReturnsCounted
  BY SerialInit, SerialNext, SerialCounts, PTL DEF LoanSpec

-----------------------------------------------------------------------------
(* Invoices.  A delete statement takes rows of one invoice only, and       *)
(* updateCommission only its commissions; so whatever commits in between,  *)
(* the rows of the last version committed are all there.                   *)

\* A request under way knows what its handler has looked up.
DocKnows(r) ==
    /\ docPc[r] # "idle" => docMem[r].doc \in InvoiceIds
    /\ docPc[r] \in {"number", "insert", "clear", "rebuild"} => docMem[r].v \in Versions
    /\ docPc[r] = "return" => docMem[r].slip \in ReturnIds

\* A row is taken by requests that are about to commit the change of its invoice.
Rightful(e) ==
    \A r \in e.takers :
        /\ docPc[r] \in {"rebuild", "award"}
        /\ docMem[r].doc = e.of
        /\ docPc[r] = "award" => e.line.kind \in Fees

DocIInv ==
    /\ InvoiceTypeOK
    /\ \A r \in Requests : DocKnows(r)
    /\ \A e \in entry : Rightful(e)
    /\ InvoicesPosted

InvoiceRow == [no : Nat, v : Versions, commission : Parties \cup {None}]
SlipRow == [of : InvoiceIds \cup {None}, qty : Nat]
InvoiceEntryRow == [of : InvoiceIds, line : LineType, takers : SUBSET Requests]
DocLocal ==
    [doc : InvoiceIds \cup {None}, slip : ReturnIds \cup {None}, v : Versions \cup {None},
     no : Nat, auto : BOOLEAN, tries : Nat, to : Parties \cup {None}, qty : Nat]

-----------------------------------------------------------------------------
(* The rows of a version.                                                  *)

LEMMA NetType ==
    ASSUME NEW v \in Versions
    PROVE  GoodsNet(v) \in Nat /\ ChargesNet(v) \in Nat
<1>1. v.items \in Nat /\ v.charges \in Nat /\ v.discount \in Nat
  BY InvoiceAssumption DEF VersionType
<1> QED
  BY <1>1 DEF GoodsNet, ChargesNet, OfGoods, Discount, Smaller

LEMMA LinesType ==
    ASSUME NEW v \in Versions
    PROVE  Lines(v) \subseteq LineType
<1>1. /\ v.party \in Parties /\ v.paid \in Nat /\ v.foreign \in BOOLEAN
      /\ v.owner \in Parties \cup {None}
  BY InvoiceAssumption DEF VersionType
<1>2. Line("goods", v.party, GoodsNet(v), FALSE) \in LineType
  BY <1>1, NetType DEF Line, LineType
<1>3. Line("charges", v.party, ChargesNet(v), FALSE) \in LineType
  BY <1>1, NetType DEF Line, LineType
<1>4. Line("paid", v.party, v.paid, v.foreign) \in LineType
  BY <1>1 DEF Line, LineType
<1>5. ASSUME Written(v)[Line("itemFee", v.owner, 1, FALSE).kind]
      PROVE  Line("itemFee", v.owner, 1, FALSE) \in LineType
  <2>1. v.owner # None
    BY <1>5 DEF Written, Line
  <2> QED BY <1>1, <2>1 DEF Line, LineType
<1> QED BY <1>2, <1>3, <1>4, <1>5 DEF Lines

LEMMA LineKinds ==
    ASSUME NEW v \in Versions, NEW l \in Lines(v), l.kind # "itemFee"
    PROVE  l.kind \notin Fees
BY DEF Lines, Line, Fees

LEMMA FeeType == ASSUME NEW p \in Parties PROVE InvoiceFee(p) \in LineType
BY DEF InvoiceFee, Line, LineType

LEMMA PostedRows ==
    ASSUME NEW d \in InvoiceIds, NEW lines \in SUBSET LineType
    PROVE  /\ Posted(d, lines) \subseteq InvoiceEntryRow
           /\ \A e \in Posted(d, lines) : e.of = d /\ e.takers = {} /\ e.line \in lines
           /\ \A l \in lines : \E e \in Posted(d, lines) : e.of = d /\ e.line = l
<1> DEFINE Row(l) == [of |-> d, line |-> l, takers |-> {}]
<1>1. \A l \in lines : Row(l) \in InvoiceEntryRow /\ Row(l).of = d /\ Row(l).takers = {}
                       /\ Row(l).line = l
  BY DEF InvoiceEntryRow
<1>2. Posted(d, lines) = {Row(l) : l \in lines}
  BY DEF Posted
<1> HIDE DEF Row
<1> QED BY <1>1, <1>2

-----------------------------------------------------------------------------
(* What InvoicesPosted asks of the rows of an invoice is kept by what keeps *)
(* these rows, whoever takes them.                                          *)

Needed(v) == {l \in Lines(v) : l.kind # "itemFee"}
Posts(d, v, rows) == \A l \in Needed(v) : \E e \in rows : e.of = d /\ e.line = l

LEMMA PostedRestated ==
    InvoicesPosted <=>
        \A d \in InvoiceIds : Issued(d) /\ d \notin struck => Posts(d, invoice[d].v, entry)
BY DEF InvoicesPosted, Posts, Needed, Shown, RowsOf

\* taking rows, or giving them back, hides none
LEMMA TakenStay ==
    ASSUME NEW r \in Requests, NEW rows \in SUBSET entry, entry \subseteq InvoiceEntryRow,
           Take(r, rows)
    PROVE  /\ entry' \subseteq InvoiceEntryRow
           /\ \A e \in entry : \E f \in entry' : f.of = e.of /\ f.line = e.line
           /\ \A f \in entry' : f \in entry \/ \E e \in rows :
                  f.of = e.of /\ f.line = e.line /\ f.takers = e.takers \cup {r}
<1>1. \A e \in entry :
        LET f == [e EXCEPT !.takers = @ \cup {r}] IN
        f \in InvoiceEntryRow /\ f.of = e.of /\ f.line = e.line /\ f.takers = e.takers \cup {r}
  BY DEF InvoiceEntryRow
<1>2. entry' = (entry \ rows) \cup {[e EXCEPT !.takers = @ \cup {r}] : e \in rows}
  BY DEF Take
<1> QED BY <1>1, <1>2

LEMMA ReleasedStay ==
    ASSUME NEW r \in Requests, entry \subseteq InvoiceEntryRow
    PROVE  /\ Released(r) \subseteq InvoiceEntryRow
           /\ \A e \in entry : \E f \in Released(r) : f.of = e.of /\ f.line = e.line
           /\ \A f \in Released(r) : \E e \in entry :
                  f.of = e.of /\ f.line = e.line /\ f.takers = e.takers \ {r}
<1>1. \A e \in entry :
        LET f == [e EXCEPT !.takers = @ \ {r}] IN
        f \in InvoiceEntryRow /\ f.of = e.of /\ f.line = e.line /\ f.takers = e.takers \ {r}
  BY DEF InvoiceEntryRow
<1> QED BY <1>1 DEF Released

-----------------------------------------------------------------------------
(* One request moves.                                                      *)

Places == {"idle", "number", "insert", "clear", "rebuild", "fees", "award", "remove", "return"}

LEMMA DocBlankType == BlankDoc \in DocLocal
BY DEF BlankDoc, DocLocal

LEMMA DocMoveType ==
    ASSUME InvoiceTypeOK, NEW r \in Requests, NEW l \in Places, NEW m \in DocLocal,
           DocGoto(r, l), DocRemember(r, m)
    PROVE  /\ docPc' \in [Requests -> Places] /\ docMem' \in [Requests -> DocLocal]
           /\ docPc'[r] = l /\ docMem'[r] = m
           /\ \A q \in Requests \ {r} : docPc'[q] = docPc[q] /\ docMem'[q] = docMem[q]
BY DEF InvoiceTypeOK, DocGoto, DocRemember, Places, DocLocal

LEMMA OthersKnow ==
    ASSUME NEW q \in Requests, DocKnows(q), docPc'[q] = docPc[q], docMem'[q] = docMem[q]
    PROVE  DocKnows(q)'
BY DEF DocKnows

LEMMA RightfulKept ==
    ASSUME NEW r \in Requests, NEW e \in InvoiceEntryRow, Rightful(e), r \notin e.takers,
           \A q \in Requests \ {r} : docPc'[q] = docPc[q] /\ docMem'[q] = docMem[q]
    PROVE  Rightful(e)'
BY DEF Rightful, InvoiceEntryRow

LEMMA TakesNone ==
    ASSUME DocIInv, NEW r \in Requests, docPc[r] \notin {"rebuild", "award"}, NEW e \in entry
    PROVE  r \notin e.takers
BY DEF DocIInv, Rightful

\* A request that has taken no row moves and the data stay as they are, but for
\* the ids that were given out.
LEMMA DocQuietMove ==
    ASSUME DocIInv, NEW r \in Requests, docPc[r] \notin {"rebuild", "award"},
           UNCHANGED <<invoice, entry, slip, struck>>,
           issued' \subseteq InvoiceIds \cup ReturnIds,
           docOverlap' \in BOOLEAN, docBegun' \in Nat,
           NEW l \in Places, NEW m \in DocLocal, DocGoto(r, l), DocRemember(r, m),
           l # "idle" => m.doc \in InvoiceIds,
           l \in {"number", "insert", "clear", "rebuild"} => m.v \in Versions,
           l = "return" => m.slip \in ReturnIds
    PROVE  DocIInv'
<1> USE DEF DocIInv
<1>1. /\ docPc' \in [Requests -> Places] /\ docMem' \in [Requests -> DocLocal]
      /\ docPc'[r] = l /\ docMem'[r] = m
      /\ \A q \in Requests \ {r} : docPc'[q] = docPc[q] /\ docMem'[q] = docMem[q]
  BY DocMoveType
<1>2. InvoiceTypeOK'
  BY <1>1 DEF InvoiceTypeOK, Places, DocLocal
<1>3. ASSUME NEW q \in Requests PROVE DocKnows(q)'
  <2>1. CASE q = r
    BY <1>1, <2>1 DEF DocKnows
  <2>2. CASE q # r
    BY <1>1, <2>2, OthersKnow
  <2> QED BY <2>1, <2>2
<1>4. ASSUME NEW e \in entry' PROVE Rightful(e)'
  <2>1. e \in entry /\ e \in InvoiceEntryRow
    BY <1>4 DEF InvoiceTypeOK, InvoiceEntryRow
  <2>2. r \notin e.takers
    BY <2>1, TakesNone
  <2> QED BY <1>1, <2>1, <2>2, RightfulKept
<1>5. InvoicesPosted'
  BY DEF InvoicesPosted, Issued, Shown, RowsOf
<1> QED BY <1>2, <1>3, <1>4, <1>5

LEMMA EntryInvoiced == InvoiceTypeOK => entry \subseteq InvoiceEntryRow
BY DEF InvoiceTypeOK, InvoiceEntryRow

-----------------------------------------------------------------------------
(* The statements that write.                                              *)

\* Request r ends, and its commit changes the data: what is left to show of
\* each action is what it does to the rows.
LEMMA CommitMove ==
    ASSUME DocIInv, NEW r \in Requests, DocEnd(r),
           invoice' \in [InvoiceIds -> {None} \cup InvoiceRow],
           entry' \subseteq InvoiceEntryRow,
           slip' \in [ReturnIds -> {None} \cup SlipRow],
           struck' \subseteq InvoiceIds,
           UNCHANGED <<issued, docTraffic>>,
           \A f \in entry' : \/ f \in entry /\ r \notin f.takers
                             \/ f.takers = {}
                             \/ \E e \in entry : /\ f.of = e.of /\ f.line = e.line
                                                 /\ f.takers = e.takers \ {r}
    PROVE  InvoiceTypeOK' /\ (\A q \in Requests : DocKnows(q)') /\ \A f \in entry' : Rightful(f)'
<1> USE DEF DocIInv
<1>1. /\ docPc' \in [Requests -> Places] /\ docMem' \in [Requests -> DocLocal]
      /\ docPc'[r] = "idle" /\ docMem'[r] = BlankDoc
      /\ \A q \in Requests \ {r} : docPc'[q] = docPc[q] /\ docMem'[q] = docMem[q]
  BY DocMoveType, DocBlankType DEF DocEnd, Places
<1>2. InvoiceTypeOK'
  BY <1>1 DEF InvoiceTypeOK, Places, DocLocal, InvoiceRow, SlipRow, InvoiceEntryRow, docTraffic
<1>3. ASSUME NEW q \in Requests PROVE DocKnows(q)'
  <2>1. CASE q = r
    BY <1>1, <2>1 DEF DocKnows
  <2>2. CASE q # r
    BY <1>1, <2>2, OthersKnow
  <2> QED BY <2>1, <2>2
<1>4. ASSUME NEW f \in entry' PROVE Rightful(f)'
  <2>1. CASE f \in entry /\ r \notin f.takers
    BY <1>1, <2>1, RightfulKept, EntryInvoiced
  <2>2. CASE f.takers = {}
    BY <2>2 DEF Rightful
  <2>3. ASSUME NEW e \in entry, f.of = e.of, f.line = e.line, f.takers = e.takers \ {r}
        PROVE  Rightful(f)'
    <3>1. Rightful(e) /\ e \in InvoiceEntryRow
      BY EntryInvoiced
    <3> QED BY <1>1, <2>3, <3>1 DEF Rightful, InvoiceEntryRow
  <2> QED BY <1>4, <2>1, <2>2, <2>3
<1> QED BY <1>2, <1>3, <1>4

LEMMA InsertStep ==
    ASSUME DocIInv, NEW r \in Requests, InsertInvoice(r)
    PROVE  DocIInv'
<1> USE DEF DocIInv
<1> DEFINE m == docMem[r]
<1>1. docPc[r] = "insert" /\ m.doc \in InvoiceIds /\ m.v \in Versions /\ m \in DocLocal
  BY DEF InsertInvoice, DocKnows, InvoiceTypeOK, DocLocal
<1>2. Lines(m.v) \subseteq LineType
  BY <1>1, LinesType
<1>3. /\ entry' = entry \cup Posted(m.doc, Lines(m.v))
      /\ invoice' = [invoice EXCEPT ![m.doc] = [no |-> m.no, v |-> m.v, commission |-> None]]
      /\ DocEnd(r) /\ UNCHANGED <<slip, issued, struck, docTraffic>>
  BY DEF InsertInvoice
<1>4. /\ Posted(m.doc, Lines(m.v)) \subseteq InvoiceEntryRow
      /\ \A e \in Posted(m.doc, Lines(m.v)) : e.takers = {}
      /\ \A l \in Lines(m.v) : \E e \in Posted(m.doc, Lines(m.v)) : e.of = m.doc /\ e.line = l
  BY <1>1, <1>2, PostedRows
<1> HIDE DEF m
<1>5. invoice' \in [InvoiceIds -> {None} \cup InvoiceRow]
  BY <1>1, <1>3 DEF InvoiceTypeOK, InvoiceRow, DocLocal
<1>6. \A e \in entry : r \notin e.takers
  BY <1>1, TakesNone
<1>7. InvoiceTypeOK' /\ (\A q \in Requests : DocKnows(q)') /\ \A f \in entry' : Rightful(f)'
  BY <1>3, <1>4, <1>5, <1>6, CommitMove, EntryInvoiced DEF InvoiceTypeOK, SlipRow
<1>8. ASSUME NEW d \in InvoiceIds, Issued(d)', d \notin struck'
      PROVE  Posts(d, invoice'[d].v, entry')
  <2>1. CASE d = m.doc
    <3>1. invoice'[d].v = m.v
      BY <1>3, <2>1 DEF InvoiceTypeOK
    <3> QED BY <1>3, <1>4, <2>1, <3>1 DEF Posts, Needed
  <2>2. CASE d # m.doc
    <3>1. invoice'[d] = invoice[d]
      BY <1>3, <2>2 DEF InvoiceTypeOK
    <3>2. Posts(d, invoice[d].v, entry)
      BY <1>3, <1>8, <3>1, PostedRestated DEF Issued
    <3> QED BY <1>3, <3>1, <3>2 DEF Posts
  <2> QED BY <2>1, <2>2
<1>9. InvoicesPosted'
  BY <1>8 DEF InvoicesPosted, Posts, Needed, Shown, RowsOf
<1> QED BY <1>7, <1>9

LEMMA RebuildStep ==
    ASSUME DocIInv, NEW r \in Requests, RebuildInvoice(r)
    PROVE  DocIInv'
<1> USE DEF DocIInv
<1> DEFINE m == docMem[r]
<1>1. docPc[r] = "rebuild" /\ m.doc \in InvoiceIds /\ m.v \in Versions /\ m \in DocLocal
  BY DEF RebuildInvoice, DocKnows, InvoiceTypeOK, DocLocal
<1>2. Rebuilt(m) \subseteq LineType /\ Lines(m.v) \subseteq Rebuilt(m)
  <2>1. m.to # None => InvoiceFee(m.to) \in LineType
    BY <1>1, FeeType DEF DocLocal
  <2> QED BY <1>1, <2>1, LinesType DEF Rebuilt
<1>3. /\ entry' = Left(r) \cup Posted(m.doc, Rebuilt(m))
      /\ invoice' = [invoice EXCEPT ![m.doc].v = m.v]
      /\ struck' = struck \ {m.doc} /\ Issued(m.doc)
      /\ DocEnd(r) /\ UNCHANGED <<slip, issued, docTraffic>>
  BY DEF RebuildInvoice
<1>4. /\ Posted(m.doc, Rebuilt(m)) \subseteq InvoiceEntryRow
      /\ \A e \in Posted(m.doc, Rebuilt(m)) : e.takers = {}
      /\ \A l \in Rebuilt(m) : \E e \in Posted(m.doc, Rebuilt(m)) : e.of = m.doc /\ e.line = l
  BY <1>1, <1>2, PostedRows
<1> HIDE DEF m
<1>5. invoice' \in [InvoiceIds -> {None} \cup InvoiceRow]
  <2>1. invoice[m.doc] \in InvoiceRow
    BY <1>1, <1>3 DEF InvoiceTypeOK, InvoiceRow, Issued
  <2>2. [invoice[m.doc] EXCEPT !.v = m.v] \in InvoiceRow
    BY <1>1, <2>1 DEF InvoiceRow
  <2> QED BY <1>3, <2>2 DEF InvoiceTypeOK, InvoiceRow
<1>6. InvoiceTypeOK' /\ (\A q \in Requests : DocKnows(q)') /\ \A f \in entry' : Rightful(f)'
  BY <1>3, <1>4, <1>5, CommitMove, EntryInvoiced DEF InvoiceTypeOK, SlipRow, Left
<1>7. ASSUME NEW d \in InvoiceIds, Issued(d)', d \notin struck'
      PROVE  Posts(d, invoice'[d].v, entry')
  <2>1. CASE d = m.doc
    <3>1. invoice'[d].v = m.v
      <4>1. invoice[d] \in InvoiceRow
        BY <1>1, <1>3, <2>1 DEF InvoiceTypeOK, InvoiceRow, Issued
      <4> QED BY <1>3, <2>1, <4>1 DEF InvoiceTypeOK, InvoiceRow
    <3> QED BY <1>2, <1>3, <1>4, <2>1, <3>1 DEF Posts, Needed
  <2>2. CASE d # m.doc
    <3>1. invoice'[d] = invoice[d]
      BY <1>3, <2>2 DEF InvoiceTypeOK
    <3>2. Posts(d, invoice[d].v, entry)
      BY <1>3, <1>7, <2>2, <3>1, PostedRestated DEF Issued
    <3>3. \A e \in entry : e.of = d => e \in entry'
      BY <1>1, <1>3, <2>2 DEF Left, Rightful, m
    <3> QED BY <3>1, <3>2, <3>3 DEF Posts
  <2> QED BY <2>1, <2>2
<1>8. InvoicesPosted'
  BY <1>7 DEF InvoicesPosted, Posts, Needed, Shown, RowsOf
<1> QED BY <1>6, <1>8

LEMMA AwardStep ==
    ASSUME DocIInv, NEW r \in Requests, AwardCommission(r)
    PROVE  DocIInv'
<1> USE DEF DocIInv
<1> DEFINE m == docMem[r]
           new == Posted(m.doc, IF m.to = None THEN {} ELSE {InvoiceFee(m.to)})
<1>1. docPc[r] = "award" /\ m.doc \in InvoiceIds /\ m \in DocLocal
  BY DEF AwardCommission, DocKnows, InvoiceTypeOK, DocLocal
<1>2. new \subseteq InvoiceEntryRow /\ \A e \in new : e.takers = {}
  <2>1. (IF m.to = None THEN {} ELSE {InvoiceFee(m.to)}) \subseteq LineType
    BY <1>1, FeeType DEF DocLocal
  <2> QED BY <1>1, <2>1, PostedRows
<1>3. /\ entry' = Left(r) \cup new
      /\ invoice' = [invoice EXCEPT ![m.doc].commission = m.to]
      /\ Issued(m.doc)
      /\ DocEnd(r) /\ UNCHANGED <<slip, issued, struck, docTraffic>>
  BY DEF AwardCommission
<1> HIDE DEF m, new
<1>4. invoice[m.doc] \in InvoiceRow
  BY <1>1, <1>3 DEF InvoiceTypeOK, InvoiceRow, Issued
<1>5. invoice' \in [InvoiceIds -> {None} \cup InvoiceRow]
  <2>1. [invoice[m.doc] EXCEPT !.commission = m.to] \in InvoiceRow
    BY <1>1, <1>4 DEF InvoiceRow, DocLocal
  <2> QED BY <1>3, <2>1 DEF InvoiceTypeOK, InvoiceRow
<1>6. InvoiceTypeOK' /\ (\A q \in Requests : DocKnows(q)') /\ \A f \in entry' : Rightful(f)'
  BY <1>2, <1>3, <1>5, CommitMove, EntryInvoiced DEF InvoiceTypeOK, SlipRow, Left
<1>7. ASSUME NEW d \in InvoiceIds, Issued(d)', d \notin struck'
      PROVE  Posts(d, invoice'[d].v, entry')
  <2>1. invoice'[d].v = invoice[d].v /\ Issued(d)
    BY <1>3, <1>4, <1>7 DEF InvoiceTypeOK, InvoiceRow, Issued
  <2>2. Posts(d, invoice[d].v, entry)
    BY <1>3, <1>7, <2>1, PostedRestated
  <2>3. invoice[d].v \in Versions
    BY <2>1 DEF InvoiceTypeOK, Issued
  <2>4. \A e \in entry : e.line \in Needed(invoice[d].v) => e \in entry'
    <3>1. \A e \in entry : e.line.kind \notin Fees => e \in entry'
      BY <1>1, <1>3 DEF Left, Rightful
    <3> QED BY <2>3, <3>1, LineKinds DEF Needed
  <2> QED BY <2>1, <2>2, <2>4 DEF Posts
<1>8. InvoicesPosted'
  BY <1>7 DEF InvoicesPosted, Posts, Needed, Shown, RowsOf
<1> QED BY <1>6, <1>8

LEMMA RemoveStep ==
    ASSUME DocIInv, NEW r \in Requests, RemoveInvoice(r)
    PROVE  DocIInv'
<1> USE DEF DocIInv
<1> DEFINE d == docMem[r].doc
<1>1. docPc[r] = "remove" /\ d \in InvoiceIds /\ \A e \in entry : r \notin e.takers
  BY TakesNone DEF RemoveInvoice, DocKnows
<1>2. /\ entry' = entry \ RowsOf(d)
      /\ invoice' = [invoice EXCEPT ![d] = None]
      /\ struck' = struck \ {d}
      /\ slip' = [s \in ReturnIds |-> IF slip[s] # None /\ slip[s].of = d
                                      THEN [slip[s] EXCEPT !.of = None] ELSE slip[s]]
      /\ DocEnd(r) /\ UNCHANGED <<issued, docTraffic>>
  BY DEF RemoveInvoice
<1> HIDE DEF d
<1>3. slip' \in [ReturnIds -> {None} \cup SlipRow]
  <2>1. \A s \in ReturnIds : slip[s] # None => [slip[s] EXCEPT !.of = None] \in SlipRow
    BY DEF InvoiceTypeOK, SlipRow
  <2>2. slip \in [ReturnIds -> {None} \cup SlipRow]
    BY DEF InvoiceTypeOK, SlipRow
  <2> QED BY <1>2, <2>1, <2>2
<1>4. invoice' \in [InvoiceIds -> {None} \cup InvoiceRow]
  BY <1>1, <1>2 DEF InvoiceTypeOK, InvoiceRow
<1>5. InvoiceTypeOK' /\ (\A q \in Requests : DocKnows(q)') /\ \A f \in entry' : Rightful(f)'
  BY <1>1, <1>2, <1>3, <1>4, CommitMove, EntryInvoiced DEF InvoiceTypeOK
<1>6. ASSUME NEW k \in InvoiceIds, Issued(k)', k \notin struck'
      PROVE  Posts(k, invoice'[k].v, entry')
  <2>1. k # d /\ invoice'[k] = invoice[k]
    BY <1>1, <1>2, <1>6 DEF InvoiceTypeOK, Issued
  <2>2. Posts(k, invoice[k].v, entry)
    BY <1>2, <1>6, <2>1, PostedRestated DEF Issued
  <2> QED BY <1>2, <2>1, <2>2 DEF Posts, RowsOf
<1>7. InvoicesPosted'
  BY <1>6 DEF InvoicesPosted, Posts, Needed, Shown, RowsOf
<1> QED BY <1>5, <1>7

LEMMA SlipStep ==
    ASSUME DocIInv, NEW r \in Requests, InsertReturn(r)
    PROVE  DocIInv'
<1> USE DEF DocIInv
<1>1. /\ docPc[r] = "return" /\ docMem[r].doc \in InvoiceIds /\ docMem[r].slip \in ReturnIds
      /\ docMem[r].qty \in Nat /\ \A e \in entry : r \notin e.takers
  BY TakesNone DEF InsertReturn, DocKnows, InvoiceTypeOK
<1>2. slip' \in [ReturnIds -> {None} \cup SlipRow]
  <2>1. [of |-> docMem[r].doc, qty |-> docMem[r].qty] \in SlipRow
    BY <1>1 DEF SlipRow
  <2>2. slip \in [ReturnIds -> {None} \cup SlipRow]
    BY DEF InvoiceTypeOK, SlipRow
  <2> QED BY <2>1, <2>2 DEF InsertReturn
<1>3. InvoiceTypeOK' /\ (\A q \in Requests : DocKnows(q)') /\ \A f \in entry' : Rightful(f)'
  BY <1>1, <1>2, CommitMove, EntryInvoiced DEF InsertReturn, InvoiceTypeOK, InvoiceRow
<1>4. InvoicesPosted'
  BY DEF InsertReturn, InvoicesPosted, Issued, Shown, RowsOf
<1> QED BY <1>3, <1>4

\* Rows that change hands are still shown.
LEMMA StillPosted ==
    ASSUME InvoicesPosted, UNCHANGED <<invoice, struck>>,
           \A e \in entry : \E f \in entry' : f.of = e.of /\ f.line = e.line
    PROVE  InvoicesPosted'
<1>1. ASSUME NEW d \in InvoiceIds, Issued(d)', d \notin struck'
      PROVE  Posts(d, invoice'[d].v, entry')
  <2>1. Posts(d, invoice[d].v, entry)
    BY <1>1, PostedRestated DEF Issued
  <2> QED BY <2>1 DEF Posts
<1> QED BY <1>1 DEF InvoicesPosted, Posts, Needed, Shown, RowsOf

LEMMA RollBackStep ==
    ASSUME DocIInv, NEW r \in Requests, RollBack(r)
    PROVE  DocIInv'
<1> USE DEF DocIInv
<1>1. /\ entry' = Released(r) /\ DocEnd(r)
      /\ UNCHANGED <<invoice, slip, issued, struck, docTraffic>>
  BY DEF RollBack
<1>2. /\ entry' \subseteq InvoiceEntryRow
      /\ \A e \in entry : \E f \in entry' : f.of = e.of /\ f.line = e.line
      /\ \A f \in entry' : \E e \in entry :
             f.of = e.of /\ f.line = e.line /\ f.takers = e.takers \ {r}
  BY <1>1, ReleasedStay, EntryInvoiced
<1>3. InvoiceTypeOK' /\ (\A q \in Requests : DocKnows(q)') /\ \A f \in entry' : Rightful(f)'
  BY <1>1, <1>2, CommitMove DEF InvoiceTypeOK, InvoiceRow, SlipRow
<1> QED BY <1>1, <1>2, <1>3, StillPosted

\* A delete statement of a request that has taken no row so far.
LEMMA TakeMove ==
    ASSUME DocIInv, NEW r \in Requests, docPc[r] \in {"clear", "fees"},
           NEW l \in {"rebuild", "award"}, l = "rebuild" => docPc[r] = "clear",
           NEW rows \in SUBSET entry, Take(r, rows),
           \A e \in rows : e.of = docMem[r].doc /\ (l = "award" => e.line.kind \in Fees),
           DocGoto(r, l),
           UNCHANGED <<invoice, slip, issued, struck, docMem, docTraffic>>
    PROVE  DocIInv'
<1> USE DEF DocIInv
<1>1. /\ entry' \subseteq InvoiceEntryRow
      /\ \A e \in entry : \E f \in entry' : f.of = e.of /\ f.line = e.line
      /\ \A f \in entry' : f \in entry \/ \E e \in rows :
             f.of = e.of /\ f.line = e.line /\ f.takers = e.takers \cup {r}
  BY TakenStay, EntryInvoiced
<1>2. /\ docPc' \in [Requests -> Places] /\ docPc'[r] = l
      /\ \A q \in Requests \ {r} : docPc'[q] = docPc[q] /\ docMem'[q] = docMem[q]
  BY DEF InvoiceTypeOK, DocGoto, Places
<1>3. InvoiceTypeOK'
  BY <1>1, <1>2 DEF InvoiceTypeOK, Places, InvoiceEntryRow, docTraffic
<1>4. ASSUME NEW q \in Requests PROVE DocKnows(q)'
  <2>1. CASE q = r
    BY <1>2, <2>1 DEF DocKnows
  <2>2. CASE q # r
    BY <1>2, <2>2, OthersKnow
  <2> QED BY <2>1, <2>2
<1>5. ASSUME NEW f \in entry' PROVE Rightful(f)'
  <2>1. CASE f \in entry
    BY <1>2, <2>1, TakesNone, RightfulKept, EntryInvoiced
  <2>2. ASSUME NEW e \in rows, f.of = e.of, f.line = e.line, f.takers = e.takers \cup {r}
        PROVE  Rightful(f)'
    <3>1. Rightful(e) /\ e \in InvoiceEntryRow /\ r \notin e.takers
      BY TakesNone, EntryInvoiced
    <3>2. ASSUME NEW q \in e.takers
          PROVE  /\ docPc'[q] \in {"rebuild", "award"} /\ docMem'[q].doc = f.of
                 /\ docPc'[q] = "award" => f.line.kind \in Fees
      BY <1>2, <2>2, <3>1, <3>2 DEF Rightful, InvoiceEntryRow
    <3>3. /\ docPc'[r] \in {"rebuild", "award"} /\ docMem'[r].doc = f.of
          /\ docPc'[r] = "award" => f.line.kind \in Fees
      BY <1>2, <2>2
    <3> QED BY <2>2, <3>2, <3>3 DEF Rightful
  <2> QED BY <1>1, <1>5, <2>1, <2>2
<1>6. InvoicesPosted'
  BY <1>1, StillPosted
<1> QED BY <1>3, <1>4, <1>5, <1>6

LEMMA StrikeStep ==
    ASSUME DocIInv, NEW e \in entry, StrikeRow(e)
    PROVE  DocIInv'
<1> USE DEF DocIInv
<1>1. /\ entry' = entry \ {e} /\ struck' = struck \cup {e.of} /\ e.of \in InvoiceIds
      /\ UNCHANGED <<invoice, slip, issued, docPc, docMem, docTraffic>>
  BY DEF StrikeRow, InvoiceTypeOK
<1>2. InvoiceTypeOK'
  BY <1>1 DEF InvoiceTypeOK, docTraffic
<1>3. (\A r \in Requests : DocKnows(r)') /\ \A f \in entry' : Rightful(f)'
  BY <1>1 DEF DocKnows, Rightful
<1>4. ASSUME NEW d \in InvoiceIds, Issued(d)', d \notin struck'
      PROVE  Posts(d, invoice'[d].v, entry')
  <2>1. Posts(d, invoice[d].v, entry) /\ d # e.of
    BY <1>1, <1>4, PostedRestated DEF Issued
  <2> QED BY <1>1, <2>1 DEF Posts
<1>5. InvoicesPosted'
  BY <1>4 DEF InvoicesPosted, Posts, Needed, Shown, RowsOf
<1> QED BY <1>2, <1>3, <1>5

-----------------------------------------------------------------------------
(* Requests that begin, and those that only read.                          *)

LEMMA EnterType ==
    ASSUME InvoiceTypeOK, NEW r \in Requests, EnterDoc(r)
    PROVE  docPc[r] = "idle" /\ docOverlap' \in BOOLEAN /\ docBegun' \in Nat
BY DEF InvoiceTypeOK, EnterDoc

LEMMA BeginStep ==
    ASSUME DocIInv, NEW r \in Requests, BeginDoc(r)
    PROVE  DocIInv'
<1> USE DEF DocIInv
<1>1. ASSUME NEW v \in Versions, NEW no \in ManualNos \cup {0}, BeginCreateInvoice(r, v, no)
      PROVE  DocIInv'
  <2>1. PICK d \in InvoiceIds \ issued :
          /\ issued' = issued \cup {d}
          /\ DocRemember(r, [BlankDoc EXCEPT !.doc = d, !.v = v, !.no = no, !.auto = (no = 0)])
    BY <1>1 DEF BeginCreateInvoice
  <2>2. [BlankDoc EXCEPT !.doc = d, !.v = v, !.no = no, !.auto = (no = 0)] \in DocLocal
    <3>1. no \in Nat
      BY InvoiceAssumption
    <3>2. \A auto \in BOOLEAN :
            [BlankDoc EXCEPT !.doc = d, !.v = v, !.no = no, !.auto = auto] \in DocLocal
      BY <3>1 DEF BlankDoc, DocLocal
    <3> QED BY <3>2
  <2>3. issued' \subseteq InvoiceIds \cup ReturnIds
    BY <2>1 DEF InvoiceTypeOK
  <2>4. docPc[r] = "idle" /\ docOverlap' \in BOOLEAN /\ docBegun' \in Nat
    BY <1>1, EnterType DEF BeginCreateInvoice
  <2>5. CASE no = 0
    <3>1. DocGoto(r, "number") /\ UNCHANGED <<invoice, entry, slip, struck>>
      BY <1>1, <2>5 DEF BeginCreateInvoice
    <3> QED BY <2>1, <2>2, <2>3, <2>4, <3>1, DocQuietMove DEF Places, BlankDoc
  <2>6. CASE no # 0
    <3>1. DocGoto(r, "insert") /\ UNCHANGED <<invoice, entry, slip, struck>>
      BY <1>1, <2>6 DEF BeginCreateInvoice
    <3> QED BY <2>1, <2>2, <2>3, <2>4, <3>1, DocQuietMove DEF Places, BlankDoc
  <2> QED BY <2>5, <2>6
<1>2. ASSUME NEW d \in InvoiceIds, NEW v \in Versions, BeginUpdateInvoice(r, d, v)
      PROVE  DocIInv'
  <2> DEFINE m == [BlankDoc EXCEPT !.doc = d, !.v = v, !.no = invoice[d].no,
                                   !.to = invoice[d].commission]
  <2>1. m \in DocLocal /\ m.doc = d /\ m.v = v
    BY <1>2 DEF BeginUpdateInvoice, Issued, InvoiceTypeOK, BlankDoc, DocLocal
  <2>2. docPc[r] = "idle" /\ docOverlap' \in BOOLEAN /\ docBegun' \in Nat
    BY <1>2, EnterType DEF BeginUpdateInvoice
  <2>3. DocGoto(r, "clear") /\ DocRemember(r, m) /\ UNCHANGED docData
    BY <1>2 DEF BeginUpdateInvoice
  <2> HIDE DEF m
  <2> QED BY <2>1, <2>2, <2>3, DocQuietMove DEF Places, docData, InvoiceTypeOK
<1>3. ASSUME NEW d \in InvoiceIds, NEW p \in Parties \cup {None}, BeginCommission(r, d, p)
      PROVE  DocIInv'
  <2> DEFINE m == [BlankDoc EXCEPT !.doc = d, !.to = p]
  <2>1. m \in DocLocal /\ m.doc = d
    BY DEF BlankDoc, DocLocal
  <2>2. docPc[r] = "idle" /\ docOverlap' \in BOOLEAN /\ docBegun' \in Nat
    BY <1>3, EnterType DEF BeginCommission
  <2>3. DocGoto(r, "fees") /\ DocRemember(r, m) /\ UNCHANGED docData
    BY <1>3 DEF BeginCommission
  <2> HIDE DEF m
  <2> QED BY <2>1, <2>2, <2>3, DocQuietMove DEF Places, docData, InvoiceTypeOK
<1>4. ASSUME NEW d \in InvoiceIds, NEW cascade \in BOOLEAN, BeginRemoveInvoice(r, d, cascade)
      PROVE  DocIInv'
  <2> DEFINE m == [BlankDoc EXCEPT !.doc = d]
  <2>1. m \in DocLocal /\ m.doc = d
    BY DEF BlankDoc, DocLocal
  <2>2. docPc[r] = "idle" /\ docOverlap' \in BOOLEAN /\ docBegun' \in Nat
    BY <1>4, EnterType DEF BeginRemoveInvoice
  <2>3. DocGoto(r, "remove") /\ DocRemember(r, m) /\ UNCHANGED docData
    BY <1>4 DEF BeginRemoveInvoice
  <2> HIDE DEF m
  <2> QED BY <2>1, <2>2, <2>3, DocQuietMove DEF Places, docData, InvoiceTypeOK
<1>5. ASSUME NEW d \in InvoiceIds, NEW q \in Sent, BeginReturnGoods(r, d, q)
      PROVE  DocIInv'
  <2>1. PICK s \in ReturnIds \ issued :
          /\ issued' = issued \cup {s}
          /\ DocRemember(r, [BlankDoc EXCEPT !.doc = d, !.slip = s, !.qty = q])
    BY <1>5 DEF BeginReturnGoods
  <2> DEFINE m == [BlankDoc EXCEPT !.doc = d, !.slip = s, !.qty = q]
  <2>2. m \in DocLocal /\ m.doc = d /\ m.slip = s
    BY InvoiceAssumption DEF BlankDoc, DocLocal
  <2>3. docPc[r] = "idle" /\ docOverlap' \in BOOLEAN /\ docBegun' \in Nat
    BY <1>5, EnterType DEF BeginReturnGoods
  <2>4. DocGoto(r, "return") /\ DocRemember(r, m) /\ UNCHANGED <<invoice, entry, slip, struck>>
    BY <1>5, <2>1 DEF BeginReturnGoods
  <2>5. issued' \subseteq InvoiceIds \cup ReturnIds
    BY <2>1 DEF InvoiceTypeOK
  <2> HIDE DEF m
  <2> QED BY <2>2, <2>3, <2>4, <2>5, DocQuietMove DEF Places
<1>6. ASSUME RejectDoc(r) PROVE DocIInv'
  BY <1>6 DEF RejectDoc, docVars, docData, docTraffic, InvoiceTypeOK, DocKnows, Rightful,
              InvoicesPosted, Issued, Shown, RowsOf
<1> QED BY <1>1, <1>2, <1>3, <1>4, <1>5, <1>6 DEF BeginDoc

LEMMA NumberStep ==
    ASSUME DocIInv, NEW r \in Requests, ReadNumber(r)
    PROVE  DocIInv'
<1> USE DEF DocIInv
<1>1. docPc[r] = "number" /\ docMem[r] \in DocLocal
      /\ docMem[r].doc \in InvoiceIds /\ docMem[r].v \in Versions
  BY DEF ReadNumber, DocKnows, InvoiceTypeOK, DocLocal
<1>2. PICK max \in {0} \cup Numbers(docMem[r].v.party) :
        DocRemember(r, [docMem[r] EXCEPT !.no = max + 1])
  BY DEF ReadNumber
<1>3. max \in Nat
  BY <1>2 DEF Numbers, Issued, InvoiceTypeOK
<1> DEFINE m == [docMem[r] EXCEPT !.no = max + 1]
<1>4. m \in DocLocal /\ m.doc \in InvoiceIds /\ m.v \in Versions
  BY <1>1, <1>3 DEF DocLocal
<1>5. DocGoto(r, "insert") /\ DocRemember(r, m) /\ UNCHANGED docData
      /\ docOverlap' \in BOOLEAN /\ docBegun' \in Nat
  BY <1>2 DEF ReadNumber, docTraffic, InvoiceTypeOK
<1> HIDE DEF m
<1> QED BY <1>1, <1>4, <1>5, DocQuietMove DEF Places, docData, InvoiceTypeOK

LEMMA RetryStep ==
    ASSUME DocIInv, NEW r \in Requests, RetryInvoice(r)
    PROVE  DocIInv'
<1> USE DEF DocIInv
<1> DEFINE m == [docMem[r] EXCEPT !.tries = @ + 1]
<1>1. docPc[r] = "insert" /\ m \in DocLocal /\ m.doc \in InvoiceIds /\ m.v \in Versions
  BY DEF RetryInvoice, DocKnows, InvoiceTypeOK, DocLocal
<1>2. UNCHANGED docData /\ docOverlap' \in BOOLEAN /\ docBegun' \in Nat
  BY DEF RetryInvoice, docTraffic, InvoiceTypeOK
<1>3. (DocGoto(r, "number") /\ DocRemember(r, m))
      \/ (DocGoto(r, "idle") /\ DocRemember(r, BlankDoc))
  BY DEF RetryInvoice, DocEnd
<1> HIDE DEF m
<1> QED BY <1>1, <1>2, <1>3, DocBlankType, DocQuietMove DEF Places, docData, InvoiceTypeOK

-----------------------------------------------------------------------------

LEMMA StepStep ==
    ASSUME DocIInv, NEW r \in Requests, StepDoc(r)
    PROVE  DocIInv'
<1>1. CASE ClearRows(r)
  <2>1. RowsOf(docMem[r].doc) \in SUBSET entry
        /\ \A e \in RowsOf(docMem[r].doc) : e.of = docMem[r].doc
    BY DEF RowsOf
  <2> QED BY <1>1, <2>1, TakeMove DEF ClearRows
<1>2. CASE ClearFees(r)
  <2>1. FeesOf(docMem[r].doc) \in SUBSET entry
        /\ \A e \in FeesOf(docMem[r].doc) : e.of = docMem[r].doc /\ e.line.kind \in Fees
    BY DEF FeesOf, RowsOf
  <2> QED BY <1>2, <2>1, TakeMove DEF ClearFees
<1> QED
  BY <1>1, <1>2, NumberStep, InsertStep, RetryStep, RebuildStep, AwardStep, RemoveStep,
     SlipStep, RollBackStep DEF StepDoc

LEMMA DocInitInv == InvoiceInit => DocIInv
<1> SUFFICES ASSUME InvoiceInit PROVE DocIInv OBVIOUS
<1>1. InvoiceTypeOK
  BY DocBlankType DEF InvoiceInit, InvoiceTypeOK, DocLocal
<1> QED BY <1>1 DEF InvoiceInit, DocIInv, DocKnows, Rightful, InvoicesPosted, Issued

LEMMA DocNextInv == DocIInv /\ [InvoiceNext]_docVars => DocIInv'
<1> SUFFICES ASSUME DocIInv, [InvoiceNext]_docVars PROVE DocIInv' OBVIOUS
<1>1. ASSUME NEW s \in ReturnIds, RemoveReturn(s) PROVE DocIInv'
  <2>1. slip' \in [ReturnIds -> {None} \cup SlipRow]
    BY <1>1 DEF RemoveReturn, DocIInv, InvoiceTypeOK, SlipRow
  <2> QED BY <1>1, <2>1 DEF RemoveReturn, DocIInv, InvoiceTypeOK, SlipRow, docTraffic, DocKnows,
                            Rightful, InvoicesPosted, Issued, Shown, RowsOf
<1>2. CASE UNCHANGED docVars
  BY <1>2 DEF docVars, docData, docTraffic, DocIInv, InvoiceTypeOK, DocKnows, Rightful,
              InvoicesPosted, Issued, Shown, RowsOf
<1> QED BY <1>1, <1>2, BeginStep, StepStep, StrikeStep DEF InvoiceNext

\* The columns of invoices, their rows and their returns, and what each request
\* has read, have their types, whatever requests overlap or are rolled back.
THEOREM InvoiceTypeCorrect == InvoiceSpec => []InvoiceTypeOK
<1>1. DocIInv => InvoiceTypeOK BY DEF DocIInv
<1> QED BY DocInitInv, DocNextInv, <1>1, PTL DEF InvoiceSpec

\* An invoice that is not fake has every row of its present version in the
\* ledger, whatever updates, commissions, removals and roll backs overlap.
THEOREM PostedAlways == InvoiceSpec => []InvoicesPosted
<1>1. DocIInv => InvoicesPosted BY DEF DocIInv
<1> QED BY DocInitInv, DocNextInv, <1>1, PTL DEF InvoiceSpec

-----------------------------------------------------------------------------
(* Requests one at a time: the rows of an invoice are those of its version *)
(* and its commission, and no more comes back than it has.                 *)

OwedKinds == {"goods", "charges"}
FeeParties(lines) == {l.party : l \in {k \in lines : k.kind = "invoiceFee"}}

\* The rows of an invoice of which none was struck off.
DocRows(d) ==
    Issued(d) /\ d \notin struck =>
        /\ {l \in Shown(d) : l.kind \in OwedKinds} = {l \in Lines(invoice[d].v) : l.kind \in OwedKinds}
        /\ ~invoice[d].v.fake => FeeParties(Shown(d)) = {invoice[d].commission} \ {None}

\* What a lone request knows when it is at l with m.
DocAlone(r, l, m) ==
    /\ l \in {"number", "insert"} => m.doc \in issued /\ ~Issued(m.doc)
    /\ l \in {"clear", "rebuild", "fees", "award", "return"} => Issued(m.doc)
    /\ l \in {"clear", "rebuild"} => m.to = invoice[m.doc].commission
    /\ l = "rebuild" => \A e \in RowsOf(m.doc) : r \in e.takers
    /\ l = "award" => \A e \in FeesOf(m.doc) : r \in e.takers
    /\ l = "return" => m.slip \in issued /\ slip[m.slip] = None /\ m.qty <= StillOut(m.doc)

DocIds ==
    /\ IsFiniteSet(issued)
    /\ \A d \in InvoiceIds : Issued(d) => d \in issued
    /\ \A e \in entry : Issued(e.of)
    /\ \A s \in ReturnIds : slip[s] # None => s \in issued /\ (slip[s].of # None => Issued(slip[s].of))

OneDoc == \A p, q \in Requests : docPc[p] # "idle" /\ docPc[q] # "idle" => p = q

DocSerial ==
    /\ OneDoc /\ DocIds
    /\ \A d \in InvoiceIds : DocRows(d)
    /\ \A r \in Requests : DocAlone(r, docPc[r], docMem[r])

DocIIInv == DocIInv /\ (~docOverlap => DocSerial)

-----------------------------------------------------------------------------
(* The lines of a version, and what they come to.                          *)

LEMMA LinesAre ==
    ASSUME NEW v \in Versions
    PROVE  /\ FeeParties(Lines(v)) = {}
           /\ v.fake => Lines(v) = {}
           /\ ~v.fake =>
                {l \in Lines(v) : l.kind \in OwedKinds} =
                    (IF GoodsNet(v) # 0 \/ v.charges = 0
                     THEN {Line("goods", v.party, GoodsNet(v), FALSE)} ELSE {})
                    \cup (IF v.charges # 0 THEN {Line("charges", v.party, ChargesNet(v), FALSE)} ELSE {})
<1>1. v.fake => Lines(v) = {}
  BY DEF Lines
<1>2. \A l \in Lines(v) : l.kind # "invoiceFee"
  BY DEF Lines, Line
<1>3. FeeParties(Lines(v)) = {}
  BY <1>2 DEF FeeParties
<1> DEFINE G == Line("goods", v.party, GoodsNet(v), FALSE)
           C == Line("charges", v.party, ChargesNet(v), FALSE)
           P == Line("paid", v.party, v.paid, v.foreign)
           F == Line("itemFee", v.owner, 1, FALSE)
<1>4. G.kind = "goods" /\ C.kind = "charges" /\ P.kind = "paid" /\ F.kind = "itemFee"
  BY DEF Line
<1>5. ~v.fake => Lines(v) = {l \in {G, C, P, F} : Written(v)[l.kind]}
  BY DEF Lines
<1>6. /\ Written(v)["goods"] = (GoodsNet(v) # 0 \/ v.charges = 0)
      /\ Written(v)["charges"] = (v.charges # 0)
  BY DEF Written
<1> HIDE DEF G, C, P, F
<1>7. ASSUME ~v.fake
      PROVE  {l \in Lines(v) : l.kind \in OwedKinds} =
                 (IF GoodsNet(v) # 0 \/ v.charges = 0 THEN {G} ELSE {})
                 \cup (IF v.charges # 0 THEN {C} ELSE {})
  BY <1>4, <1>5, <1>6, <1>7 DEF OwedKinds
<1> QED BY <1>1, <1>3, <1>7 DEF G, C

LEMMA AmountIsTotal ==
  ASSUME NEW S, IsFiniteSet(S)
  PROVE  \E f : (\A y \in S : f[y] = y.amount) /\ AmountOf(S) = TotalOf(f, S)
<1>1. PICK f : f = [y \in S |-> y.amount]
  OBVIOUS
<1>2. PICK h : Sums(h, f, SUBSET S) /\ TotalOf(f, S) = h[S]
  BY SumIs
<1>3. \A s \in SUBSET S : s # {} => f[Pick(s)] = Pick(s).amount
  BY <1>1, PickIn
<1>4. h = [s \in SUBSET S |-> IF s = {} THEN 0 ELSE Pick(s).amount + h[s \ {Pick(s)}]]
  BY <1>2, <1>3 DEF Sums
<1> DEFINE g == CHOOSE k :
        k = [s \in SUBSET S |-> IF s = {} THEN 0 ELSE Pick(s).amount + k[s \ {Pick(s)}]]
<1>5. g = [s \in SUBSET S |-> IF s = {} THEN 0 ELSE Pick(s).amount + g[s \ {Pick(s)}]]
  BY <1>4
<1>6. AmountOf(S) = g[S]
  BY DEF AmountOf, MapThenSumSet, MapThenFoldSet, Pick
<1> HIDE DEF g
<1>7. Sums(g, f, SUBSET S)
  BY <1>3, <1>5 DEF Sums
<1>8. g[S] = h[S]
  <2>1. S \in SUBSET (S \cap S) /\ \A x \in S : f[x] = f[x]
    OBVIOUS
  <2> QED BY <1>2, <1>7, <2>1, SumsSame
<1> QED BY <1>1, <1>2, <1>6, <1>8

LEMMA AmountOfNone == AmountOf({}) = 0
<1>1. PICK f : AmountOf({}) = TotalOf(f, {})
  BY FS_EmptySet, AmountIsTotal
<1> QED BY <1>1, SumEmpty

LEMMA AmountOfOne ==
  ASSUME NEW x, x.amount \in Int
  PROVE  AmountOf({x}) = x.amount
<1>1. IsFiniteSet({x})
  BY FS_Singleton
<1>2. PICK f : (\A y \in {x} : f[y] = y.amount) /\ AmountOf({x}) = TotalOf(f, {x})
  BY <1>1, AmountIsTotal
<1>3. PICK S : S = {x}
  OBVIOUS
<1>4. IsFiniteSet(S) /\ (\A z \in S : f[z] \in Int) /\ x \in S /\ S \ {x} = {}
  BY <1>1, <1>2, <1>3
<1>5. TotalOf(f, S) = f[x] + TotalOf(f, S \ {x})
  BY <1>4, SumAdds
<1>6. TotalOf(f, S \ {x}) = 0 /\ f[x] = x.amount
  BY <1>2, <1>4, SumEmpty
<1>7. AmountOf({x}) = TotalOf(f, S)
  BY <1>2, <1>3
<1> QED BY <1>5, <1>6, <1>7

LEMMA AmountOfTwo ==
  ASSUME NEW x, NEW y, x # y, x.amount \in Int, y.amount \in Int
  PROVE  AmountOf({x, y}) = x.amount + y.amount
<1>1. PICK S : S = {x, y}
  OBVIOUS
<1>2. IsFiniteSet(S)
  <2>1. IsFiniteSet({x}) /\ S = {x} \cup {y}
    BY <1>1, FS_Singleton
  <2> QED BY <2>1, FS_AddElement
<1>3. PICK f : (\A z \in S : f[z] = z.amount) /\ AmountOf(S) = TotalOf(f, S)
  BY <1>2, AmountIsTotal
<1>4. (\A z \in S : f[z] \in Int) /\ x \in S /\ y \in S /\ S \ {y} = {x}
  BY <1>1, <1>3
<1>5. TotalOf(f, S) = f[y] + TotalOf(f, S \ {y})
  BY <1>2, <1>4, SumAdds
<1>6. AmountOf({x}) = TotalOf(f, {x})
  <2>1. IsFiniteSet({x})
    BY FS_Singleton
  <2>2. PICK e : (\A z \in {x} : e[z] = z.amount) /\ AmountOf({x}) = TotalOf(e, {x})
    BY <2>1, AmountIsTotal
  <2>3. \A z \in {x} : e[z] = f[z]
    BY <1>3, <1>4, <2>2
  <2> QED BY <2>1, <2>2, <2>3, SumSame
<1>7. AmountOf({x}) = x.amount
  BY AmountOfOne
<1>8. f[y] = y.amount /\ TotalOf(f, S \ {y}) = x.amount
  BY <1>3, <1>4, <1>6, <1>7
<1>9. AmountOf({x, y}) = TotalOf(f, S)
  BY <1>1, <1>3
<1> QED BY <1>5, <1>8, <1>9

\* What the lines of a version come to is its net: the discount is taken from the goods
\* first, and from the charges with what is left.
LEMMA OwedOfVersion ==
    ASSUME NEW v \in Versions
    PROVE  AmountOf({l \in Lines(v) : l.kind \in OwedKinds}) = Net(v)
<1>1. v.items \in Nat /\ v.charges \in Nat /\ v.discount \in Nat
  BY InvoiceAssumption DEF VersionType
<1>2. CASE v.fake
  BY <1>2, LinesAre, AmountOfNone DEF Net
<1>3. CASE ~v.fake
  <2> DEFINE G == Line("goods", v.party, GoodsNet(v), FALSE)
             C == Line("charges", v.party, ChargesNet(v), FALSE)
  <2>1. G # C /\ G.amount = GoodsNet(v) /\ C.amount = ChargesNet(v)
    BY DEF Line
  <2>2. GoodsNet(v) \in Int /\ ChargesNet(v) \in Int
    BY NetType
  <2>3. /\ GoodsNet(v) + ChargesNet(v) = v.items + v.charges - Discount(v)
        /\ v.charges = 0 => ChargesNet(v) = 0
    BY <1>1 DEF GoodsNet, ChargesNet, OfGoods, Discount, Smaller
  <2>4. {l \in Lines(v) : l.kind \in OwedKinds} =
            (IF GoodsNet(v) # 0 \/ v.charges = 0 THEN {G} ELSE {}) \cup (IF v.charges # 0 THEN {C} ELSE {})
    BY <1>3, LinesAre
  <2>5. Net(v) = v.items + v.charges - Discount(v)
    BY <1>3 DEF Net
  <2> HIDE DEF G, C
  <2>6. AmountOf({G, C}) = GoodsNet(v) + ChargesNet(v)
    BY <2>1, <2>2, AmountOfTwo
  <2>7. AmountOf({G}) = GoodsNet(v) /\ AmountOf({C}) = ChargesNet(v)
    BY <2>1, <2>2, AmountOfOne
  <2>8. CASE v.charges = 0
    <3>1. {l \in Lines(v) : l.kind \in OwedKinds} = {G}
      BY <2>4, <2>8
    <3>2. GoodsNet(v) = Net(v)
      BY <2>2, <2>3, <2>5, <2>8
    <3> QED BY <2>7, <3>1, <3>2
  <2>9. CASE v.charges # 0 /\ GoodsNet(v) = 0
    <3>1. {l \in Lines(v) : l.kind \in OwedKinds} = {C}
      BY <2>4, <2>9
    <3> QED BY <2>2, <2>3, <2>5, <2>7, <2>9, <3>1
  <2>10. CASE v.charges # 0 /\ GoodsNet(v) # 0
    <3>1. {l \in Lines(v) : l.kind \in OwedKinds} = {G, C}
      BY <2>4, <2>10
    <3> QED BY <2>3, <2>5, <2>6, <3>1
  <2> QED BY <2>8, <2>9, <2>10
<1> QED BY <1>2, <1>3

\* The ledger agrees with the invoices when its rows are as DocRows says.
LEMMA RowsBalance ==
    ASSUME DocIIInv
    PROVE  InvoicesBalance
<1>1. ASSUME CalmDocs, NEW d \in InvoiceIds, Issued(d), d \notin struck
      PROVE  /\ Owed(d) = Net(invoice[d].v)
             /\ ~invoice[d].v.fake => FeeParties(Shown(d)) = {invoice[d].commission} \ {None}
  <2>1. DocRows(d)
    BY <1>1 DEF CalmDocs, DocIIInv, DocSerial
  <2>2. invoice[d].v \in Versions
    BY <1>1 DEF DocIIInv, DocIInv, InvoiceTypeOK, Issued
  <2>3. AmountOf({l \in Lines(invoice[d].v) : l.kind \in OwedKinds}) = Net(invoice[d].v)
    BY <2>2, OwedOfVersion
  <2>4. {l \in Shown(d) : l.kind \in OwedKinds} = {l \in Lines(invoice[d].v) : l.kind \in OwedKinds}
    BY <1>1, <2>1 DEF DocRows
  <2>5. Owed(d) = AmountOf({l \in Shown(d) : l.kind \in OwedKinds})
    BY DEF Owed, OwedKinds
  <2> QED BY <1>1, <2>1, <2>3, <2>4, <2>5 DEF DocRows
<1> QED BY <1>1 DEF InvoicesBalance, OwedIsNet, CommissionsKept, FeeParties

-----------------------------------------------------------------------------
(* One request at a time moves.                                            *)

\* The request r moves to l with m while the others rest.
LEMMA DocAloneMove ==
    ASSUME InvoiceTypeOK, NEW r \in Requests, NEW l \in Places, NEW m \in DocLocal,
           DocGoto(r, l), DocRemember(r, m),
           \A q \in Requests \ {r} : docPc[q] = "idle",
           DocIds', \A d \in InvoiceIds : DocRows(d)', DocAlone(r, l, m)'
    PROVE  DocSerial'
<1>1. /\ docPc' \in [Requests -> Places] /\ docMem' \in [Requests -> DocLocal]
      /\ docPc'[r] = l /\ docMem'[r] = m
      /\ \A q \in Requests \ {r} : docPc'[q] = docPc[q] /\ docMem'[q] = docMem[q]
  BY DocMoveType
<1>2. OneDoc'
  BY <1>1 DEF OneDoc
<1>3. ASSUME NEW q \in Requests PROVE DocAlone(q, docPc[q], docMem[q])'
  <2>1. CASE q = r
    BY <1>1, <2>1
  <2>2. CASE q # r
    BY <1>1, <2>2 DEF DocAlone
  <2> QED BY <2>1, <2>2
<1> QED BY <1>2, <1>3 DEF DocSerial

\* A request that ends leaves nothing to know.
LEMMA DocAloneEnds ==
    ASSUME InvoiceTypeOK, NEW r \in Requests, DocEnd(r),
           \A q \in Requests \ {r} : docPc[q] = "idle",
           DocIds', \A d \in InvoiceIds : DocRows(d)'
    PROVE  DocSerial'
<1>1. DocAlone(r, "idle", BlankDoc)'
  BY DEF DocAlone
<1> QED BY <1>1, DocAloneMove, DocBlankType DEF DocEnd, Places

LEMMA OthersRest ==
    ASSUME DocSerial, NEW r \in Requests, docPc[r] # "idle"
    PROVE  \A q \in Requests \ {r} : docPc[q] = "idle"
BY DEF DocSerial, OneDoc

LEMMA EntersAlone ==
    ASSUME ~docOverlap, NEW r \in Requests, EnterDoc(r)
    PROVE  \A q \in Requests \ {r} : docPc[q] = "idle"
BY DEF EnterDoc, NoneUnderWay

\* The rows of an invoice, and what it says of itself, are what they were.
LEMMA DocRowsStay ==
    ASSUME NEW d \in InvoiceIds, DocRows(d), invoice'[d] = invoice[d], Shown(d)' = Shown(d),
           d \notin struck' => d \notin struck
    PROVE  DocRows(d)'
BY DEF DocRows, Issued

\* Only ids are given out.
LEMMA DocQuietRows ==
    ASSUME DocSerial, UNCHANGED <<invoice, entry, slip, struck>>,
           issued \subseteq issued', IsFiniteSet(issued')
    PROVE  DocIds' /\ \A d \in InvoiceIds : DocRows(d)'
<1>1. DocIds'
  BY DEF DocSerial, DocIds, Issued
<1>2. \A d \in InvoiceIds : Shown(d)' = Shown(d)
  BY DEF Shown, RowsOf
<1> QED BY <1>1, <1>2, DocRowsStay DEF DocSerial

LEMMA DocQuietAlone ==
    ASSUME InvoiceTypeOK, DocSerial, NEW r \in Requests, NEW l \in Places, NEW m \in DocLocal,
           DocGoto(r, l), DocRemember(r, m),
           \A q \in Requests \ {r} : docPc[q] = "idle",
           UNCHANGED <<invoice, entry, slip, struck>>,
           issued \subseteq issued', IsFiniteSet(issued'),
           DocAlone(r, l, m)'
    PROVE  DocSerial'
BY DocQuietRows, DocAloneMove

-----------------------------------------------------------------------------

LEMMA BeginSerial ==
    ASSUME DocIInv, DocSerial, ~docOverlap, NEW r \in Requests, BeginDoc(r)
    PROVE  DocSerial'
<1>0. InvoiceTypeOK /\ DocIds /\ IsFiniteSet(issued)
  BY DEF DocIInv, DocSerial, DocIds
<1>1. ASSUME NEW v \in Versions, NEW no \in ManualNos \cup {0}, BeginCreateInvoice(r, v, no)
      PROVE  DocSerial'
  <2>1. PICK d \in InvoiceIds \ issued :
          /\ issued' = issued \cup {d}
          /\ DocRemember(r, [BlankDoc EXCEPT !.doc = d, !.v = v, !.no = no, !.auto = (no = 0)])
    BY <1>1 DEF BeginCreateInvoice
  <2> DEFINE m == [BlankDoc EXCEPT !.doc = d, !.v = v, !.no = no, !.auto = (no = 0)]
             l == IF no = 0 THEN "number" ELSE "insert"
  <2>2. m \in DocLocal
    <3>1. no \in Nat
      BY InvoiceAssumption
    <3>2. \A auto \in BOOLEAN :
            [BlankDoc EXCEPT !.doc = d, !.v = v, !.no = no, !.auto = auto] \in DocLocal
      BY <3>1 DEF BlankDoc, DocLocal
    <3> QED BY <3>2
  <2>3. m.doc = d
    BY DEF BlankDoc
  <2>4. /\ l \in Places /\ l \in {"number", "insert"} /\ DocGoto(r, l) /\ DocRemember(r, m)
        /\ UNCHANGED <<invoice, entry, slip, struck>>
    BY <1>1, <2>1 DEF BeginCreateInvoice, Places
  <2> HIDE DEF m, l
  <2>5. IsFiniteSet(issued') /\ issued \subseteq issued'
    BY <1>0, <2>1, FS_AddElement
  <2>6. d \in issued' /\ ~Issued(d)'
    BY <1>0, <2>1, <2>4 DEF DocIds, Issued
  <2>7. PICK n : n = m
    OBVIOUS
  <2>8. PICK k : k = l
    OBVIOUS
  <2>9. DocAlone(r, k, n)'
    BY <2>3, <2>4, <2>6, <2>7, <2>8 DEF DocAlone
  <2>10. \A q \in Requests \ {r} : docPc[q] = "idle"
    BY <1>1, EntersAlone DEF BeginCreateInvoice
  <2> QED BY <1>0, <2>2, <2>4, <2>5, <2>7, <2>8, <2>9, <2>10, DocQuietAlone
<1>2. ASSUME NEW d \in InvoiceIds, NEW v \in Versions, BeginUpdateInvoice(r, d, v)
      PROVE  DocSerial'
  <2>1. PICK m : m = [BlankDoc EXCEPT !.doc = d, !.v = v, !.no = invoice[d].no,
                                      !.to = invoice[d].commission]
    OBVIOUS
  <2>2. m \in DocLocal /\ m.doc = d /\ m.to = invoice[d].commission /\ Issued(d)
    BY <1>0, <1>2, <2>1 DEF BeginUpdateInvoice, Issued, InvoiceTypeOK, BlankDoc, DocLocal
  <2>3. DocGoto(r, "clear") /\ DocRemember(r, m) /\ UNCHANGED docData
    BY <1>2, <2>1 DEF BeginUpdateInvoice
  <2>4. DocAlone(r, "clear", m)'
    BY <2>2, <2>3 DEF DocAlone, Issued, docData
  <2>5. \A q \in Requests \ {r} : docPc[q] = "idle"
    BY <1>2, EntersAlone DEF BeginUpdateInvoice
  <2> QED BY <1>0, <2>2, <2>3, <2>4, <2>5, DocQuietAlone DEF Places, docData
<1>3. ASSUME NEW d \in InvoiceIds, NEW p \in Parties \cup {None}, BeginCommission(r, d, p)
      PROVE  DocSerial'
  <2>1. PICK m : m = [BlankDoc EXCEPT !.doc = d, !.to = p]
    OBVIOUS
  <2>2. m \in DocLocal /\ m.doc = d /\ Issued(d)
    BY <1>3, <2>1 DEF BlankDoc, DocLocal, BeginCommission
  <2>3. DocGoto(r, "fees") /\ DocRemember(r, m) /\ UNCHANGED docData
    BY <1>3, <2>1 DEF BeginCommission
  <2>4. DocAlone(r, "fees", m)'
    BY <2>2, <2>3 DEF DocAlone, Issued, docData
  <2>5. \A q \in Requests \ {r} : docPc[q] = "idle"
    BY <1>3, EntersAlone DEF BeginCommission
  <2> QED BY <1>0, <2>2, <2>3, <2>4, <2>5, DocQuietAlone DEF Places, docData
<1>4. ASSUME NEW d \in InvoiceIds, NEW cascade \in BOOLEAN, BeginRemoveInvoice(r, d, cascade)
      PROVE  DocSerial'
  <2>1. PICK m : m = [BlankDoc EXCEPT !.doc = d]
    OBVIOUS
  <2>2. m \in DocLocal
    BY <2>1 DEF BlankDoc, DocLocal
  <2>3. DocGoto(r, "remove") /\ DocRemember(r, m) /\ UNCHANGED docData
    BY <1>4, <2>1 DEF BeginRemoveInvoice
  <2>4. DocAlone(r, "remove", m)'
    BY DEF DocAlone
  <2>5. \A q \in Requests \ {r} : docPc[q] = "idle"
    BY <1>4, EntersAlone DEF BeginRemoveInvoice
  <2> QED BY <1>0, <2>2, <2>3, <2>4, <2>5, DocQuietAlone DEF Places, docData
<1>5. ASSUME NEW d \in InvoiceIds, NEW q \in Sent, BeginReturnGoods(r, d, q)
      PROVE  DocSerial'
  <2>1. PICK s \in ReturnIds \ issued :
          /\ issued' = issued \cup {s}
          /\ DocRemember(r, [BlankDoc EXCEPT !.doc = d, !.slip = s, !.qty = q])
    BY <1>5 DEF BeginReturnGoods
  <2>2. PICK m : m = [BlankDoc EXCEPT !.doc = d, !.slip = s, !.qty = q]
    OBVIOUS
  <2>3. m \in DocLocal /\ m.doc = d /\ m.slip = s /\ m.qty = q
    BY <2>2, InvoiceAssumption DEF BlankDoc, DocLocal
  <2>4. /\ DocGoto(r, "return") /\ DocRemember(r, m) /\ UNCHANGED <<invoice, entry, slip, struck>>
        /\ Issued(d) /\ q <= StillOut(d)
    BY <1>5, <2>1, <2>2 DEF BeginReturnGoods
  <2>5. IsFiniteSet(issued') /\ issued \subseteq issued' /\ s \in issued'
    BY <1>0, <2>1, FS_AddElement
  <2>6. slip[s] = None
    BY <1>0, <2>1 DEF DocIds
  <2>7. StillOut(d)' = StillOut(d)
    BY <2>4 DEF StillOut, ReturnedOf
  <2>8. DocAlone(r, "return", m)'
    BY <2>3, <2>4, <2>5, <2>6, <2>7 DEF DocAlone, Issued
  <2>9. \A p \in Requests \ {r} : docPc[p] = "idle"
    BY <1>5, EntersAlone DEF BeginReturnGoods
  <2> QED BY <1>0, <2>3, <2>4, <2>5, <2>8, <2>9, DocQuietAlone DEF Places
<1>6. ASSUME RejectDoc(r) PROVE DocSerial'
  <2>1. UNCHANGED docVars
    BY <1>6 DEF RejectDoc
  <2> QED BY <2>1 DEF docVars, docData, docTraffic, DocSerial, OneDoc, DocIds, DocRows, DocAlone,
                      Issued, Shown, RowsOf, FeesOf, StillOut, ReturnedOf
<1> QED BY <1>1, <1>2, <1>3, <1>4, <1>5, <1>6 DEF BeginDoc

LEMMA ReadsSerial ==
    ASSUME DocIInv, DocSerial, NEW r \in Requests, ReadNumber(r) \/ RetryInvoice(r)
    PROVE  DocSerial'
<1>0. InvoiceTypeOK /\ DocIds /\ IsFiniteSet(issued) /\ DocAlone(r, docPc[r], docMem[r])
  BY DEF DocIInv, DocSerial, DocIds
<1>1. docPc[r] \in {"number", "insert"} /\ UNCHANGED <<docData, docTraffic>> /\ docMem[r] \in DocLocal
  BY <1>0 DEF ReadNumber, RetryInvoice, InvoiceTypeOK, DocLocal
<1>2. docMem[r].doc \in issued /\ ~Issued(docMem[r].doc)
  BY <1>0, <1>1 DEF DocAlone
<1>3. \E l \in {"number", "insert", "idle"}, m \in DocLocal :
          DocGoto(r, l) /\ DocRemember(r, m) /\ (l # "idle" => m.doc = docMem[r].doc)
  <2>1. CASE ReadNumber(r)
    <3>1. PICK max \in {0} \cup Numbers(docMem[r].v.party) :
            DocRemember(r, [docMem[r] EXCEPT !.no = max + 1])
      BY <2>1 DEF ReadNumber
    <3>2. max \in Nat
      <4>1. docMem[r].v \in Versions
        BY <2>1 DEF ReadNumber, DocIInv, DocKnows
      <4> QED BY <1>0, <3>1 DEF Numbers, Issued, InvoiceTypeOK
    <3>3. [docMem[r] EXCEPT !.no = max + 1] \in DocLocal
          /\ [docMem[r] EXCEPT !.no = max + 1].doc = docMem[r].doc
      BY <1>1, <3>2 DEF DocLocal
    <3> QED BY <2>1, <3>1, <3>3 DEF ReadNumber
  <2>2. CASE RetryInvoice(r)
    <3>1. [docMem[r] EXCEPT !.tries = @ + 1] \in DocLocal
          /\ [docMem[r] EXCEPT !.tries = @ + 1].doc = docMem[r].doc
      BY <1>1 DEF DocLocal
    <3> QED BY <2>2, <3>1, DocBlankType DEF RetryInvoice, DocEnd
  <2> QED BY <2>1, <2>2
<1>4. PICK l \in {"number", "insert", "idle"}, m \in DocLocal :
          DocGoto(r, l) /\ DocRemember(r, m) /\ (l # "idle" => m.doc = docMem[r].doc)
  BY <1>3
<1>5. DocAlone(r, l, m)'
  BY <1>1, <1>2, <1>4 DEF DocAlone, Issued, docData
<1> QED BY <1>0, <1>1, <1>4, <1>5, OthersRest, DocQuietAlone DEF Places, docData

-----------------------------------------------------------------------------
(* The statements that write.                                              *)

\* Every row that a delete statement has looked at is taken, and shown as before.
LEMMA TakenAre ==
    ASSUME NEW r \in Requests, NEW rows \in SUBSET entry, entry \subseteq InvoiceEntryRow,
           Take(r, rows)
    PROVE  /\ \A f \in entry' : f \in entry \ rows \/ r \in f.takers
           /\ \A f \in entry' : \E e \in entry : f.of = e.of /\ f.line = e.line
           /\ \A d \in InvoiceIds : Shown(d)' = Shown(d)
<1>1. \A e \in entry :
        LET f == [e EXCEPT !.takers = @ \cup {r}] IN
        f.of = e.of /\ f.line = e.line /\ f.takers = e.takers \cup {r}
  BY DEF InvoiceEntryRow
<1>2. entry' = (entry \ rows) \cup {[e EXCEPT !.takers = @ \cup {r}] : e \in rows}
  BY DEF Take
<1>3. \A f \in entry' : f \in entry \ rows \/ r \in f.takers
  BY <1>1, <1>2
<1>4. \A f \in entry' : \E e \in entry : f.of = e.of /\ f.line = e.line
  BY <1>1, <1>2
<1>5. \A e \in entry : \E f \in entry' : f.of = e.of /\ f.line = e.line
  BY TakenStay
<1>6. ASSUME NEW d \in InvoiceIds PROVE Shown(d)' = Shown(d)
  BY <1>4, <1>5 DEF Shown, RowsOf
<1> QED BY <1>3, <1>4, <1>6

LEMMA TakesSerial ==
    ASSUME DocIInv, DocSerial, NEW r \in Requests, ClearRows(r) \/ ClearFees(r)
    PROVE  DocSerial'
<1>0. InvoiceTypeOK /\ DocIds /\ DocAlone(r, docPc[r], docMem[r]) /\ entry \subseteq InvoiceEntryRow
  BY EntryInvoiced DEF DocIInv, DocSerial
<1>1. PICK m : m = docMem[r]
  OBVIOUS
<1>2. PICK rows \in SUBSET entry, l \in {"rebuild", "award"} :
        /\ Take(r, rows) /\ DocGoto(r, l)
        /\ l = "rebuild" => docPc[r] = "clear" /\ rows = RowsOf(m.doc)
        /\ l = "award" => docPc[r] = "fees" /\ rows = FeesOf(m.doc)
  BY <1>1 DEF ClearRows, ClearFees, RowsOf, FeesOf
<1>3. UNCHANGED <<invoice, slip, issued, struck, docMem, docTraffic>>
  BY DEF ClearRows, ClearFees
<1>4. /\ \A f \in entry' : f \in entry \ rows \/ r \in f.takers
      /\ \A f \in entry' : \E e \in entry : f.of = e.of /\ f.line = e.line
      /\ \A d \in InvoiceIds : Shown(d)' = Shown(d)
  BY <1>0, <1>2, TakenAre
<1>5. DocIds'
  BY <1>0, <1>3, <1>4 DEF DocIds, Issued
<1>6. \A d \in InvoiceIds : DocRows(d)'
  BY <1>3, <1>4, DocRowsStay DEF DocSerial
<1>7. DocRemember(r, m) /\ m \in DocLocal
  <2>1. docMem \in [Requests -> DocLocal]
    BY <1>0 DEF InvoiceTypeOK, DocLocal
  <2> QED BY <1>1, <1>3, <2>1 DEF DocRemember
<1>8. DocAlone(r, l, m)'
  <2>1. Issued(m.doc) /\ (l = "rebuild" => m.to = invoice[m.doc].commission)
    BY <1>0, <1>1, <1>2 DEF DocAlone
  <2>2. l = "rebuild" => \A f \in RowsOf(m.doc)' : r \in f.takers
    BY <1>2, <1>4 DEF RowsOf
  <2>3. l = "award" => \A f \in FeesOf(m.doc)' : r \in f.takers
    BY <1>2, <1>4 DEF RowsOf, FeesOf
  <2> QED BY <1>3, <2>1, <2>2, <2>3 DEF DocAlone, Issued
<1>9. \A q \in Requests \ {r} : docPc[q] = "idle"
  BY <1>2, OthersRest
<1> QED BY <1>0, <1>2, <1>5, <1>6, <1>7, <1>8, <1>9, DocAloneMove DEF Places

\* What is shown after a commit that posts lines of the invoice d.
LEMMA ShownAfter ==
    ASSUME NEW d \in InvoiceIds, NEW lines \in SUBSET LineType, NEW rows,
           entry' = rows \cup Posted(d, lines)
    PROVE  /\ Shown(d)' = {e.line : e \in {f \in rows : f.of = d}} \cup lines
           /\ \A c \in InvoiceIds \ {d} : Shown(c)' = {e.line : e \in {f \in rows : f.of = c}}
           /\ \A e \in entry' : e \in rows \/ e.of = d
<1>1. /\ \A e \in Posted(d, lines) : e.of = d /\ e.line \in lines
      /\ \A l \in lines : \E e \in Posted(d, lines) : e.of = d /\ e.line = l
  BY PostedRows
<1> QED BY <1>1 DEF Shown, RowsOf

\* A commit that touches the rows of its own invoice d only.
LEMMA OneDocMove ==
    ASSUME DocIInv, DocSerial, NEW r \in Requests, docPc[r] # "idle", DocEnd(r),
           NEW d \in InvoiceIds, DocRows(d)',
           \A c \in InvoiceIds \ {d} :
               invoice'[c] = invoice[c] /\ Shown(c)' = Shown(c) /\ (c \notin struck' => c \notin struck),
           DocIds'
    PROVE  DocSerial'
<1>1. ASSUME NEW c \in InvoiceIds PROVE DocRows(c)'
  BY DocRowsStay DEF DocSerial
<1> QED BY <1>1, OthersRest, DocAloneEnds DEF DocIInv

LEMMA InsertSerial ==
    ASSUME DocIInv, DocSerial, NEW r \in Requests, InsertInvoice(r)
    PROVE  DocSerial'
<1>0. InvoiceTypeOK /\ DocIds /\ DocAlone(r, docPc[r], docMem[r]) /\ DocKnows(r)
  BY DEF DocIInv, DocSerial
<1>1. PICK m : m = docMem[r]
  OBVIOUS
<1>2. /\ docPc[r] = "insert" /\ m.doc \in InvoiceIds /\ m.v \in Versions /\ m.doc \in issued /\ ~Issued(m.doc)
      /\ invoice' = [invoice EXCEPT ![m.doc] = [no |-> m.no, v |-> m.v, commission |-> None]]
      /\ entry' = entry \cup Posted(m.doc, Lines(m.v))
      /\ DocEnd(r) /\ UNCHANGED <<slip, issued, struck>>
  BY <1>0, <1>1 DEF InsertInvoice, DocAlone, DocKnows
<1>3. /\ Shown(m.doc)' = Lines(m.v)
      /\ \A c \in InvoiceIds \ {m.doc} : Shown(c)' = Shown(c)
      /\ \A e \in entry' : e \in entry \/ e.of = m.doc
  <2>1. Lines(m.v) \in SUBSET LineType
    BY <1>2, LinesType
  <2>2. /\ Shown(m.doc)' = {e.line : e \in {f \in entry : f.of = m.doc}} \cup Lines(m.v)
        /\ \A c \in InvoiceIds \ {m.doc} : Shown(c)' = {e.line : e \in {f \in entry : f.of = c}}
        /\ \A e \in entry' : e \in entry \/ e.of = m.doc
    BY <1>2, <2>1, ShownAfter
  <2>3. {f \in entry : f.of = m.doc} = {}
    BY <1>0, <1>2 DEF DocIds
  <2> QED BY <2>2, <2>3 DEF Shown, RowsOf
<1>4. /\ invoice'[m.doc].v = m.v /\ invoice'[m.doc].commission = None /\ invoice'[m.doc] # None
      /\ \A c \in InvoiceIds \ {m.doc} : invoice'[c] = invoice[c]
  <2>1. [no |-> m.no, v |-> m.v, commission |-> None] \in InvoiceRow
    BY <1>0, <1>1, <1>2 DEF InvoiceRow, InvoiceTypeOK
  <2> QED BY <1>0, <1>2, <2>1, InvoiceAssumption DEF InvoiceTypeOK, InvoiceRow
<1>5. DocIds'
  BY <1>0, <1>2, <1>3, <1>4 DEF DocIds, Issued, InvoiceTypeOK
<1>6. DocRows(m.doc)'
  <2>1. FeeParties(Lines(m.v)) = {}
    BY <1>2, LinesAre
  <2> QED BY <1>3, <1>4, <2>1 DEF DocRows
<1> QED BY <1>2, <1>3, <1>4, <1>5, <1>6, OneDocMove

LEMMA RebuildSerial ==
    ASSUME DocIInv, DocSerial, NEW r \in Requests, RebuildInvoice(r)
    PROVE  DocSerial'
<1>0. InvoiceTypeOK /\ DocIds /\ DocAlone(r, docPc[r], docMem[r]) /\ DocKnows(r)
      /\ \A e \in entry : Rightful(e)
  BY DEF DocIInv, DocSerial
<1>1. PICK m : m = docMem[r]
  OBVIOUS
<1>2. /\ docPc[r] = "rebuild" /\ m.doc \in InvoiceIds /\ m.v \in Versions /\ Issued(m.doc)
      /\ m.to = invoice[m.doc].commission /\ m.to \in Parties \cup {None}
      /\ \A e \in RowsOf(m.doc) : r \in e.takers
      /\ invoice' = [invoice EXCEPT ![m.doc].v = m.v]
      /\ entry' = Left(r) \cup Posted(m.doc, Rebuilt(m))
      /\ struck' = struck \ {m.doc}
      /\ DocEnd(r) /\ UNCHANGED <<slip, issued>>
  BY <1>0, <1>1 DEF RebuildInvoice, DocAlone, DocKnows, InvoiceTypeOK
<1>3. \A e \in entry : r \in e.takers <=> e.of = m.doc
  BY <1>0, <1>1, <1>2 DEF Rightful, RowsOf
<1>4. /\ Shown(m.doc)' = Rebuilt(m)
      /\ \A c \in InvoiceIds \ {m.doc} : Shown(c)' = Shown(c)
      /\ \A e \in entry' : e \in entry \/ e.of = m.doc
  <2>1. Rebuilt(m) \in SUBSET LineType
    BY <1>2, LinesType, FeeType DEF Rebuilt
  <2>2. /\ Shown(m.doc)' = {e.line : e \in {f \in Left(r) : f.of = m.doc}} \cup Rebuilt(m)
        /\ \A c \in InvoiceIds \ {m.doc} : Shown(c)' = {e.line : e \in {f \in Left(r) : f.of = c}}
        /\ \A e \in entry' : e \in Left(r) \/ e.of = m.doc
    BY <1>2, <2>1, ShownAfter
  <2>3. /\ {f \in Left(r) : f.of = m.doc} = {}
        /\ \A c \in InvoiceIds \ {m.doc} : {f \in Left(r) : f.of = c} = {f \in entry : f.of = c}
        /\ Left(r) \subseteq entry
    BY <1>3 DEF Left
  <2> QED BY <2>2, <2>3 DEF Shown, RowsOf
<1>5. /\ invoice'[m.doc].v = m.v /\ invoice'[m.doc].commission = m.to /\ invoice'[m.doc] # None
      /\ \A c \in InvoiceIds \ {m.doc} : invoice'[c] = invoice[c]
  <2>1. invoice[m.doc] \in InvoiceRow
    BY <1>0, <1>2 DEF InvoiceTypeOK, InvoiceRow, Issued
  <2>2. [invoice[m.doc] EXCEPT !.v = m.v] \in InvoiceRow
    BY <1>2, <2>1 DEF InvoiceRow
  <2> QED BY <1>0, <1>2, <2>1, <2>2, InvoiceAssumption DEF InvoiceTypeOK, InvoiceRow
<1>6. DocIds'
  BY <1>0, <1>2, <1>4, <1>5 DEF DocIds, Issued, InvoiceTypeOK
<1>7. DocRows(m.doc)'
  <2>1. FeeParties(Lines(m.v)) = {} /\ (m.v.fake => Lines(m.v) = {})
    BY <1>2, LinesAre
  <2>2. InvoiceFee(m.to).kind = "invoiceFee" /\ InvoiceFee(m.to).party = m.to
    BY DEF InvoiceFee, Line
  <2>3. {l \in Rebuilt(m) : l.kind \in OwedKinds} = {l \in Lines(m.v) : l.kind \in OwedKinds}
    BY <2>2 DEF Rebuilt, OwedKinds
  <2>4. ~m.v.fake => FeeParties(Rebuilt(m)) = {m.to} \ {None}
    BY <2>1, <2>2 DEF Rebuilt, FeeParties
  <2> QED BY <1>4, <1>5, <2>3, <2>4 DEF DocRows
<1> QED BY <1>2, <1>4, <1>5, <1>6, <1>7, OneDocMove

LEMMA AwardSerial ==
    ASSUME DocIInv, DocSerial, NEW r \in Requests, AwardCommission(r)
    PROVE  DocSerial'
<1>0. InvoiceTypeOK /\ DocIds /\ DocAlone(r, docPc[r], docMem[r]) /\ DocKnows(r)
      /\ (\A e \in entry : Rightful(e)) /\ entry \subseteq InvoiceEntryRow
  BY EntryInvoiced DEF DocIInv, DocSerial
<1>1. PICK m : m = docMem[r]
  OBVIOUS
<1>2. PICK lines : lines = IF m.to = None THEN {} ELSE {InvoiceFee(m.to)}
  OBVIOUS
<1>3. /\ docPc[r] = "award" /\ m.doc \in InvoiceIds /\ Issued(m.doc) /\ m.to \in Parties \cup {None}
      /\ \A e \in FeesOf(m.doc) : r \in e.takers
      /\ invoice' = [invoice EXCEPT ![m.doc].commission = m.to]
      /\ entry' = Left(r) \cup Posted(m.doc, lines)
      /\ DocEnd(r) /\ UNCHANGED <<slip, issued, struck>>
  BY <1>0, <1>1, <1>2 DEF AwardCommission, DocAlone, DocKnows, InvoiceTypeOK
<1>4. \A e \in entry : r \in e.takers <=> e.of = m.doc /\ e.line.kind \in Fees
  BY <1>0, <1>1, <1>3 DEF Rightful, RowsOf, FeesOf
<1>5. /\ Shown(m.doc)' = {l \in Shown(m.doc) : l.kind \notin Fees} \cup lines
      /\ \A c \in InvoiceIds \ {m.doc} : Shown(c)' = Shown(c)
      /\ \A e \in entry' : e \in entry \/ e.of = m.doc
  <2>1. lines \in SUBSET LineType
    BY <1>2, <1>3, FeeType
  <2>2. PICK rows : rows = Left(r)
    OBVIOUS
  <2>3. /\ Shown(m.doc)' = {e.line : e \in {f \in rows : f.of = m.doc}} \cup lines
        /\ \A c \in InvoiceIds \ {m.doc} : Shown(c)' = {e.line : e \in {f \in rows : f.of = c}}
        /\ \A e \in entry' : e \in rows \/ e.of = m.doc
    <3>1. entry' = rows \cup Posted(m.doc, lines) /\ m.doc \in InvoiceIds
      BY <1>3, <2>2
    <3> QED BY <2>1, <3>1, ShownAfter
  <2>4. /\ {f \in rows : f.of = m.doc} = {f \in entry : f.of = m.doc /\ f.line.kind \notin Fees}
        /\ \A c \in InvoiceIds \ {m.doc} : {f \in rows : f.of = c} = {f \in entry : f.of = c}
        /\ rows \subseteq entry
    BY <1>4, <2>2 DEF Left
  <2>5. {e.line : e \in {f \in entry : f.of = m.doc /\ f.line.kind \notin Fees}}
            = {l \in Shown(m.doc) : l.kind \notin Fees}
    BY DEF Shown, RowsOf
  <2>6. \A c \in InvoiceIds \ {m.doc} : Shown(c)' = Shown(c)
    BY <2>3, <2>4 DEF Shown, RowsOf
  <2>7. Shown(m.doc)' = {l \in Shown(m.doc) : l.kind \notin Fees} \cup lines
    BY <2>3, <2>4, <2>5
  <2> QED BY <2>3, <2>4, <2>6, <2>7
<1>6. /\ invoice'[m.doc].v = invoice[m.doc].v /\ invoice'[m.doc].commission = m.to /\ invoice'[m.doc] # None
      /\ \A c \in InvoiceIds \ {m.doc} : invoice'[c] = invoice[c]
  <2>1. invoice[m.doc] \in InvoiceRow
    BY <1>0, <1>3 DEF InvoiceTypeOK, InvoiceRow, Issued
  <2>2. [invoice[m.doc] EXCEPT !.commission = m.to] \in InvoiceRow
    BY <1>3, <2>1 DEF InvoiceRow
  <2> QED BY <1>0, <1>3, <2>1, <2>2, InvoiceAssumption DEF InvoiceTypeOK, InvoiceRow
<1>7. DocIds'
  BY <1>0, <1>3, <1>5, <1>6 DEF DocIds, Issued, InvoiceTypeOK
<1>8. DocRows(m.doc)'
  <2>1. DocRows(m.doc)
    BY <1>3 DEF DocSerial
  <2>2. \A l \in lines : l.kind = "invoiceFee" /\ l.party = m.to
    BY <1>2 DEF InvoiceFee, Line
  <2>3. {l \in Shown(m.doc)' : l.kind \in OwedKinds} = {l \in Shown(m.doc) : l.kind \in OwedKinds}
    BY <1>5, <2>2 DEF Fees, OwedKinds
  <2>4. FeeParties(Shown(m.doc)') = {m.to} \ {None}
    <3>1. FeeParties(Shown(m.doc)') = {l.party : l \in lines}
      BY <1>5, <2>2 DEF Fees, FeeParties
    <3> QED BY <1>2, <2>2, <3>1
  <2> QED BY <1>3, <1>6, <2>1, <2>3, <2>4 DEF DocRows, Issued
<1> QED BY <1>3, <1>5, <1>6, <1>7, <1>8, OneDocMove

LEMMA RemoveSerial ==
    ASSUME DocIInv, DocSerial, NEW r \in Requests, RemoveInvoice(r)
    PROVE  DocSerial'
<1>0. InvoiceTypeOK /\ DocIds /\ DocKnows(r)
  BY DEF DocIInv, DocSerial
<1>1. PICK d : d = docMem[r].doc
  OBVIOUS
<1>2. /\ docPc[r] = "remove" /\ d \in InvoiceIds
      /\ invoice' = [invoice EXCEPT ![d] = None]
      /\ entry' = entry \ RowsOf(d)
      /\ struck' = struck \ {d}
      /\ slip' = [s \in ReturnIds |-> IF slip[s] # None /\ slip[s].of = d
                                      THEN [slip[s] EXCEPT !.of = None] ELSE slip[s]]
      /\ DocEnd(r) /\ UNCHANGED issued
  BY <1>0, <1>1 DEF RemoveInvoice, DocKnows
<1>3. invoice'[d] = None /\ \A c \in InvoiceIds \ {d} : invoice'[c] = invoice[c]
  BY <1>0, <1>2 DEF InvoiceTypeOK
<1>4. \A c \in InvoiceIds \ {d} : Shown(c)' = Shown(c)
  BY <1>2 DEF Shown, RowsOf
<1>5. \A s \in ReturnIds : slip'[s] # None =>
        slip[s] # None /\ (slip'[s].of = None \/ (slip'[s] = slip[s] /\ slip[s].of # d))
  <2>1. slip \in [ReturnIds -> {None} \cup SlipRow]
    BY <1>0 DEF InvoiceTypeOK, SlipRow
  <2>2. \A s \in ReturnIds : slip[s] # None => [slip[s] EXCEPT !.of = None].of = None
    BY <2>1 DEF SlipRow
  <2> QED BY <1>2, <2>2
<1>6. DocIds'
  <2>1. \A c \in InvoiceIds : Issued(c)' => c # d /\ Issued(c)
    BY <1>3 DEF Issued
  <2>2. \A e \in entry' : e \in entry /\ e.of # d /\ e.of \in InvoiceIds
    BY <1>0, <1>2 DEF RowsOf, InvoiceTypeOK
  <2>3. \A e \in entry' : Issued(e.of)'
    BY <1>0, <1>3, <2>2 DEF DocIds, Issued
  <2>4. ASSUME NEW s \in ReturnIds, slip'[s] # None
        PROVE  s \in issued' /\ (slip'[s].of # None => Issued(slip[s].of)')
    <3>1. s \in issued' /\ (slip'[s].of # None => slip'[s] = slip[s] /\ slip[s].of # d /\ slip[s] # None)
      BY <1>0, <1>2, <1>5, <2>4 DEF DocIds
    <3>2. slip[s] # None => slip[s].of \in InvoiceIds \cup {None}
      BY <1>0 DEF InvoiceTypeOK
    <3>3. ASSUME slip'[s].of # None PROVE Issued(slip[s].of)'
      <4>1. PICK c \in InvoiceIds : c = slip[s].of /\ c # d /\ c # None /\ slip'[s].of = c
        BY <3>1, <3>2, <3>3
      <4>2. Issued(c)
        BY <1>0, <3>1, <3>3, <4>1 DEF DocIds
      <4>3. invoice'[c] # None
        BY <1>3, <4>1, <4>2 DEF Issued
      <4> QED BY <4>1, <4>3 DEF Issued
    <3> QED BY <3>1, <3>3
  <2>5. IsFiniteSet(issued') /\ \A c \in InvoiceIds : Issued(c)' => c \in issued'
    BY <1>0, <1>2, <2>1 DEF DocIds
  <2> QED BY <2>3, <2>4, <2>5 DEF DocIds
<1>7. DocRows(d)'
  BY <1>3 DEF DocRows, Issued
<1> QED BY <1>2, <1>3, <1>4, <1>6, <1>7, OneDocMove

LEMMA SlipSerial ==
    ASSUME DocIInv, DocSerial, NEW r \in Requests, InsertReturn(r)
    PROVE  DocSerial'
<1>0. InvoiceTypeOK /\ DocIds /\ DocKnows(r) /\ DocAlone(r, docPc[r], docMem[r])
  BY DEF DocIInv, DocSerial
<1>1. PICK m : m = docMem[r]
  OBVIOUS
<1>2. /\ docPc[r] = "return" /\ m.doc \in InvoiceIds /\ Issued(m.doc) /\ m.slip \in issued
      /\ slip' = [slip EXCEPT ![m.slip] = [of |-> m.doc, qty |-> m.qty]]
      /\ DocEnd(r) /\ UNCHANGED <<invoice, entry, issued, struck>>
  BY <1>0, <1>1 DEF InsertReturn, DocKnows, DocAlone
<1>3. DocIds'
  BY <1>0, <1>2 DEF DocIds, Issued, InvoiceTypeOK
<1>4. \A d \in InvoiceIds : DocRows(d)'
  <2>1. \A d \in InvoiceIds : Shown(d)' = Shown(d)
    BY <1>2 DEF Shown, RowsOf
  <2> QED BY <1>2, <2>1, DocRowsStay DEF DocSerial
<1> QED BY <1>0, <1>2, <1>3, <1>4, OthersRest, DocAloneEnds

LEMMA RollBackSerial ==
    ASSUME DocIInv, DocSerial, NEW r \in Requests, RollBack(r)
    PROVE  DocSerial'
<1>0. InvoiceTypeOK /\ DocIds /\ entry \subseteq InvoiceEntryRow
  BY EntryInvoiced DEF DocIInv, DocSerial
<1>1. /\ docPc[r] # "idle" /\ entry' = Released(r) /\ DocEnd(r)
      /\ UNCHANGED <<invoice, slip, issued, struck>>
  BY DEF RollBack
<1>2. /\ \A e \in entry : \E f \in entry' : f.of = e.of /\ f.line = e.line
      /\ \A f \in entry' : \E e \in entry : f.of = e.of /\ f.line = e.line
  BY <1>0, <1>1, ReleasedStay
<1>3. DocIds'
  BY <1>0, <1>1, <1>2 DEF DocIds, Issued
<1>4. \A d \in InvoiceIds : DocRows(d)'
  <2>1. \A d \in InvoiceIds : Shown(d)' = Shown(d)
    BY <1>2 DEF Shown, RowsOf
  <2> QED BY <1>1, <2>1, DocRowsStay DEF DocSerial
<1> QED BY <1>0, <1>1, <1>3, <1>4, OthersRest, DocAloneEnds

LEMMA StrikeSerial ==
    ASSUME DocIInv, DocSerial, ~docOverlap, NEW e \in entry, StrikeRow(e)
    PROVE  DocSerial'
<1>1. /\ \A r \in Requests : docPc[r] = "idle"
      /\ entry' = entry \ {e} /\ struck' = struck \cup {e.of}
      /\ UNCHANGED <<invoice, slip, issued, docPc, docMem>>
  BY DEF StrikeRow, NoneUnderWay
<1>2. DocIds'
  BY <1>1 DEF DocSerial, DocIds, Issued
<1>3. ASSUME NEW d \in InvoiceIds PROVE DocRows(d)'
  <2>1. CASE d = e.of
    BY <1>1, <2>1 DEF DocRows
  <2>2. CASE d # e.of
    <3>1. Shown(d)' = Shown(d)
      BY <1>1, <2>2 DEF Shown, RowsOf
    <3> QED BY <1>1, <3>1, DocRowsStay DEF DocSerial
  <2> QED BY <2>1, <2>2
<1> QED BY <1>1, <1>2, <1>3 DEF DocSerial, OneDoc, DocAlone

LEMMA UnslipSerial ==
    ASSUME DocIInv, DocSerial, ~docOverlap, NEW s \in ReturnIds, RemoveReturn(s)
    PROVE  DocSerial'
<1>1. /\ \A r \in Requests : docPc[r] = "idle"
      /\ slip' = [slip EXCEPT ![s] = None]
      /\ UNCHANGED <<invoice, entry, issued, struck, docPc, docMem>>
  BY DEF RemoveReturn, NoneUnderWay
<1>2. DocIds'
  BY <1>1 DEF DocSerial, DocIds, Issued, DocIInv, InvoiceTypeOK
<1>3. ASSUME NEW d \in InvoiceIds PROVE DocRows(d)'
  <2>1. Shown(d)' = Shown(d)
    BY <1>1 DEF Shown, RowsOf
  <2> QED BY <1>1, <2>1, DocRowsStay DEF DocSerial
<1> QED BY <1>1, <1>2, <1>3 DEF DocSerial, OneDoc, DocAlone

LEMMA DocIIInit == InvoiceInit => DocIIInv
<1> SUFFICES ASSUME InvoiceInit PROVE DocIIInv
  OBVIOUS
<1>1. DocIInv
  BY DocInitInv
<1>2. DocIds
  BY FS_EmptySet DEF InvoiceInit, DocIds, Issued
<1>3. (\A d \in InvoiceIds : DocRows(d)) /\ (\A r \in Requests : DocAlone(r, docPc[r], docMem[r])) /\ OneDoc
  BY DEF InvoiceInit, DocRows, DocAlone, OneDoc, Issued
<1> QED BY <1>1, <1>2, <1>3 DEF DocIIInv, DocSerial

LEMMA DocIINext == DocIIInv /\ [InvoiceNext]_docVars => DocIIInv'
<1> SUFFICES ASSUME DocIIInv, [InvoiceNext]_docVars PROVE DocIIInv'
  OBVIOUS
<1>1. DocIInv /\ DocIInv' /\ (~docOverlap => DocSerial)
  BY DocNextInv DEF DocIIInv
<1>2. docOverlap' = docOverlap
  <2>1. ASSUME NEW r \in Requests, BeginDoc(r) PROVE docOverlap' = docOverlap
    <3>1. EnterDoc(r) => docOverlap' = docOverlap
      BY DEF EnterDoc
    <3>2. \A v, no : BeginCreateInvoice(r, v, no) => docOverlap' = docOverlap
      BY <3>1, Zenon DEF BeginCreateInvoice
    <3>3. \A d, v : BeginUpdateInvoice(r, d, v) => docOverlap' = docOverlap
      BY <3>1, Zenon DEF BeginUpdateInvoice
    <3>4. \A d, p : BeginCommission(r, d, p) => docOverlap' = docOverlap
      BY <3>1, Zenon DEF BeginCommission
    <3>5. \A d, c : BeginRemoveInvoice(r, d, c) => docOverlap' = docOverlap
      BY <3>1, Zenon DEF BeginRemoveInvoice
    <3>6. \A d, q : BeginReturnGoods(r, d, q) => docOverlap' = docOverlap
      BY <3>1, Zenon DEF BeginReturnGoods
    <3>7. RejectDoc(r) => docOverlap' = docOverlap
      BY DEF RejectDoc, docVars, docTraffic
    <3> QED BY <2>1, <3>2, <3>3, <3>4, <3>5, <3>6, <3>7, Zenon DEF BeginDoc
  <2>2. ASSUME NEW r \in Requests, StepDoc(r) PROVE docOverlap' = docOverlap
    <3>1. CASE ReadNumber(r) \/ InsertInvoice(r) \/ RetryInvoice(r) \/ ClearRows(r)
      BY <3>1 DEF ReadNumber, InsertInvoice, RetryInvoice, ClearRows, docTraffic
    <3>2. CASE RebuildInvoice(r) \/ ClearFees(r) \/ AwardCommission(r)
      BY <3>2 DEF RebuildInvoice, ClearFees, AwardCommission, docTraffic
    <3>3. CASE RemoveInvoice(r) \/ InsertReturn(r) \/ RollBack(r)
      BY <3>3 DEF RemoveInvoice, InsertReturn, RollBack, docTraffic
    <3> QED BY <2>2, <3>1, <3>2, <3>3 DEF StepDoc
  <2>3. ASSUME (\E e \in entry : StrikeRow(e)) \/ (\E s \in ReturnIds : RemoveReturn(s))
        PROVE  docOverlap' = docOverlap
    BY <2>3 DEF StrikeRow, RemoveReturn, docTraffic
  <2>4. CASE UNCHANGED docVars
    BY <2>4 DEF docVars, docTraffic
  <2> QED BY <2>1, <2>2, <2>3, <2>4 DEF InvoiceNext
<1>3. SUFFICES ASSUME ~docOverlap PROVE DocSerial'
  BY <1>1, <1>2 DEF DocIIInv
<1>4. DocSerial
  BY <1>1, <1>3
<1>5. ASSUME NEW r \in Requests, StepDoc(r) PROVE DocSerial'
  BY <1>1, <1>4, <1>5, ReadsSerial, TakesSerial, InsertSerial, RebuildSerial, AwardSerial, RemoveSerial,
     SlipSerial, RollBackSerial DEF StepDoc
<1>6. CASE UNCHANGED docVars
  BY <1>4, <1>6 DEF docVars, docData, docTraffic, DocSerial, OneDoc, DocIds, DocRows, DocAlone,
                    Issued, Shown, RowsOf, FeesOf, StillOut, ReturnedOf
<1> QED BY <1>1, <1>3, <1>4, <1>5, <1>6, BeginSerial, StrikeSerial, UnslipSerial DEF InvoiceNext

\* Of requests that come one at a time: what the party owes for an invoice is
\* its goods and charges less its discount, nothing for a fake one, and its
\* commission is in the ledger for whom it is due to, whatever updates came before.
THEOREM AlwaysBalanced == InvoiceSpec => []InvoicesBalance
BY DocIIInit, DocIINext, RowsBalance, PTL DEF InvoiceSpec

-----------------------------------------------------------------------------
(* What comes back of an invoice.                                          *)

SlipsIn(rows, d) == {s \in ReturnIds : rows[s] # None /\ rows[s].of = d}
SlipsOf(rows, d) == SlipsQty(rows, SlipsIn(rows, d))

LEMMA SlipsAre == \A rows, S : SlipsQty(rows, S) = QuantityOf(rows, S)
  BY DEF SlipsQty, QuantityOf

LEMMA SlipsType ==
  ASSUME NEW rows \in [ReturnIds -> {None} \cup SlipRow],
         IsFiniteSet({s \in ReturnIds : rows[s] # None}), NEW d
  PROVE  /\ IsFiniteSet(SlipsIn(rows, d))
         /\ \A s \in SlipsIn(rows, d) : rows[s].qty \in Nat
         /\ SlipsOf(rows, d) \in Nat
<1>1. SlipsIn(rows, d) \subseteq {s \in ReturnIds : rows[s] # None}
  BY DEF SlipsIn
<1>2. IsFiniteSet(SlipsIn(rows, d))
  BY <1>1, FS_Subset
<1>3. \A s \in SlipsIn(rows, d) : rows[s].qty \in Nat
  BY DEF SlipsIn, SlipRow
<1>4. SlipsOf(rows, d) \in Nat
  BY <1>2, <1>3, QuantityType, SlipsAre DEF SlipsOf
<1> QED BY <1>2, <1>3, <1>4

\* The returns of d are the same in a and b.
LEMMA SlipsSame ==
  ASSUME NEW a, NEW b, NEW d, IsFiniteSet(SlipsIn(a, d)), SlipsIn(a, d) = SlipsIn(b, d),
         \A s \in SlipsIn(a, d) : a[s] = b[s]
  PROVE  SlipsOf(a, d) = SlipsOf(b, d)
BY QuantitySame, SlipsAre DEF SlipsOf

\* b has one return of d more than a.
LEMMA SlipAdded ==
  ASSUME NEW a \in [ReturnIds -> {None} \cup SlipRow], NEW b \in [ReturnIds -> {None} \cup SlipRow],
         IsFiniteSet({v \in ReturnIds : b[v] # None}), NEW u \in ReturnIds, NEW d,
         b[u] # None, b[u].of = d, a[u] = None, \A v \in ReturnIds : v # u => a[v] = b[v]
  PROVE  SlipsOf(b, d) = b[u].qty + SlipsOf(a, d)
<1>1. SlipsIn(a, d) = SlipsIn(b, d) \ {u} /\ u \in SlipsIn(b, d)
  BY DEF SlipsIn
<1>2. IsFiniteSet(SlipsIn(b, d)) /\ \A s \in SlipsIn(b, d) : b[s].qty \in Nat
  BY SlipsType
<1>3. PICK S : S = SlipsIn(b, d)
  OBVIOUS
<1>4. QuantityOf(b, S) = b[u].qty + QuantityOf(b, S \ {u})
  BY <1>1, <1>2, <1>3, QuantityLess
<1>5. PICK T : T = S \ {u}
  OBVIOUS
<1>6. IsFiniteSet(T) /\ T = SlipsIn(a, d) /\ \A v \in T : a[v] = b[v]
  <2>1. IsFiniteSet(T)
    BY <1>2, <1>3, <1>5, FS_Subset
  <2>2. \A v \in T : v \in ReturnIds /\ v # u
    BY <1>3, <1>5 DEF SlipsIn
  <2> QED BY <1>1, <1>3, <1>5, <2>1, <2>2
<1>7. QuantityOf(a, T) = QuantityOf(b, T)
  BY <1>6, QuantitySame
<1> QED BY <1>3, <1>4, <1>5, <1>6, <1>7, SlipsAre DEF SlipsOf

LEMMA ReturnedIsSlips == \A d : ReturnedOf(d) = SlipsOf(slip, d)
  BY DEF ReturnedOf, SlipsOf, SlipsIn

\* What returns add up to is a number, also after a step.
LEMMA SlipsFinite ==
  ASSUME DocIInv, DocSerial
  PROVE  /\ slip \in [ReturnIds -> {None} \cup SlipRow]
         /\ IsFiniteSet({s \in ReturnIds : slip[s] # None})
         /\ \A d : ReturnedOf(d) \in Nat
<1>1. slip \in [ReturnIds -> {None} \cup SlipRow]
  BY DEF DocIInv, InvoiceTypeOK, SlipRow
<1>2. IsFiniteSet({s \in ReturnIds : slip[s] # None})
  <2>1. {s \in ReturnIds : slip[s] # None} \subseteq issued /\ IsFiniteSet(issued)
    BY DEF DocSerial, DocIds
  <2> QED BY <2>1, FS_Subset
<1>3. \A d : ReturnedOf(d) \in Nat
  BY <1>1, <1>2, SlipsType, ReturnedIsSlips
<1> QED BY <1>1, <1>2, <1>3

LEMMA ItemsType ==
  ASSUME DocIInv, NEW d \in InvoiceIds, Issued(d)
  PROVE  invoice[d].v.items \in Nat
<1>1. invoice[d].v \in Versions
  BY DEF DocIInv, InvoiceTypeOK, Issued
<1> QED BY <1>1, InvoiceAssumption DEF VersionType

\* An invoice that keeps its returns and loses no goods keeps fitting.
LEMMA FitsStill ==
  ASSUME DocIInv, DocIInv', NEW d \in InvoiceIds, Issued(d), Fits(d),
         Issued(d)' => invoice[d].v.items <= invoice'[d].v.items,
         ReturnedOf(d)' = ReturnedOf(d), ReturnedOf(d) \in Nat
  PROVE  Fits(d)'
<1> SUFFICES ASSUME Issued(d)' PROVE ReturnedOf(d)' <= invoice'[d].v.items
  BY DEF Fits
<1>1. invoice[d].v.items \in Nat
  BY ItemsType
<1>2. invoice'[d].v.items \in Nat
  <2>1. invoice'[d].v \in Versions
    BY DEF DocIInv, InvoiceTypeOK, Issued
  <2> QED BY <2>1, InvoiceAssumption DEF VersionType
<1>3. ReturnedOf(d) <= invoice[d].v.items
  BY DEF Fits
<1> QED BY <1>1, <1>2, <1>3

\* No goods come back of an invoice that is not there.
LEMMA NoneBack ==
  ASSUME DocIInv, DocSerial, NEW d \in InvoiceIds, ~Issued(d)
  PROVE  ReturnedOf(d) = 0
<1>1. SlipsIn(slip, d) = {}
  BY InvoiceAssumption DEF SlipsIn, DocSerial, DocIds
<1> QED BY <1>1, ReturnedIsSlips, SlipsAre, QuantityEmpty DEF SlipsOf

\* Where the returns stay, an invoice fits if it has what it had, or is new.
LEMMA FitsSame ==
  ASSUME DocIInv, DocIInv', DocSerial, NEW d \in InvoiceIds, Fits(d),
         Issued(d) /\ Issued(d)' => invoice[d].v.items <= invoice'[d].v.items,
         slip' = slip
  PROVE  Fits(d)'
<1>1. ReturnedOf(d)' = ReturnedOf(d) /\ ReturnedOf(d) \in Nat
  BY SlipsFinite DEF ReturnedOf
<1>2. CASE Issued(d)
  BY <1>1, <1>2, FitsStill
<1>3. CASE ~Issued(d)
  <2> SUFFICES ASSUME Issued(d)' PROVE ReturnedOf(d)' <= invoice'[d].v.items
    BY DEF Fits
  <2>1. ReturnedOf(d)' = 0
    BY <1>1, <1>3, NoneBack
  <2>2. invoice'[d].v.items \in Nat
    <3>1. invoice'[d].v \in Versions
      BY DEF DocIInv, InvoiceTypeOK, Issued
    <3> QED BY <3>1, InvoiceAssumption DEF VersionType
  <2> QED BY <2>1, <2>2
<1> QED BY <1>2, <1>3

LEMMA FitsRemoved ==
  ASSUME DocIInv, DocIInv', DocSerial, NEW r \in Requests, RemoveInvoice(r), NEW d \in InvoiceIds, Fits(d)
  PROVE  Fits(d)'
<1>1. PICK c : c = docMem[r].doc
  OBVIOUS
<1>2. /\ c \in InvoiceIds /\ invoice' = [invoice EXCEPT ![c] = None]
      /\ slip' = [s \in ReturnIds |-> IF slip[s] # None /\ slip[s].of = c
                                      THEN [slip[s] EXCEPT !.of = None] ELSE slip[s]]
  BY <1>1 DEF RemoveInvoice, DocIInv, DocKnows
<1>3. CASE d = c \/ ~Issued(d)
  <2>1. ~Issued(d)'
    BY <1>2, <1>3 DEF Issued, DocIInv, InvoiceTypeOK
  <2> QED BY <2>1 DEF Fits
<1>4. CASE d # c /\ Issued(d)
  <2>1. PICK a, b : a = slip /\ b = slip'
    OBVIOUS
  <2>2. \A s \in ReturnIds : b[s] = a[s] \/ (a[s] # None /\ a[s].of = c /\ b[s].of = None)
    <3>1. \A s \in ReturnIds : a[s] # None => [a[s] EXCEPT !.of = None].of = None
      BY <2>1, SlipsFinite DEF SlipRow
    <3>2. \A s \in ReturnIds : b[s] = IF a[s] # None /\ a[s].of = c THEN [a[s] EXCEPT !.of = None] ELSE a[s]
      BY <1>2, <2>1
    <3> QED BY <3>1, <3>2
  <2>3. d # None
    BY InvoiceAssumption
  <2>4. SlipsIn(a, d) = SlipsIn(b, d) /\ \A s \in SlipsIn(a, d) : a[s] = b[s]
    BY <1>4, <2>2, <2>3 DEF SlipsIn
  <2>5. IsFiniteSet(SlipsIn(a, d))
    BY <2>1, SlipsFinite, SlipsType
  <2>6. SlipsOf(a, d) = SlipsOf(b, d)
    BY <2>4, <2>5, SlipsSame
  <2>7. ReturnedOf(d) = SlipsOf(a, d) /\ ReturnedOf(d)' = SlipsOf(b, d)
    BY <2>1 DEF ReturnedOf, SlipsOf, SlipsIn
  <2>8. invoice'[d] = invoice[d] /\ ReturnedOf(d) \in Nat /\ invoice[d].v.items \in Nat
    BY <1>2, <1>4, ItemsType, SlipsFinite DEF DocIInv, InvoiceTypeOK
  <2> QED BY <1>4, <2>6, <2>7, <2>8, FitsStill
<1> QED BY <1>3, <1>4

LEMMA FitsReturned ==
  ASSUME DocIInv, DocIInv', DocSerial, DocSerial',
         NEW r \in Requests, InsertReturn(r), NEW d \in InvoiceIds, Fits(d)
  PROVE  Fits(d)'
<1>1. PICK m : m = docMem[r]
  OBVIOUS
<1>2. /\ m.doc \in InvoiceIds /\ Issued(m.doc) /\ m.slip \in ReturnIds /\ m.qty \in Nat
      /\ slip[m.slip] = None /\ m.qty <= StillOut(m.doc)
      /\ slip' = [slip EXCEPT ![m.slip] = [of |-> m.doc, qty |-> m.qty]]
      /\ invoice' = invoice
  BY <1>1 DEF InsertReturn, DocIInv, DocKnows, DocSerial, DocAlone, InvoiceTypeOK
<1>3. PICK a, b : a = slip /\ b = slip'
  OBVIOUS
<1>4. /\ a \in [ReturnIds -> {None} \cup SlipRow] /\ b \in [ReturnIds -> {None} \cup SlipRow]
      /\ IsFiniteSet({v \in ReturnIds : a[v] # None}) /\ IsFiniteSet({v \in ReturnIds : b[v] # None})
  <2>1. IsFiniteSet({v \in ReturnIds : a[v] # None}) /\ a \in [ReturnIds -> {None} \cup SlipRow]
    BY <1>3, SlipsFinite
  <2>2. b \in [ReturnIds -> {None} \cup SlipRow]
    BY <1>3 DEF DocIInv, InvoiceTypeOK, SlipRow
  <2>3. {v \in ReturnIds : b[v] # None} \subseteq {v \in ReturnIds : a[v] # None} \cup {m.slip}
    BY <1>2, <1>3
  <2>4. IsFiniteSet({v \in ReturnIds : a[v] # None} \cup {m.slip})
    BY <2>1, FS_AddElement
  <2> QED BY <2>1, <2>2, <2>3, <2>4, FS_Subset
<1>5. PICK u \in ReturnIds : u = m.slip
  BY <1>2
<1>6. /\ a[u] = None /\ b[u] # None /\ b[u].of = m.doc /\ b[u].qty = m.qty
      /\ \A v \in ReturnIds : v # u => a[v] = b[v]
  <2>1. [of |-> m.doc, qty |-> m.qty] # None
    <3>1. [of |-> m.doc, qty |-> m.qty] \in SlipRow
      BY <1>2 DEF SlipRow
    <3> QED BY <3>1, InvoiceAssumption DEF SlipRow
  <2> QED BY <1>2, <1>3, <1>4, <1>5, <2>1
<1>7. ReturnedOf(d) = SlipsOf(a, d) /\ ReturnedOf(d)' = SlipsOf(b, d) /\ ReturnedOf(d) \in Nat
  BY <1>3, SlipsFinite DEF ReturnedOf, SlipsOf, SlipsIn
<1>8. CASE d = m.doc
  <2>1. SlipsOf(b, d) = b[u].qty + SlipsOf(a, d)
    BY <1>4, <1>6, <1>8, SlipAdded
  <2>2. m.qty <= invoice[d].v.items - SlipsOf(a, d)
    BY <1>2, <1>7, <1>8 DEF StillOut
  <2>3. invoice[d].v.items \in Nat
    BY <1>2, <1>8, ItemsType
  <2>4. ReturnedOf(d)' <= invoice[d].v.items
    BY <1>2, <1>6, <1>7, <2>1, <2>2, <2>3
  <2> QED BY <1>2, <2>4 DEF Fits
<1>9. CASE d # m.doc
  <2>1. SlipsIn(a, d) = SlipsIn(b, d) /\ \A s \in SlipsIn(a, d) : a[s] = b[s]
    BY <1>6, <1>9 DEF SlipsIn
  <2>2. SlipsOf(a, d) = SlipsOf(b, d)
    BY <1>4, <2>1, SlipsType, SlipsSame
  <2> QED BY <1>2, <1>7, <2>2 DEF Fits, Issued
<1> QED BY <1>8, <1>9

LEMMA FitsUnslipped ==
  ASSUME DocIInv, DocIInv', DocSerial, NEW s \in ReturnIds, RemoveReturn(s), NEW d \in InvoiceIds, Fits(d)
  PROVE  Fits(d)'
<1>1. PICK a, b : a = slip /\ b = slip'
  OBVIOUS
<1>2. /\ a[s] # None /\ b[s] = None /\ (\A v \in ReturnIds : v # s => b[v] = a[v]) /\ invoice' = invoice
      /\ a \in [ReturnIds -> {None} \cup SlipRow] /\ b \in [ReturnIds -> {None} \cup SlipRow]
      /\ IsFiniteSet({v \in ReturnIds : a[v] # None})
  <2>1. a \in [ReturnIds -> {None} \cup SlipRow] /\ IsFiniteSet({v \in ReturnIds : a[v] # None})
    BY <1>1, SlipsFinite
  <2>2. b \in [ReturnIds -> {None} \cup SlipRow]
    BY <1>1 DEF DocIInv, InvoiceTypeOK, SlipRow
  <2> QED BY <1>1, <2>1, <2>2 DEF RemoveReturn
<1>3. ReturnedOf(d) = SlipsOf(a, d) /\ ReturnedOf(d)' = SlipsOf(b, d)
  BY <1>1 DEF ReturnedOf, SlipsOf, SlipsIn
<1>4. SlipsOf(b, d) <= SlipsOf(a, d) /\ SlipsOf(a, d) \in Nat /\ SlipsOf(b, d) \in Nat
  <2>1. SlipsOf(a, d) \in Nat
    BY <1>2, SlipsType
  <2>2. CASE a[s].of = d
    <3>1. SlipsOf(a, d) = a[s].qty + SlipsOf(b, d)
      BY <1>2, <2>2, SlipAdded
    <3>2. a[s].qty \in Nat
      BY <1>2 DEF SlipRow
    <3>3. SlipsOf(b, d) \in Nat
      <4>1. {v \in ReturnIds : b[v] # None} \subseteq {v \in ReturnIds : a[v] # None}
        BY <1>2
      <4> QED BY <1>2, <4>1, FS_Subset, SlipsType
    <3> QED BY <2>1, <3>1, <3>2, <3>3
  <2>3. CASE a[s].of # d
    <3>1. SlipsIn(a, d) = SlipsIn(b, d) /\ \A v \in SlipsIn(a, d) : a[v] = b[v]
      BY <1>2, <2>3 DEF SlipsIn
    <3>2. SlipsOf(a, d) = SlipsOf(b, d)
      BY <1>2, <3>1, SlipsType, SlipsSame
    <3> QED BY <2>1, <3>2
  <2> QED BY <2>2, <2>3
<1> SUFFICES ASSUME Issued(d)' PROVE ReturnedOf(d)' <= invoice'[d].v.items
  BY DEF Fits
<1>5. Issued(d) /\ invoice[d].v.items \in Nat
  BY <1>2, ItemsType DEF Issued
<1> QED BY <1>2, <1>3, <1>4, <1>5 DEF Fits

LEMMA KeepsFitting ==
  ASSUME DocIIInv, DocIIInv', InvoiceNext, NEW d \in InvoiceIds, ~docOverlap, Fits(d),
         Issued(d) /\ Issued(d)' => invoice[d].v.items <= invoice'[d].v.items
  PROVE  Fits(d)'
<1>1. DocIInv /\ DocIInv' /\ DocSerial
  BY DEF DocIIInv
<1>2. \/ slip' = slip
      \/ \E r \in Requests : RemoveInvoice(r) \/ InsertReturn(r)
      \/ \E s \in ReturnIds : RemoveReturn(s)
  BY DEF InvoiceNext, BeginDoc, StepDoc, RejectDoc, BeginCreateInvoice, BeginUpdateInvoice,
     BeginCommission,
         BeginRemoveInvoice, BeginReturnGoods, ReadNumber, InsertInvoice, RetryInvoice,
         ClearRows, RebuildInvoice, ClearFees, AwardCommission, RollBack, StrikeRow, docVars, docData
<1>3. ASSUME NEW r \in Requests, InsertReturn(r) PROVE Fits(d)'
  BY <1>1, <1>3, SlipSerial, FitsReturned
<1> QED BY <1>1, <1>2, <1>3, FitsSame, FitsRemoved, FitsUnslipped

\* Of requests that come one at a time: whatever is returned, taken back or
\* removed, the returns against an invoice never come to more than it has, as
\* long as no update takes goods away from it.
THEOREM ReturnsAlwaysFit == InvoiceSpec => ReturnsKeepFitting
<1>1. DocIIInv /\ DocIIInv' /\ [InvoiceNext]_docVars =>
        [\A d \in InvoiceIds :
            ~docOverlap /\ Fits(d) /\ (Issued(d) /\ Issued(d)' => invoice[d].v.items <= invoice'[d].v.items)
                => Fits(d)']_docVars
  BY KeepsFitting
<1> QED BY <1>1, DocIIInit, DocIINext, PTL DEF InvoiceSpec, ReturnsKeepFitting

-----------------------------------------------------------------------------
(* The three modules of the office together.                               *)

OfficeInv == LoanIIInv /\ DocIInv /\ IInv

LEMMA OfficeNextInv == OfficeInv /\ [OfficeNext]_officeVars => OfficeInv'
<1> SUFFICES ASSUME OfficeInv, [OfficeNext]_officeVars PROVE OfficeInv'
  OBVIOUS
<1>1. [LoanNext]_loanVars /\ [InvoiceNext]_docVars /\ [AgentNext]_agentVars
  BY DEF OfficeNext, officeVars
<1>2. LoanIIInv'
  BY <1>1, SerialNext DEF OfficeInv
<1>3. DocIInv'
  BY <1>1, DocNextInv DEF OfficeInv
<1>4. IInv'
  BY <1>1, InvStep DEF OfficeInv
<1> QED BY <1>2, <1>3, <1>4 DEF OfficeInv

\* Every column of the three modules has its type, whichever of them moves.
THEOREM OfficeTypeCorrect == OfficeSpec => []OfficeTypeOK
<1>1. OfficeInit => OfficeInv
  BY SerialInit, DocInitInv, InvInit DEF OfficeInit, OfficeInv
<1>2. OfficeInv => OfficeTypeOK
  BY DEF OfficeInv, OfficeTypeOK, LoanIIInv, LoanIInv, DocIInv, IInv
<1> QED BY <1>1, <1>2, OfficeNextInv, PTL DEF OfficeSpec
=============================================================================
