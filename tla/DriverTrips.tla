------------------------------ MODULE DriverTrips ------------------------------
(***************************************************************************)
(* Trips of drivers: what is agreed with the driver and paid to him, and   *)
(* what the client is charged for delay and for difference of weight.  A   *)
(* payment out of a treasury, or on the account of a supplier, has an      *)
(* entry of the money log beside it (DriverPayment.txId); a charge has one *)
(* that the trip points to (delayTxId, weightDiffTxId).  The pointers are  *)
(* plain numbers: no foreign key keeps them.                               *)
(***************************************************************************)
EXTENDS Office, Sequences, FiniteSetsExt

CONSTANTS
    Trips,         \* ids of trips; each is used once
    TripAmounts,   \* amounts of payments and differences of weight
    Freights,      \* freights that may be agreed
    LateDays,      \* how many days a trip may take
    GraceDays,     \* AppConfig.delayGraceDays
    FeePerDay,     \* AppConfig.delayFeePerDay
    MaxTripRows,   \* bound of the model: no request begins once the log had so many rows
    MaxTripBegun   \* bound of the model: requests that may overlap, in a behaviour

PayKinds == {"freight", "delay", "advance", "weightDiff"}
TripRow == [client : BOOLEAN, agreed : Nat, arrived : BOOLEAN, delayTx : Nat \cup {None},
            fee : Nat, weightTx : Nat \cup {None}, weight : Nat]
PayRow == [trip : Trips, kind : PayKinds \cup {"tea"}, amount : Nat, tx : Nat \cup {None}]
TripEntry == [trip : Trips, kind : {"cash", "supplier", "delay", "weight"}, amount : Nat]

ASSUME TripAssumption ==
    /\ None \notin Nat \cup Trips \cup TripRow \cup PayRow \cup TripEntry
    /\ TripAmounts \subseteq Nat \ {0} /\ Freights \subseteq Nat /\ LateDays \subseteq Nat
    /\ GraceDays \in Nat /\ FeePerDay \in Nat
    /\ MaxTripRows \in Nat /\ MaxTripBegun \in Nat

VARIABLES
    trip,         \* the row of each trip, None while there is none
    tripsMade,    \* ids given out
    driverPay,    \* DriverPayment rows in the order they were made, None where one is deleted
    tripMoney,    \* rows of the money log that belong to trips, likewise
    tripPc,       \* where each request is
    tripMem,      \* what each request has read and was asked
    tripSoiled,   \* trips whose books the code itself lets part, see the properties
    tripOverlap,  \* whether requests overlap in this behaviour
    tripBegun,    \* requests begun while they may overlap
    tripCuts      \* requests cut off so far

tripRows == <<trip, tripsMade, driverPay, tripMoney>>
tripVars == <<trip, tripsMade, driverPay, tripMoney, tripPc, tripMem, tripSoiled, tripOverlap,
              tripBegun, tripCuts>>

TripBlank == [trip |-> None, row |-> None, kind |-> "freight", amount |-> 0, source |-> "none",
              extra |-> 0, fee |-> 0, pay |-> 0, entry |-> 0, todo |-> {}]

IsTrip(t) == trip[t] # None
PaysOf(t) == {n \in DOMAIN driverPay : driverPay[n] # None /\ driverPay[n].trip = t}
PaidTo(t, kinds) ==
    MapThenSumSet(LAMBDA n : driverPay[n].amount, {n \in PaysOf(t) : driverPay[n].kind \in kinds})

TripGoto(r, l) == tripPc' = [tripPc EXCEPT ![r] = l]
TripRemember(r, m) == tripMem' = [tripMem EXCEPT ![r] = m]
TripEnd(r) == TripGoto(r, "idle") /\ TripRemember(r, TripBlank)
TripsIdle == \A r \in Requests : tripPc[r] = "idle"

EnterTrip(r) ==
    /\ tripPc[r] = "idle"
    /\ IF tripOverlap THEN tripBegun < MaxTripBegun /\ tripBegun' = tripBegun + 1
                      ELSE TripsIdle /\ UNCHANGED tripBegun

RoomForRows == Len(tripMoney) < MaxTripRows /\ Len(driverPay) < MaxTripRows

-----------------------------------------------------------------------------
(* createPaymentWithTreasuryTx: the payment and its entry in one commit.   *)
(* The foreign key of the payment refuses a trip that is gone.             *)

AddedPayment(t, kind, amount, source) ==
    LET backed == source # "none"
        entry == [trip |-> t, kind |-> source, amount |-> amount]
        tx == IF backed THEN Len(tripMoney) + 1 ELSE None
    IN
    /\ IsTrip(t)
    /\ tripMoney' = IF backed THEN Append(tripMoney, entry) ELSE tripMoney
    /\ driverPay' = Append(driverPay, [trip |-> t, kind |-> kind, amount |-> amount, tx |-> tx])
    /\ UNCHANGED <<trip, tripsMade>>

(* deleteTransactionAndEffects, as far as trips are concerned.             *)

PaysKept(e) == driverPay   \* mutant: the entry goes alone
PaysWithout(e) == [n \in DOMAIN driverPay |->
    IF driverPay[n] # None /\ driverPay[n].tx = e THEN None ELSE driverPay[n]]

TripsPointing(e) == trip   \* mutant: the pointer dangles
TripsWithout(e) == [t \in Trips |->
    IF ~IsTrip(t) THEN None
    ELSE [trip[t] EXCEPT !.delayTx = IF @ = e THEN None ELSE @,
                         !.fee = IF trip[t].delayTx = e THEN 0 ELSE @,
                         !.weightTx = IF @ = e THEN None ELSE @,
                         !.weight = IF trip[t].weightTx = e THEN 0 ELSE @]]

EntryDeleted(e) ==
    IF e \in DOMAIN tripMoney /\ tripMoney[e] # None
    THEN /\ driverPay' = PaysWithout(e)
         /\ trip' = TripsWithout(e)
         /\ tripMoney' = [tripMoney EXCEPT ![e] = None]
         /\ UNCHANGED tripsMade
    ELSE UNCHANGED tripRows

-----------------------------------------------------------------------------
(* create: the trip is committed before the advance payment is looked at.  *)

CreateTrip(r, t, agreed, client, first, tea, source) ==
    /\ EnterTrip(r) /\ RoomForRows
    /\ t \notin tripsMade
    /\ tripsMade' = tripsMade \cup {t}
    /\ trip' = [trip EXCEPT ![t] = [client |-> client, agreed |-> agreed, arrived |-> FALSE,
                                    delayTx |-> None, fee |-> 0, weightTx |-> None, weight |-> 0]]
    /\ TripGoto(r, IF first > 0 THEN "payFirst" ELSE IF tea > 0 THEN "payTea" ELSE "idle")
    /\ TripRemember(r, IF first + tea = 0 THEN TripBlank
                       ELSE [TripBlank EXCEPT !.trip = t, !.amount = first, !.fee = agreed,
                                              !.extra = tea, !.source = source])
    /\ UNCHANGED <<driverPay, tripMoney, tripSoiled, tripOverlap, tripCuts>>

PayFirst(r) ==
    LET m == tripMem[r] IN
    /\ tripPc[r] = "payFirst"
    /\ m.amount <= m.fee
    /\ AddedPayment(m.trip, "freight", m.amount, m.source)
    /\ IF m.extra > 0 THEN TripGoto(r, "payTea") /\ UNCHANGED tripMem ELSE TripEnd(r)
    /\ UNCHANGED <<tripSoiled, tripOverlap, tripBegun, tripCuts>>

PayTea(r) ==
    LET m == tripMem[r] IN
    /\ tripPc[r] = "payTea"
    /\ AddedPayment(m.trip, "tea", m.extra, m.source)
    /\ TripEnd(r)
    /\ UNCHANGED <<tripSoiled, tripOverlap, tripBegun, tripCuts>>

\* update: the freight and the client are written whatever was paid and charged
UpdateTrip(r, t, agreed, client) ==
    /\ EnterTrip(r)
    /\ IsTrip(t)
    /\ trip' = [trip EXCEPT ![t].agreed = agreed, ![t].client = client]
    /\ tripSoiled' = IF agreed < PaidTo(t, {"freight"}) THEN tripSoiled \cup {t} ELSE tripSoiled
    /\ UNCHANGED <<tripsMade, driverPay, tripMoney, tripPc, tripMem, tripOverlap, tripCuts>>

-----------------------------------------------------------------------------
(* addPayment: the payments that were read limit the new one.              *)

OwedUnlimited(t, kind, amount) == amount   \* mutant: no limit
Owed(t, kind, amount) ==
    CASE kind = "freight" -> trip[t].agreed - PaidTo(t, {"freight"})
      [] kind = "delay" -> trip[t].fee - PaidTo(t, {"delay", "advance"})
      [] kind = "weightDiff" -> trip[t].weight - PaidTo(t, {"weightDiff"})
      [] kind = "advance" -> amount

BeginPayDriver(r, t, kind, amount, source, bundled) ==
    /\ EnterTrip(r) /\ RoomForRows
    /\ IsTrip(t)
    /\ amount <= Owed(t, kind, amount)
    /\ source = "supplier" => kind = "freight"
    /\ bundled > 0 => kind = "delay"
    /\ TripGoto(r, "pay")
    /\ TripRemember(r, [TripBlank EXCEPT !.trip = t, !.kind = kind, !.amount = amount,
                                         !.source = source, !.extra = bundled])
    /\ UNCHANGED <<tripRows, tripSoiled, tripOverlap, tripCuts>>

PayDriver(r) ==
    LET m == tripMem[r] IN
    /\ tripPc[r] = "pay"
    /\ AddedPayment(m.trip, m.kind, m.amount, m.source)
    /\ IF m.extra > 0 THEN TripGoto(r, "payBundled") /\ UNCHANGED tripMem ELSE TripEnd(r)
    /\ UNCHANGED <<tripSoiled, tripOverlap, tripBegun, tripCuts>>

\* an amount that nothing limits
PayBundled(r) ==
    LET m == tripMem[r] IN
    /\ tripPc[r] = "payBundled"
    /\ AddedPayment(m.trip, "weightDiff", m.extra, m.source)
    /\ TripEnd(r)
    /\ UNCHANGED <<tripSoiled, tripOverlap, tripBegun, tripCuts>>

BeginUnpay(r, n) ==
    /\ EnterTrip(r)
    /\ n \in DOMAIN driverPay /\ driverPay[n] # None
    /\ TripGoto(r, "unpay")
    /\ TripRemember(r, [TripBlank EXCEPT !.pay = n])
    /\ UNCHANGED <<tripRows, tripSoiled, tripOverlap, tripCuts>>

\* with its entry, whose deletion takes the payment along
Unpay(r) ==
    LET n == tripMem[r].pay IN
    /\ tripPc[r] = "unpay"
    /\ driverPay[n] # None
    /\ IF driverPay[n].tx # None THEN EntryDeleted(driverPay[n].tx)
       ELSE /\ driverPay' = [driverPay EXCEPT ![n] = None]
            /\ UNCHANGED <<trip, tripsMade, tripMoney>>
    /\ TripEnd(r)
    /\ UNCHANGED <<tripSoiled, tripOverlap, tripBegun, tripCuts>>

-----------------------------------------------------------------------------
(* setArrival and updateWeightDiff: a charge is deleted, changed or made,  *)
(* in a commit of its own, and the trip is written at the end.             *)

DelayFee(late) == IF late > GraceDays THEN (late - GraceDays) * FeePerDay ELSE 0

BeginArrival(r, t, late, weight) ==
    /\ EnterTrip(r) /\ RoomForRows
    /\ IsTrip(t)
    /\ TripGoto(r, "delay")
    /\ TripRemember(r, [TripBlank EXCEPT
            !.trip = t, !.row = trip[t], !.fee = DelayFee(late),
            !.amount = IF weight = None THEN trip[t].weight ELSE weight])
    /\ UNCHANGED <<tripRows, tripSoiled, tripOverlap, tripCuts>>

\* tx is what the reading pointed to; the new pointer is remembered
Charged(r, kind, tx, amount, next) ==
    LET m == tripMem[r]
        Pointing(e) == TripRemember(r, [m EXCEPT !.row =
            IF kind = "delay" THEN [m.row EXCEPT !.delayTx = e] ELSE [m.row EXCEPT !.weightTx = e]])
    IN
    /\ \/ /\ tx # None /\ amount = 0
          /\ EntryDeleted(tx)
          /\ Pointing(None)
       \/ /\ tx # None /\ amount > 0
          /\ tripMoney[tx] # None
          /\ tripMoney' = [tripMoney EXCEPT ![tx].amount = amount]
          /\ UNCHANGED <<trip, tripsMade, driverPay, tripMem>>
       \/ /\ tx = None /\ amount > 0 /\ m.row.client
          /\ tripMoney' = Append(tripMoney, [trip |-> m.trip, kind |-> kind, amount |-> amount])
          /\ Pointing(Len(tripMoney) + 1)
          /\ UNCHANGED <<trip, tripsMade, driverPay>>
       \/ /\ tx = None /\ (amount = 0 \/ ~m.row.client)
          /\ UNCHANGED <<tripRows, tripMem>>
    /\ TripGoto(r, next)

ChargeDelay(r) ==
    /\ tripPc[r] = "delay"
    /\ Charged(r, "delay", tripMem[r].row.delayTx, tripMem[r].fee, "weight")
    /\ UNCHANGED <<tripSoiled, tripOverlap, tripBegun, tripCuts>>

ChargeWeight(r) ==
    /\ tripPc[r] = "weight"
    /\ Charged(r, "weight", tripMem[r].row.weightTx, tripMem[r].amount, "arrive")
    /\ UNCHANGED <<tripSoiled, tripOverlap, tripBegun, tripCuts>>

ArrivedUnpriced(row, m) ==   \* mutant: the fee of the first arrival stays
    [row EXCEPT !.arrived = TRUE, !.weight = m.amount,
                !.delayTx = m.row.delayTx, !.weightTx = m.row.weightTx]
Arrived(row, m) ==
    [row EXCEPT !.arrived = TRUE, !.fee = m.fee, !.weight = m.amount,
                !.delayTx = m.row.delayTx, !.weightTx = m.row.weightTx]

WriteArrival(r) ==
    LET m == tripMem[r] IN
    /\ tripPc[r] = "arrive"
    /\ IsTrip(m.trip)
    /\ trip' = [trip EXCEPT ![m.trip] = Arrived(@, m)]
    /\ TripEnd(r)
    /\ UNCHANGED <<tripsMade, driverPay, tripMoney, tripSoiled, tripOverlap, tripBegun, tripCuts>>

BeginWeight(r, t, amount) ==
    /\ EnterTrip(r) /\ RoomForRows
    /\ IsTrip(t) /\ trip[t].arrived
    /\ TripGoto(r, "reweigh")
    /\ TripRemember(r, [TripBlank EXCEPT !.trip = t, !.row = trip[t], !.amount = amount])
    /\ UNCHANGED <<tripRows, tripSoiled, tripOverlap, tripCuts>>

\* a charge that is there is changed, to nothing too
Reweigh(r) ==
    LET m == tripMem[r]
        tx == m.row.weightTx
    IN
    /\ tripPc[r] = "reweigh"
    /\ \/ /\ tx # None /\ tripMoney[tx] # None
          /\ tripMoney' = [tripMoney EXCEPT ![tx].amount = m.amount]
          /\ UNCHANGED <<trip, tripsMade, driverPay, tripMem>>
          /\ TripGoto(r, "writeWeight")
       \/ tx = None /\ Charged(r, "weight", tx, m.amount, "writeWeight")
    /\ UNCHANGED <<tripSoiled, tripOverlap, tripBegun, tripCuts>>

\* the pointer is written only where an entry was made
WriteWeight(r) ==
    LET m == tripMem[r] IN
    /\ tripPc[r] = "writeWeight"
    /\ IsTrip(m.trip)
    /\ trip' = [trip EXCEPT ![m.trip].weight = m.amount,
                            ![m.trip].weightTx = IF m.row.weightTx = None THEN @ ELSE m.row.weightTx]
    /\ TripEnd(r)
    /\ UNCHANGED <<tripsMade, driverPay, tripMoney, tripSoiled, tripOverlap, tripBegun, tripCuts>>

-----------------------------------------------------------------------------
(* remove: the entries one after the other, then the trip, which takes the *)
(* payments that are left with it (onDelete: Cascade).                     *)

EntriesOfCharges(t) == {trip[t].delayTx, trip[t].weightTx} \ {None}   \* mutant: payments forgotten
EntriesOf(t) == ({driverPay[n].tx : n \in PaysOf(t)} \cup {trip[t].delayTx, trip[t].weightTx}) \ {None}

BeginRemoveTrip(r, t) ==
    /\ EnterTrip(r)
    /\ IsTrip(t) /\ ~trip[t].arrived
    /\ TripGoto(r, "removeEntries")
    /\ TripRemember(r, [TripBlank EXCEPT !.trip = t, !.todo = EntriesOf(t)])
    /\ UNCHANGED <<tripRows, tripSoiled, tripOverlap, tripCuts>>

RemoveEntryOf(r, e) ==
    /\ tripPc[r] = "removeEntries"
    /\ e \in tripMem[r].todo
    /\ EntryDeleted(e)
    /\ TripRemember(r, [tripMem[r] EXCEPT !.todo = @ \ {e}])
    /\ UNCHANGED <<tripPc, tripSoiled, tripOverlap, tripBegun, tripCuts>>

TripGone(t) ==
    /\ trip' = [trip EXCEPT ![t] = None]
    /\ driverPay' = [n \in DOMAIN driverPay |-> IF n \in PaysOf(t) THEN None ELSE driverPay[n]]
    /\ UNCHANGED <<tripsMade, tripMoney>>

RemoveTrip(r) ==
    /\ tripPc[r] = "removeEntries"
    /\ tripMem[r].todo = {} /\ IsTrip(tripMem[r].trip)
    /\ TripGone(tripMem[r].trip)
    /\ TripEnd(r)
    /\ UNCHANGED <<tripSoiled, tripOverlap, tripBegun, tripCuts>>

-----------------------------------------------------------------------------
(* The money log: an entry is deleted with its effects; an edit of a       *)
(* charge for weight is copied to its trip in a second commit, edits of    *)
(* other entries are not.  The audit log: undoing the creation of a trip   *)
(* deletes that one row.                                                   *)

DropEntry(r, e) ==
    /\ EnterTrip(r)
    /\ e \in DOMAIN tripMoney /\ tripMoney[e] # None
    /\ EntryDeleted(e)
    /\ UNCHANGED <<tripPc, tripMem, tripSoiled, tripOverlap, tripCuts>>

EditTripEntry(r, e, amount) ==
    LET weight == tripMoney[e].kind = "weight" IN
    /\ EnterTrip(r)
    /\ e \in DOMAIN tripMoney /\ tripMoney[e] # None
    /\ tripMoney[e].amount > 0
    /\ tripMoney' = [tripMoney EXCEPT ![e].amount = amount]
    /\ tripSoiled' = IF weight THEN tripSoiled ELSE tripSoiled \cup {tripMoney[e].trip}
    /\ IF weight THEN /\ TripGoto(r, "mirrorWeight")
                      /\ TripRemember(r, [TripBlank EXCEPT !.entry = e, !.amount = amount])
                 ELSE UNCHANGED <<tripPc, tripMem>>
    /\ UNCHANGED <<trip, tripsMade, driverPay, tripOverlap, tripCuts>>

MirrorWeight(r) ==
    LET m == tripMem[r] IN
    /\ tripPc[r] = "mirrorWeight"
    /\ trip' = [t \in Trips |-> IF IsTrip(t) /\ trip[t].weightTx = m.entry
                                THEN [trip[t] EXCEPT !.weight = m.amount] ELSE trip[t]]
    /\ TripEnd(r)
    /\ UNCHANGED <<tripsMade, driverPay, tripMoney, tripSoiled, tripOverlap, tripBegun, tripCuts>>

UndoTrip(r, t) ==
    /\ EnterTrip(r)
    /\ IsTrip(t)
    /\ TripGone(t)
    /\ tripSoiled' = tripSoiled \cup {t}
    /\ UNCHANGED <<tripPc, tripMem, tripOverlap, tripCuts>>

-----------------------------------------------------------------------------
TripRefused(r) ==
    LET m == tripMem[r]
        Missing(e) == e # None /\ tripMoney[e] = None
    IN
    \/ tripPc[r] = "payFirst" /\ m.amount > m.fee
    \/ tripPc[r] \in {"payFirst", "payTea", "pay", "payBundled", "arrive", "writeWeight"}
            /\ ~IsTrip(m.trip)
    \/ tripPc[r] = "removeEntries" /\ m.todo = {} /\ ~IsTrip(m.trip)
    \/ tripPc[r] = "unpay" /\ driverPay[m.pay] = None
    \/ tripPc[r] = "delay" /\ m.fee > 0 /\ Missing(m.row.delayTx)
    \/ tripPc[r] = "weight" /\ m.amount > 0 /\ Missing(m.row.weightTx)
    \/ tripPc[r] = "reweigh" /\ Missing(m.row.weightTx)

\* What the handler has committed stays, the trip of a refused advance payment too.
TripRefuse(r) ==
    /\ TripRefused(r)
    /\ TripEnd(r)
    /\ UNCHANGED <<tripRows, tripSoiled, tripOverlap, tripBegun, tripCuts>>

TripCutOff(r) ==
    /\ tripPc[r] # "idle" /\ tripCuts < MaxCuts
    /\ tripCuts' = tripCuts + 1
    /\ tripSoiled' = tripSoiled \cup {t \in Trips : IsTrip(t)}
    /\ TripEnd(r)
    /\ UNCHANGED <<tripRows, tripOverlap, tripBegun>>

Sources == {"none", "cash", "supplier"}

BeginTrip(r) ==
    \/ \E t \in Trips, agreed \in Freights, client \in BOOLEAN, first, tea \in TripAmounts \cup {0} :
            CreateTrip(r, t, agreed, client, first, tea, "cash")
    \/ \E t \in Trips :
        \/ \E agreed \in Freights, client \in BOOLEAN : UpdateTrip(r, t, agreed, client)
        \/ \E kind \in PayKinds, amount \in TripAmounts, source \in Sources,
              bundled \in TripAmounts \cup {0} : BeginPayDriver(r, t, kind, amount, source, bundled)
        \/ \E late \in LateDays, weight \in TripAmounts \cup {0, None} : BeginArrival(r, t, late, weight)
        \/ \E amount \in TripAmounts \cup {0} : BeginWeight(r, t, amount)
        \/ BeginRemoveTrip(r, t)
        \/ UndoTrip(r, t)
    \/ \E n \in DOMAIN driverPay : BeginUnpay(r, n)
    \/ \E e \in DOMAIN tripMoney :
        \/ DropEntry(r, e)
        \/ \E amount \in TripAmounts : EditTripEntry(r, e, amount)

StepTrip(r) ==
    \/ PayFirst(r) \/ PayTea(r) \/ PayDriver(r) \/ PayBundled(r) \/ Unpay(r)
    \/ ChargeDelay(r) \/ ChargeWeight(r) \/ WriteArrival(r)
    \/ Reweigh(r) \/ WriteWeight(r)
    \/ \E e \in tripMem[r].todo : RemoveEntryOf(r, e)
    \/ RemoveTrip(r) \/ MirrorWeight(r) \/ TripRefuse(r)

TripInit ==
    /\ trip = [t \in Trips |-> None] /\ tripsMade = {}
    /\ driverPay = <<>> /\ tripMoney = <<>>
    /\ tripPc = [r \in Requests |-> "idle"]
    /\ tripMem = [r \in Requests |-> TripBlank]
    /\ tripSoiled = {}
    /\ tripOverlap \in BOOLEAN
    /\ tripBegun = 0 /\ tripCuts = 0

TripNext == \E r \in Requests : BeginTrip(r) \/ StepTrip(r) \/ TripCutOff(r)

TripSpec == TripInit /\ [][TripNext]_tripVars

-----------------------------------------------------------------------------
(* Properties.                                                             *)

EntryNo == 1 .. Len(tripMoney)

\* Every column has its type, and ids are given out before anything is said of their trips.
TripTypeOK ==
    /\ trip \in [Trips -> TripRow \cup {None}]
    /\ driverPay \in Seq(PayRow \cup {None})
    /\ tripMoney \in Seq(TripEntry \cup {None})
    /\ tripSoiled \subseteq tripsMade /\ tripsMade \subseteq Trips

\* However requests overlap and wherever they stop, a payment that came out of a treasury,
\* or went on the account of a supplier, has its entry in the money log: neither side is
\* deleted without the other (transaction-cascade.ts:13), none is posted without it.
PaymentsBacked ==
    \A n \in DOMAIN driverPay : driverPay[n] # None /\ driverPay[n].tx # None =>
        /\ driverPay[n].tx \in EntryNo
        /\ tripMoney[driverPay[n].tx] # None
        /\ tripMoney[driverPay[n].tx].kind \in {"cash", "supplier"}

TripsCalm == ~tripOverlap /\ TripsIdle

\* what the client is charged is what the trip says, and the trip points to it
ChargesAgree ==
    \A t \in Trips \ tripSoiled : IsTrip(t) =>
        /\ trip[t].delayTx # None =>
              /\ tripMoney[trip[t].delayTx] # None
              /\ tripMoney[trip[t].delayTx].amount = trip[t].fee
        /\ trip[t].weightTx # None =>
              /\ tripMoney[trip[t].weightTx] # None
              /\ tripMoney[trip[t].weightTx].amount = trip[t].weight

\* no entry of a trip is left without the payment or the charge it stands for
EntriesOwned ==
    \A e \in EntryNo : tripMoney[e] # None /\ tripMoney[e].trip \notin tripSoiled =>
        LET t == tripMoney[e].trip IN
        /\ IsTrip(t)
        /\ CASE tripMoney[e].kind = "delay" -> trip[t].delayTx = e
             [] tripMoney[e].kind = "weight" -> trip[t].weightTx = e
             [] OTHER -> \E n \in PaysOf(t) : driverPay[n].tx = e /\ driverPay[n].amount = tripMoney[e].amount

FreightWithinAgreed == \A t \in Trips \ tripSoiled : IsTrip(t) => PaidTo(t, {"freight"}) <= trip[t].agreed

\* Of requests one at a time, the books of a trip agree with the money log: charges and
\* their amounts, entries and their owners, the freight paid with the freight agreed.
\* Not of a trip whose creation was undone, whose request was cut off, whose agreed freight
\* was lowered below what was paid, or whose payment or delay was edited in the money log.
TripBooksAgree == TripsCalm => ChargesAgree /\ EntriesOwned /\ FreightWithinAgreed

=============================================================================
