-------------------------- MODULE RidesDealsProofs --------------------------
(***************************************************************************)
(* Theorems about DriverTrips, ManifestTrips and Deals, for any trips,     *)
(* papers, deals, requests, amounts and days: TripTypeOK, PaymentsBacked   *)
(* and TripBooksAgree of DriverTrips; of ManifestTrips, that a sheet and   *)
(* its ride agree; of Deals, that a deal has every row of its present form *)
(* and, of requests one at a time, no other.                               *)
(*                                                                         *)
(* The pointer of a payment is a plain number, but the log only grows and  *)
(* a row that is deleted takes every payment that points at it in the same *)
(* commit; so it is enough that no row changes its kind and that a payment *)
(* is written in the commit of its entry.  That the books agree holds of   *)
(* requests one at a time: between two commits of a request they agree     *)
(* with the row that the trip is to have, not with the one that it has.    *)
(***************************************************************************)
EXTENDS DriverTrips, ManifestTrips, Deals, SequenceTheorems, SumProofs, TLAPS

-----------------------------------------------------------------------------
(* Trips of the drivers.                                                   *)

Places == {"idle", "payFirst", "payTea", "pay", "payBundled", "unpay", "delay", "weight", "arrive",
           "reweigh", "writeWeight", "removeEntries", "mirrorWeight"}

TripLocal ==
    [trip : Trips \cup {None}, row : TripRow \cup {None}, kind : PayKinds, amount : Nat,
     source : Sources, extra : Nat, fee : Nat, pay : Nat, entry : Nat, todo : SUBSET Nat]

\* A request that is to write a payment, a charge or a trip has a trip, and one that
\* charges has the row that it read.
Charging == {"delay", "weight", "arrive", "reweigh", "writeWeight"}
WithTrip == Charging \cup {"payFirst", "payTea", "pay", "payBundled", "removeEntries"}

Local(r) ==
    /\ tripPc[r] \in WithTrip => tripMem[r].trip \in tripsMade
    /\ tripPc[r] \in Charging => tripMem[r].row \in TripRow

LocalsOK ==
    /\ tripPc \in [Requests -> Places]
    /\ tripMem \in [Requests -> TripLocal]
    /\ \A r \in Requests : Local(r)

\* Whatever names a trip names one that was made.
EntriesKnown ==
    /\ \A t \in Trips : IsTrip(t) => t \in tripsMade
    /\ \A e \in EntryNo : tripMoney[e] # None => tripMoney[e].trip \in tripsMade

Rows == TripTypeOK /\ EntriesKnown /\ PaymentsBacked

IInv == Rows /\ LocalsOK

-----------------------------------------------------------------------------
LEMMA NotNone == None \notin TripRow /\ None \notin PayRow /\ None \notin TripEntry
                 /\ None \notin Nat /\ None \notin Trips
  BY TripAssumption

\* A sequence whose elements are replaced one by one is one of the same length.
LEMMA SeqReplaced ==
  ASSUME NEW S, NEW s \in Seq(S), NEW t \in [DOMAIN s -> S]
  PROVE  t \in Seq(S) /\ Len(t) = Len(s) /\ DOMAIN t = 1 .. Len(s)
<1>1. DOMAIN s = 1 .. Len(s) /\ Len(s) \in Nat
  OBVIOUS
<1>2. t \in [1 .. Len(s) -> S]
  BY <1>1
<1> QED BY <1>1, <1>2

-----------------------------------------------------------------------------
(* What a commit does to the rows.                                         *)

Seqs == /\ driverPay \in Seq(PayRow \cup {None}) /\ tripMoney \in Seq(TripEntry \cup {None})
        /\ tripsMade \subseteq Trips /\ trip \in [Trips -> TripRow \cup {None}]

LEMMA RowsSeqs ==
  ASSUME Rows
  PROVE  /\ Seqs /\ Len(tripMoney) \in Nat /\ Len(driverPay) \in Nat
         /\ DOMAIN driverPay = 1 .. Len(driverPay) /\ DOMAIN tripMoney = 1 .. Len(tripMoney)
         /\ tripSoiled \subseteq tripsMade
<1>1. Seqs /\ tripSoiled \subseteq tripsMade
  BY DEF Rows, TripTypeOK, Seqs
<1> QED BY <1>1 DEF Seqs

\* The trips are written, the payments and the log are not.
LEMMA TripStep ==
  ASSUME Rows, UNCHANGED <<driverPay, tripMoney>>, trip' \in [Trips -> TripRow \cup {None}],
         tripsMade \subseteq tripsMade', tripsMade' \subseteq Trips, tripSoiled' \subseteq tripsMade',
         \A t \in Trips : trip'[t] # None => t \in tripsMade'
  PROVE  Rows'
<1>1. TripTypeOK'
  BY DEF Rows, TripTypeOK
<1>2. EntriesKnown'
  BY DEF Rows, EntriesKnown, IsTrip, EntryNo
<1>3. PaymentsBacked'
  BY DEF Rows, PaymentsBacked, EntryNo
<1> QED BY <1>1, <1>2, <1>3 DEF Rows

LEMMA TripRowsStay ==
  ASSUME Rows, UNCHANGED tripRows, tripSoiled' \subseteq tripsMade
  PROVE  Rows'
<1>1. UNCHANGED <<trip, tripsMade, driverPay, tripMoney>>
  BY DEF tripRows
<1>2. \A t \in Trips : trip[t] # None => t \in tripsMade
  BY DEF Rows, EntriesKnown, IsTrip
<1>3. trip \in [Trips -> TripRow \cup {None}] /\ tripsMade \subseteq Trips
  BY RowsSeqs DEF Seqs
<1> QED BY <1>1, <1>2, <1>3, TripStep

\* The log grows, and no row of it changes its kind.
LEMMA MoneyStep ==
  ASSUME Rows, UNCHANGED <<trip, tripsMade, driverPay>>, tripSoiled' \subseteq tripsMade,
         tripMoney' \in Seq(TripEntry \cup {None}), Len(tripMoney') >= Len(tripMoney),
         \A e \in EntryNo : tripMoney[e] # None =>
            tripMoney'[e] # None /\ tripMoney'[e].kind = tripMoney[e].kind,
         \A e \in EntryNo' : tripMoney'[e] # None => tripMoney'[e].trip \in tripsMade
  PROVE  Rows'
<1>1. TripTypeOK'
  BY DEF Rows, TripTypeOK
<1>2. EntriesKnown'
  BY DEF Rows, EntriesKnown, IsTrip
<1>3. \A e \in EntryNo : e \in EntryNo'
  BY RowsSeqs DEF EntryNo, Seqs
<1>4. PaymentsBacked'
  BY <1>3 DEF Rows, PaymentsBacked
<1> QED BY <1>1, <1>2, <1>4 DEF Rows

LEMMA EditedStep ==
  ASSUME Rows, NEW e, NEW amount \in Nat, tripMoney[e] # None,
         tripMoney' = [tripMoney EXCEPT ![e].amount = amount],
         UNCHANGED <<trip, tripsMade, driverPay>>, tripSoiled' \subseteq tripsMade
  PROVE  Rows'
<1>1. /\ tripMoney \in Seq(TripEntry \cup {None}) /\ DOMAIN tripMoney = EntryNo
      /\ Len(tripMoney) \in Nat
  BY RowsSeqs DEF Seqs, EntryNo
<1>2. \A i \in DOMAIN tripMoney : tripMoney[i] \in TripEntry \cup {None}
  BY <1>1
<1>3. \A i \in DOMAIN tripMoney : tripMoney'[i] =
        IF i = e THEN [tripMoney[e] EXCEPT !.amount = amount] ELSE tripMoney[i]
  OBVIOUS
<1>4. \A x \in TripEntry : /\ [x EXCEPT !.amount = amount] \in TripEntry
                           /\ [x EXCEPT !.amount = amount].kind = x.kind
                           /\ [x EXCEPT !.amount = amount].trip = x.trip
  BY DEF TripEntry
<1>5. \A i \in DOMAIN tripMoney :
        /\ tripMoney'[i] \in TripEntry \cup {None}
        /\ tripMoney[i] # None => /\ tripMoney'[i] # None /\ tripMoney'[i].kind = tripMoney[i].kind
                                  /\ tripMoney'[i].trip = tripMoney[i].trip
        /\ tripMoney'[i] # None => tripMoney[i] # None
  BY <1>2, <1>3, <1>4, NotNone
<1>6. tripMoney' \in [DOMAIN tripMoney -> TripEntry \cup {None}]
  BY <1>5
<1>7. tripMoney' \in Seq(TripEntry \cup {None}) /\ Len(tripMoney') = Len(tripMoney)
  BY <1>1, <1>6, SeqReplaced
<1>8. EntryNo' = EntryNo
  BY <1>7 DEF EntryNo
<1>9. \A i \in EntryNo' : tripMoney'[i] # None => tripMoney'[i].trip \in tripsMade
  BY <1>1, <1>5, <1>8 DEF Rows, EntriesKnown
<1> QED BY <1>1, <1>5, <1>7, <1>9, MoneyStep

LEMMA ChargeMade ==
  ASSUME Rows, NEW t \in tripsMade, NEW kind \in {"delay", "weight"}, NEW amount \in Nat,
         tripMoney' = Append(tripMoney, [trip |-> t, kind |-> kind, amount |-> amount]),
         UNCHANGED <<trip, tripsMade, driverPay>>, tripSoiled' \subseteq tripsMade
  PROVE  Rows'
<1> DEFINE entry == [trip |-> t, kind |-> kind, amount |-> amount]
<1>1. entry \in TripEntry /\ entry.trip = t
  BY RowsSeqs DEF TripEntry, Seqs
<1>2. /\ tripMoney' \in Seq(TripEntry \cup {None}) /\ Len(tripMoney') = Len(tripMoney) + 1
      /\ \A n \in 1 .. Len(tripMoney) : tripMoney'[n] = tripMoney[n]
      /\ tripMoney'[Len(tripMoney) + 1] = entry /\ Len(tripMoney) \in Nat
  BY <1>1, RowsSeqs, SeqAppended DEF Seqs
<1>3. \A e \in EntryNo' : tripMoney'[e] # None => tripMoney'[e].trip \in tripsMade
  <2> SUFFICES ASSUME NEW e \in EntryNo', tripMoney'[e] # None
               PROVE  tripMoney'[e].trip \in tripsMade
    OBVIOUS
  <2>1. CASE e \in 1 .. Len(tripMoney)
    BY <2>1, <1>2 DEF Rows, EntriesKnown, EntryNo
  <2>2. CASE e = Len(tripMoney) + 1
    BY <2>2, <1>1, <1>2
  <2> QED BY <2>1, <2>2, <1>2 DEF EntryNo
<1>4. \A e \in EntryNo : tripMoney[e] # None =>
            tripMoney'[e] # None /\ tripMoney'[e].kind = tripMoney[e].kind
  BY <1>2 DEF EntryNo
<1>5. Len(tripMoney') >= Len(tripMoney) /\ tripMoney' \in Seq(TripEntry \cup {None})
  BY <1>2
<1> HIDE DEF entry
<1> QED BY <1>3, <1>4, <1>5, MoneyStep

\* A payment and its entry in one commit.
LEMMA AddedStep ==
  ASSUME Rows, NEW t \in tripsMade, NEW kind \in PayKinds \cup {"tea"}, NEW amount \in Nat,
         NEW source \in Sources, AddedPayment(t, kind, amount, source), UNCHANGED tripSoiled
  PROVE  Rows' /\ UNCHANGED tripsMade
<1> DEFINE entry == [trip |-> t, kind |-> source, amount |-> amount]
           tx == IF source # "none" THEN Len(tripMoney) + 1 ELSE None
           row == [trip |-> t, kind |-> kind, amount |-> amount, tx |-> tx]
<1>1. /\ IsTrip(t) /\ UNCHANGED <<trip, tripsMade>>
      /\ tripMoney' = IF source # "none" THEN Append(tripMoney, entry) ELSE tripMoney
      /\ driverPay' = Append(driverPay, row)
  BY DEF AddedPayment
<1>2. Seqs /\ Len(tripMoney) \in Nat /\ t \in Trips /\ tx \in Nat \cup {None}
  BY RowsSeqs DEF Seqs
<1>4. row \in PayRow
  BY <1>2 DEF PayRow
<1>5. source # "none" => entry \in TripEntry
  BY <1>2 DEF TripEntry, Sources
<1>6. /\ driverPay' \in Seq(PayRow \cup {None}) /\ Len(driverPay') = Len(driverPay) + 1
      /\ \A n \in 1 .. Len(driverPay) : driverPay'[n] = driverPay[n]
      /\ driverPay'[Len(driverPay) + 1] = row /\ Len(driverPay) \in Nat
  BY <1>1, <1>2, <1>4, SeqAppended DEF Seqs
<1>7. /\ tripMoney' \in Seq(TripEntry \cup {None})
      /\ \A e \in EntryNo : e \in EntryNo' /\ tripMoney'[e] = tripMoney[e]
      /\ \A e \in EntryNo' : e \in EntryNo \/ (source # "none" /\ tripMoney'[e] = entry)
      /\ source # "none" => tx \in EntryNo' /\ tripMoney'[tx] = entry
  <2>1. CASE source = "none"
    BY <2>1, <1>1, <1>2 DEF EntryNo, Seqs
  <2>2. CASE source # "none"
    <3>1. /\ tripMoney' \in Seq(TripEntry \cup {None}) /\ Len(tripMoney') = Len(tripMoney) + 1
          /\ \A n \in 1 .. Len(tripMoney) : tripMoney'[n] = tripMoney[n]
          /\ tripMoney'[Len(tripMoney) + 1] = entry
      BY <2>2, <1>1, <1>2, <1>5, SeqAppended DEF Seqs
    <3> QED BY <2>2, <3>1, <1>2 DEF EntryNo
  <2> QED BY <2>1, <2>2
<1>8. TripTypeOK'
  BY <1>1, <1>6, <1>7 DEF Rows, TripTypeOK
<1>9. EntriesKnown'
  <2>1. \A e \in EntryNo' : tripMoney'[e] # None => tripMoney'[e].trip \in tripsMade
    <3> SUFFICES ASSUME NEW e \in EntryNo', tripMoney'[e] # None
                 PROVE  tripMoney'[e].trip \in tripsMade
      OBVIOUS
    <3>1. CASE e \in EntryNo
      BY <3>1, <1>7 DEF Rows, EntriesKnown
    <3>2. CASE tripMoney'[e] = entry
      BY <3>2
    <3> QED BY <3>1, <3>2, <1>7
  <2> QED BY <2>1, <1>1 DEF Rows, EntriesKnown, IsTrip
<1>10. PaymentsBacked'
  <2> SUFFICES ASSUME NEW n \in 1 .. Len(driverPay'), driverPay'[n] # None, driverPay'[n].tx # None
               PROVE  /\ driverPay'[n].tx \in EntryNo' /\ tripMoney'[driverPay'[n].tx] # None
                      /\ tripMoney'[driverPay'[n].tx].kind \in {"cash", "supplier"}
    BY <1>6 DEF PaymentsBacked
  <2>1. CASE n \in 1 .. Len(driverPay)
    BY <2>1, <1>6, <1>7, RowsSeqs DEF Rows, PaymentsBacked
  <2>2. CASE n = Len(driverPay) + 1
    <3>1. source # "none" /\ driverPay'[n].tx = tx
      BY <2>2, <1>6
    <3>2. tripMoney'[tx] = entry /\ tx \in EntryNo' /\ entry # None
      BY <3>1, <1>7, <1>5, NotNone
    <3> QED BY <3>1, <3>2 DEF Sources
  <2> QED BY <2>1, <2>2, <1>6
<1> QED BY <1>1, <1>8, <1>9, <1>10 DEF Rows

\* A row of the log goes, and every payment that points at it.
LEMMA DeletedStep ==
  ASSUME Rows, NEW e, EntryDeleted(e), UNCHANGED tripSoiled
  PROVE  Rows' /\ UNCHANGED tripsMade
<1>1. CASE ~(e \in DOMAIN tripMoney /\ tripMoney[e] # None)
  <2>1. UNCHANGED tripRows
    BY <1>1 DEF EntryDeleted
  <2> QED BY <2>1, RowsSeqs, TripRowsStay DEF tripRows
<1>2. CASE e \in DOMAIN tripMoney /\ tripMoney[e] # None
  <2>1. /\ driverPay' = PaysWithout(e) /\ trip' = TripsWithout(e)
        /\ tripMoney' = [tripMoney EXCEPT ![e] = None] /\ UNCHANGED tripsMade
    BY <1>2 DEF EntryDeleted
  <2>2. /\ Seqs /\ DOMAIN driverPay = 1 .. Len(driverPay) /\ DOMAIN tripMoney = EntryNo
        /\ Len(tripMoney) \in Nat
    BY RowsSeqs DEF EntryNo
  <2>3. /\ driverPay' \in Seq(PayRow \cup {None}) /\ DOMAIN driverPay' = DOMAIN driverPay
        /\ \A n \in DOMAIN driverPay : driverPay'[n] # None =>
              driverPay'[n] = driverPay[n] /\ driverPay[n].tx # e
    <3>1. \A n \in DOMAIN driverPay : driverPay[n] \in PayRow \cup {None}
      BY <2>2 DEF Seqs
    <3>2. driverPay' \in [DOMAIN driverPay -> PayRow \cup {None}]
      BY <2>1, <3>1 DEF PaysWithout
    <3> QED BY <2>1, <2>2, <3>2, SeqReplaced DEF PaysWithout, Seqs
  <2>4. /\ tripMoney' \in Seq(TripEntry \cup {None}) /\ Len(tripMoney') = Len(tripMoney)
        /\ \A i \in EntryNo : i # e => tripMoney'[i] = tripMoney[i]
        /\ tripMoney'[e] = None
    <3>1. \A i \in DOMAIN tripMoney : tripMoney[i] \in TripEntry \cup {None}
      BY <2>2 DEF Seqs
    <3>2. tripMoney' \in [DOMAIN tripMoney -> TripEntry \cup {None}]
      BY <2>1, <3>1
    <3> QED BY <1>2, <2>1, <2>2, <3>2, SeqReplaced DEF Seqs
  <2>5. /\ trip' \in [Trips -> TripRow \cup {None}]
        /\ \A t \in Trips : trip'[t] # None => trip[t] # None
    <3>1. \A row \in TripRow :
            [row EXCEPT !.delayTx = IF @ = e THEN None ELSE @,
                        !.fee = IF row.delayTx = e THEN 0 ELSE @,
                        !.weightTx = IF @ = e THEN None ELSE @,
                        !.weight = IF row.weightTx = e THEN 0 ELSE @] \in TripRow
      BY DEF TripRow
    <3>2. \A t \in Trips : trip[t] \in TripRow \cup {None}
      BY <2>2 DEF Seqs
    <3> QED BY <2>1, <3>1, <3>2 DEF TripsWithout, IsTrip
  <2>6. EntryNo' = EntryNo
    BY <2>4 DEF EntryNo
  <2>7. TripTypeOK'
    BY <2>1, <2>3, <2>4, <2>5 DEF Rows, TripTypeOK
  <2>8. EntriesKnown'
    BY <2>1, <2>4, <2>5, <2>6 DEF Rows, EntriesKnown, IsTrip
  <2>9. PaymentsBacked'
    BY <2>3, <2>4, <2>6 DEF Rows, PaymentsBacked
  <2> QED BY <2>1, <2>7, <2>8, <2>9 DEF Rows
<1> QED BY <1>1, <1>2

\* Payments go, nothing else does.
LEMMA PaysGone ==
  ASSUME Rows, UNCHANGED <<tripsMade, tripMoney>>, tripSoiled' \subseteq tripsMade,
         driverPay' \in [DOMAIN driverPay -> PayRow \cup {None}],
         \A n \in DOMAIN driverPay : driverPay'[n] # None => driverPay'[n] = driverPay[n],
         trip' \in [Trips -> TripRow \cup {None}],
         \A t \in Trips : trip'[t] # None => trip[t] # None
  PROVE  Rows'
<1>1. driverPay' \in Seq(PayRow \cup {None}) /\ DOMAIN driverPay' = DOMAIN driverPay
  BY RowsSeqs, SeqReplaced DEF Seqs
<1>2. TripTypeOK'
  BY <1>1 DEF Rows, TripTypeOK
<1>3. EntriesKnown'
  BY DEF Rows, EntriesKnown, IsTrip, EntryNo
<1>4. PaymentsBacked'
  BY <1>1 DEF Rows, PaymentsBacked, EntryNo
<1> QED BY <1>2, <1>3, <1>4 DEF Rows

\* A trip goes with the payments that are left.
LEMMA GoneStep ==
  ASSUME Rows, NEW t \in Trips, TripGone(t), tripSoiled' \subseteq tripsMade
  PROVE  Rows' /\ UNCHANGED tripsMade
<1>1. /\ trip' = [trip EXCEPT ![t] = None] /\ UNCHANGED <<tripsMade, tripMoney>>
      /\ driverPay' = [n \in DOMAIN driverPay |-> IF n \in PaysOf(t) THEN None ELSE driverPay[n]]
  BY DEF TripGone
<1>2. Seqs
  BY RowsSeqs
<1>3. \A n \in DOMAIN driverPay : driverPay[n] \in PayRow \cup {None}
  BY <1>2 DEF Seqs
<1>4. /\ driverPay' \in [DOMAIN driverPay -> PayRow \cup {None}]
      /\ \A n \in DOMAIN driverPay : driverPay'[n] # None => driverPay'[n] = driverPay[n]
  BY <1>1, <1>3
<1>5. /\ trip' \in [Trips -> TripRow \cup {None}]
      /\ \A u \in Trips : trip'[u] # None => trip[u] # None
  BY <1>1, <1>2 DEF Seqs
<1> QED BY <1>1, <1>4, <1>5, PaysGone

-----------------------------------------------------------------------------
(* What a request knows.                                                   *)

LEMMA BlankIsLocal == TripBlank \in TripLocal
  BY DEF TripBlank, TripLocal, PayKinds, Sources

LEMMA Same ==
  ASSUME LocalsOK, NEW r \in Requests
  PROVE  /\ tripPc = [tripPc EXCEPT ![r] = tripPc[r]]
         /\ tripMem = [tripMem EXCEPT ![r] = tripMem[r]]
         /\ tripPc[r] \in Places /\ tripMem[r] \in TripLocal
<1>1. tripPc \in [Requests -> Places] /\ tripMem \in [Requests -> TripLocal]
  BY DEF LocalsOK
<1> QED BY <1>1

LEMMA LocalsMove ==
  ASSUME LocalsOK, NEW r \in Requests, NEW l \in Places, NEW m \in TripLocal,
         tripPc' = [tripPc EXCEPT ![r] = l], tripMem' = [tripMem EXCEPT ![r] = m],
         tripsMade \subseteq tripsMade',
         l \in WithTrip => m.trip \in tripsMade',
         l \in Charging => m.row \in TripRow
  PROVE  LocalsOK'
<1>1. /\ tripPc \in [Requests -> Places] /\ tripMem \in [Requests -> TripLocal]
      /\ \A q \in Requests : Local(q)
  BY DEF LocalsOK
<1>2. tripPc' \in [Requests -> Places] /\ tripMem' \in [Requests -> TripLocal]
  BY <1>1
<1>3. ASSUME NEW q \in Requests PROVE Local(q)'
  <2>1. CASE q = r
    <3>1. tripPc'[q] = l /\ tripMem'[q] = m
      BY <2>1, <1>1
    <3> QED BY <3>1 DEF Local
  <2>2. CASE q # r
    <3>1. tripPc'[q] = tripPc[q] /\ tripMem'[q] = tripMem[q]
      BY <2>2, <1>1
    <3> QED BY <3>1, <1>1 DEF Local
  <2> QED BY <2>1, <2>2
<1> QED BY <1>2, <1>3 DEF LocalsOK

LEMMA LocalsStay ==
  ASSUME LocalsOK, UNCHANGED <<tripPc, tripMem>>, tripsMade \subseteq tripsMade'
  PROVE  LocalsOK'
  BY DEF LocalsOK, Local

LEMMA Ended ==
  ASSUME LocalsOK, NEW r \in Requests, TripEnd(r), tripsMade \subseteq tripsMade'
  PROVE  LocalsOK'
<1>1. "idle" \in Places /\ "idle" \notin WithTrip /\ "idle" \notin Charging
  BY DEF Places, WithTrip, Charging
<1>2. tripPc' = [tripPc EXCEPT ![r] = "idle"] /\ tripMem' = [tripMem EXCEPT ![r] = TripBlank]
  BY DEF TripEnd, TripGoto, TripRemember
<1> QED BY <1>1, <1>2, BlankIsLocal, LocalsMove

\* A request goes on with what it has read.
LEMMA GoesOn ==
  ASSUME LocalsOK, NEW r \in Requests, NEW l \in Places, TripGoto(r, l), UNCHANGED tripMem,
         tripsMade \subseteq tripsMade',
         l \in WithTrip => tripMem[r].trip \in tripsMade,
         l \in Charging => tripMem[r].row \in TripRow
  PROVE  LocalsOK'
<1>1. tripPc' = [tripPc EXCEPT ![r] = l] /\ tripMem' = [tripMem EXCEPT ![r] = tripMem[r]]
  BY Same DEF TripGoto
<1>2. tripMem[r] \in TripLocal
  BY Same
<1> QED BY <1>1, <1>2, LocalsMove

\* A request begins that only reads.
LEMMA BegunStep ==
  ASSUME IInv, NEW r \in Requests, NEW l \in Places, NEW m \in TripLocal,
         TripGoto(r, l), TripRemember(r, m), UNCHANGED <<tripRows, tripSoiled>>,
         l \in WithTrip => m.trip \in tripsMade,
         l \in Charging => m.row \in TripRow
  PROVE  IInv'
<1>1. Rows'
  BY TripRowsStay, RowsSeqs DEF IInv
<1>2. tripsMade' = tripsMade
  BY DEF tripRows
<1>3. tripPc' = [tripPc EXCEPT ![r] = l] /\ tripMem' = [tripMem EXCEPT ![r] = m]
  BY DEF TripGoto, TripRemember
<1>4. LocalsOK'
  BY <1>2, <1>3, LocalsMove DEF IInv
<1> QED BY <1>1, <1>4 DEF IInv

LEMMA TripIsMade ==
  ASSUME IInv, NEW t \in Trips, IsTrip(t)
  PROVE  t \in tripsMade /\ trip[t] \in TripRow
  BY DEF IInv, Rows, EntriesKnown, IsTrip, TripTypeOK

LEMMA Numbers == TripAmounts \subseteq Nat /\ TripAmounts \cup {0} \subseteq Nat
                 /\ Freights \subseteq Nat /\ LateDays \subseteq Nat
  BY TripAssumption

-----------------------------------------------------------------------------
(* The actions.                                                            *)

LEMMA CreateTripInv ==
  ASSUME IInv, NEW r \in Requests, NEW t \in Trips, NEW agreed \in Freights,
         NEW client \in BOOLEAN, NEW first \in TripAmounts \cup {0},
         NEW tea \in TripAmounts \cup {0}, CreateTrip(r, t, agreed, client, first, tea, "cash")
  PROVE  IInv'
<1> DEFINE row == [client |-> client, agreed |-> agreed, arrived |-> FALSE,
                   delayTx |-> None, fee |-> 0, weightTx |-> None, weight |-> 0]
           l == IF first > 0 THEN "payFirst" ELSE IF tea > 0 THEN "payTea" ELSE "idle"
           m == IF first + tea = 0 THEN TripBlank
                ELSE [TripBlank EXCEPT !.trip = t, !.amount = first, !.fee = agreed,
                                       !.extra = tea, !.source = "cash"]
<1>1. /\ tripsMade' = tripsMade \cup {t} /\ trip' = [trip EXCEPT ![t] = row]
      /\ TripGoto(r, l) /\ TripRemember(r, m)
      /\ UNCHANGED <<driverPay, tripMoney, tripSoiled>>
  BY DEF CreateTrip
<1>2. agreed \in Nat /\ first \in Nat /\ tea \in Nat
  BY Numbers
<1>3. row \in TripRow
  BY <1>2 DEF TripRow
<1>4. Rows /\ Seqs /\ tripSoiled \subseteq tripsMade
  BY RowsSeqs DEF IInv
<1>5. Rows'
  <2>1. trip' \in [Trips -> TripRow \cup {None}]
    BY <1>1, <1>3, <1>4 DEF Seqs
  <2>2. \A u \in Trips : trip'[u] # None => u \in tripsMade'
    BY <1>1, <1>4 DEF Rows, EntriesKnown, IsTrip, Seqs
  <2>3. tripsMade' \subseteq Trips /\ tripsMade \subseteq tripsMade' /\ tripSoiled' \subseteq tripsMade'
    BY <1>1, <1>4 DEF Seqs
  <2> QED BY <1>1, <1>4, <2>1, <2>2, <2>3, TripStep
<1>6. LocalsOK'
  <2>1. m \in TripLocal
    BY <1>2, BlankIsLocal DEF TripBlank, TripLocal, Sources, PayKinds
  <2>2. l \in Places /\ l \notin Charging
    BY DEF Places, Charging
  <2>3. l \in WithTrip => m.trip \in tripsMade'
    <3>1. CASE l = "idle"
      BY <3>1 DEF WithTrip, Charging
    <3>2. CASE l # "idle"
      <4>1. first + tea # 0
        BY <3>2, <1>2
      <4> QED BY <4>1, <1>1 DEF TripBlank
    <3> QED BY <3>1, <3>2
  <2>4. tripPc' = [tripPc EXCEPT ![r] = l] /\ tripMem' = [tripMem EXCEPT ![r] = m]
    BY <1>1 DEF TripGoto, TripRemember
  <2>5. tripsMade \subseteq tripsMade' /\ LocalsOK
    BY <1>1 DEF IInv
  <2> HIDE DEF l, m
  <2> QED BY <2>1, <2>2, <2>3, <2>4, <2>5, LocalsMove
<1> QED BY <1>5, <1>6 DEF IInv

\* A payment is written, and another one may follow.
LEMMA PaidInv ==
  ASSUME IInv, NEW r \in Requests, tripPc[r] \in WithTrip, NEW kind \in PayKinds \cup {"tea"},
         NEW amount \in Nat, AddedPayment(tripMem[r].trip, kind, amount, tripMem[r].source),
         UNCHANGED tripSoiled, NEW l \in WithTrip \ Charging,
         \/ TripEnd(r)
         \/ TripGoto(r, l) /\ UNCHANGED tripMem
  PROVE  IInv'
<1>1. tripMem[r].trip \in tripsMade /\ tripMem[r].source \in Sources /\ l \in Places
  BY Same DEF IInv, LocalsOK, Local, TripLocal, WithTrip, Charging, Places
<1>2. Rows' /\ UNCHANGED tripsMade
  BY <1>1, AddedStep DEF IInv
<1>3. CASE TripEnd(r)
  BY <1>3, <1>2, Ended DEF IInv
<1>4. CASE TripGoto(r, l) /\ UNCHANGED tripMem
  BY <1>4, <1>1, <1>2, GoesOn DEF IInv
<1> QED BY <1>3, <1>4

LEMMA PayInv ==
  ASSUME IInv, NEW r \in Requests, PayFirst(r) \/ PayTea(r) \/ PayDriver(r) \/ PayBundled(r)
  PROVE  IInv'
<1>1. /\ tripMem[r].amount \in Nat /\ tripMem[r].extra \in Nat /\ tripMem[r].kind \in PayKinds
  BY Same DEF IInv, TripLocal
<1>2. /\ {"payFirst", "payTea", "pay", "payBundled"} \subseteq WithTrip
      /\ {"payTea", "payBundled"} \subseteq WithTrip \ Charging
  BY DEF WithTrip, Charging
<1>3. CASE PayFirst(r)
  <2>1. /\ tripPc[r] = "payFirst" /\ UNCHANGED tripSoiled
        /\ AddedPayment(tripMem[r].trip, "freight", tripMem[r].amount, tripMem[r].source)
        /\ TripEnd(r) \/ (TripGoto(r, "payTea") /\ UNCHANGED tripMem)
    BY <1>3 DEF PayFirst
  <2> QED BY <2>1, <1>1, <1>2, PaidInv DEF PayKinds
<1>4. CASE PayTea(r)
  <2>1. /\ tripPc[r] = "payTea" /\ UNCHANGED tripSoiled
        /\ AddedPayment(tripMem[r].trip, "tea", tripMem[r].extra, tripMem[r].source)
        /\ TripEnd(r)
    BY <1>4 DEF PayTea
  <2> QED BY <2>1, <1>1, <1>2, PaidInv
<1>5. CASE PayDriver(r)
  <2>1. /\ tripPc[r] = "pay" /\ UNCHANGED tripSoiled
        /\ AddedPayment(tripMem[r].trip, tripMem[r].kind, tripMem[r].amount, tripMem[r].source)
        /\ TripEnd(r) \/ (TripGoto(r, "payBundled") /\ UNCHANGED tripMem)
    BY <1>5 DEF PayDriver
  <2> QED BY <2>1, <1>1, <1>2, PaidInv
<1>6. CASE PayBundled(r)
  <2>1. /\ tripPc[r] = "payBundled" /\ UNCHANGED tripSoiled
        /\ AddedPayment(tripMem[r].trip, "weightDiff", tripMem[r].extra, tripMem[r].source)
        /\ TripEnd(r)
    BY <1>6 DEF PayBundled
  <2> QED BY <2>1, <1>1, <1>2, PaidInv DEF PayKinds
<1> QED BY <1>3, <1>4, <1>5, <1>6

LEMMA UpdateTripInv ==
  ASSUME IInv, NEW r \in Requests, NEW t \in Trips, NEW agreed \in Freights,
         NEW client \in BOOLEAN, UpdateTrip(r, t, agreed, client)
  PROVE  IInv'
<1>1. /\ IsTrip(t) /\ trip' = [trip EXCEPT ![t].agreed = agreed, ![t].client = client]
      /\ tripSoiled' \subseteq tripSoiled \cup {t}
      /\ UNCHANGED <<tripsMade, driverPay, tripMoney, tripPc, tripMem>>
  BY DEF UpdateTrip
<1>2. Rows /\ Seqs /\ tripSoiled \subseteq tripsMade /\ LocalsOK /\ agreed \in Nat
  BY RowsSeqs, Numbers DEF IInv
<1>3. t \in tripsMade /\ trip[t] \in TripRow
  BY <1>1, TripIsMade
<1>4. \A row \in TripRow : [row EXCEPT !.agreed = agreed, !.client = client] \in TripRow
  BY <1>2 DEF TripRow
<1>5. /\ trip' \in [Trips -> TripRow \cup {None}]
      /\ \A u \in Trips : trip'[u] # None => u = t \/ trip[u] # None
  BY <1>1, <1>2, <1>3, <1>4 DEF Seqs
<1>6. \A u \in Trips : trip'[u] # None => u \in tripsMade'
  BY <1>1, <1>2, <1>3, <1>5 DEF Rows, EntriesKnown, IsTrip
<1>7. Rows'
  BY <1>1, <1>2, <1>3, <1>5, <1>6, TripStep DEF Seqs
<1>8. LocalsOK'
  BY <1>1, <1>2, LocalsStay
<1> QED BY <1>7, <1>8 DEF IInv

LEMMA BeginPayDriverInv ==
  ASSUME IInv, NEW r \in Requests, NEW t \in Trips, NEW kind \in PayKinds,
         NEW amount \in TripAmounts, NEW source \in Sources, NEW bundled \in TripAmounts \cup {0},
         BeginPayDriver(r, t, kind, amount, source, bundled)
  PROVE  IInv'
<1> DEFINE m == [TripBlank EXCEPT !.trip = t, !.kind = kind, !.amount = amount,
                                  !.source = source, !.extra = bundled]
<1>1. /\ IsTrip(t) /\ TripGoto(r, "pay") /\ TripRemember(r, m)
      /\ UNCHANGED <<tripRows, tripSoiled>>
  BY DEF BeginPayDriver
<1>2. m \in TripLocal /\ m.trip = t
  BY Numbers, BlankIsLocal DEF TripBlank, TripLocal
<1>3. "pay" \in Places /\ "pay" \notin Charging /\ t \in tripsMade
  BY <1>1, TripIsMade DEF Places, Charging
<1> HIDE DEF m
<1> QED BY <1>1, <1>2, <1>3, BegunStep

LEMMA UnpayInv ==
  ASSUME IInv, NEW r \in Requests, Unpay(r) \/ \E n \in DOMAIN driverPay : BeginUnpay(r, n)
  PROVE  IInv'
<1>1. CASE \E n \in DOMAIN driverPay : BeginUnpay(r, n)
  <2>1. PICK n \in DOMAIN driverPay : BeginUnpay(r, n)
    BY <1>1
  <2> DEFINE m == [TripBlank EXCEPT !.pay = n]
  <2>2. TripGoto(r, "unpay") /\ TripRemember(r, m) /\ UNCHANGED <<tripRows, tripSoiled>>
    BY <2>1 DEF BeginUnpay
  <2>3. n \in Nat
    BY RowsSeqs DEF IInv
  <2>4. m \in TripLocal
    BY <2>3, BlankIsLocal DEF TripBlank, TripLocal
  <2>5. "unpay" \in Places /\ "unpay" \notin WithTrip /\ "unpay" \notin Charging
    BY DEF Places, Charging, WithTrip
  <2> HIDE DEF m
  <2> QED BY <2>2, <2>4, <2>5, BegunStep
<1>2. CASE Unpay(r)
  <2> DEFINE n == tripMem[r].pay
  <2>1. TripEnd(r) /\ UNCHANGED tripSoiled
    BY <1>2 DEF Unpay
  <2>2. CASE driverPay[n].tx # None
    <3>1. EntryDeleted(driverPay[n].tx)
      BY <1>2, <2>2 DEF Unpay
    <3>2. Rows' /\ UNCHANGED tripsMade
      BY <3>1, <2>1, DeletedStep DEF IInv
    <3> QED BY <3>2, <2>1, Ended DEF IInv
  <2>3. CASE driverPay[n].tx = None
    <3>1. driverPay' = [driverPay EXCEPT ![n] = None] /\ UNCHANGED <<trip, tripsMade, tripMoney>>
      BY <1>2, <2>3 DEF Unpay
    <3>2. Seqs /\ Rows /\ tripSoiled \subseteq tripsMade
      BY RowsSeqs DEF IInv
    <3>3. /\ driverPay' \in [DOMAIN driverPay -> PayRow \cup {None}]
          /\ \A i \in DOMAIN driverPay : driverPay'[i] # None => driverPay'[i] = driverPay[i]
      <4>1. \A i \in DOMAIN driverPay : driverPay[i] \in PayRow \cup {None}
        BY <3>2 DEF Seqs
      <4> QED BY <3>1, <4>1
    <3>4. Rows'
      BY <2>1, <3>1, <3>2, <3>3, PaysGone DEF Seqs
    <3> QED BY <2>1, <3>1, <3>4, Ended DEF IInv
  <2> QED BY <2>2, <2>3
<1> QED BY <1>1, <1>2

LEMMA BeginArrivalInv ==
  ASSUME IInv, NEW r \in Requests, NEW t \in Trips, NEW late \in LateDays,
         NEW weight \in TripAmounts \cup {0, None}, BeginArrival(r, t, late, weight)
  PROVE  IInv'
<1> DEFINE m == [TripBlank EXCEPT !.trip = t, !.row = trip[t], !.fee = DelayFee(late),
                    !.amount = IF weight = None THEN trip[t].weight ELSE weight]
<1>1. /\ IsTrip(t) /\ TripGoto(r, "delay") /\ TripRemember(r, m)
      /\ UNCHANGED <<tripRows, tripSoiled>>
  BY DEF BeginArrival
<1>2. t \in tripsMade /\ trip[t] \in TripRow
  BY <1>1, TripIsMade
<1>3. DelayFee(late) \in Nat
  <2>1. late \in Nat /\ GraceDays \in Nat /\ FeePerDay \in Nat
    BY TripAssumption
  <2>2. CASE late > GraceDays
    <3>1. late - GraceDays \in Nat
      BY <2>1, <2>2
    <3>2. \A a, b \in Nat : a * b \in Nat
      OBVIOUS
    <3> QED BY <3>1, <3>2, <2>1, <2>2 DEF DelayFee
  <2>3. CASE ~(late > GraceDays)
    BY <2>3 DEF DelayFee
  <2> QED BY <2>2, <2>3
<1>4. (IF weight = None THEN trip[t].weight ELSE weight) \in Nat
  BY <1>2, Numbers DEF TripRow
<1>5. m \in TripLocal /\ m.trip = t /\ m.row = trip[t]
  BY <1>2, <1>3, <1>4, BlankIsLocal DEF TripBlank, TripLocal
<1>6. "delay" \in Places
  BY DEF Places
<1> HIDE DEF m
<1> QED BY <1>1, <1>2, <1>5, <1>6, BegunStep

\* A charge is deleted, changed or made; the request remembers the pointer.
LEMMA ChargedInv ==
  ASSUME IInv, NEW r \in Requests, tripPc[r] \in Charging, NEW kind \in {"delay", "weight"},
         NEW tx \in Nat \cup {None}, NEW amount \in Nat, NEW next \in Charging,
         Charged(r, kind, tx, amount, next), UNCHANGED tripSoiled
  PROVE  IInv'
<1> DEFINE m == tripMem[r]
           Row(e) == IF kind = "delay" THEN [m.row EXCEPT !.delayTx = e]
                     ELSE [m.row EXCEPT !.weightTx = e]
           Pointed(e) == [m EXCEPT !.row = Row(e)]
<1>1. /\ m \in TripLocal /\ m.trip \in tripsMade /\ m.row \in TripRow /\ next \in Places
      /\ tripPc' = [tripPc EXCEPT ![r] = next] /\ LocalsOK /\ Rows
  BY Same DEF IInv, LocalsOK, Local, WithTrip, Charging, Places, Charged, TripGoto
<1>2. ASSUME NEW e \in Nat \cup {None}
      PROVE  Pointed(e) \in TripLocal /\ Pointed(e).trip = m.trip /\ Pointed(e).row \in TripRow
  <2>1. Row(e) \in TripRow
    BY <1>1 DEF TripRow
  <2> HIDE DEF Row
  <2> QED BY <1>1, <2>1 DEF TripLocal
<1>3. ASSUME NEW e \in Nat \cup {None}, tripMem' = [tripMem EXCEPT ![r] = Pointed(e)],
             UNCHANGED tripsMade
      PROVE  LocalsOK'
  <2>1. Pointed(e) \in TripLocal /\ Pointed(e).trip \in tripsMade /\ Pointed(e).row \in TripRow
    BY <1>1, <1>2
  <2> HIDE DEF Pointed
  <2> QED BY <1>1, <1>3, <2>1, LocalsMove
<1>4. ASSUME UNCHANGED <<tripMem, tripsMade>> PROVE LocalsOK'
  BY <1>1, <1>4, GoesOn DEF TripGoto
<1>5. CASE tx # None /\ amount = 0
  <2>1. EntryDeleted(tx) /\ tripMem' = [tripMem EXCEPT ![r] = Pointed(None)]
    BY <1>5, NotNone DEF Charged, TripRemember
  <2>2. Rows' /\ UNCHANGED tripsMade
    BY <2>1, <1>1, DeletedStep
  <2> HIDE DEF Pointed
  <2> QED BY <2>1, <2>2, <1>3 DEF IInv
<1>6. CASE tx # None /\ amount > 0
  <2>1. /\ tripMoney[tx] # None /\ tripMoney' = [tripMoney EXCEPT ![tx].amount = amount]
        /\ UNCHANGED <<trip, tripsMade, driverPay, tripMem>>
    BY <1>6 DEF Charged
  <2>2. Rows'
    BY <2>1, <1>1, EditedStep, RowsSeqs
  <2> QED BY <2>1, <2>2, <1>4 DEF IInv
<1>7. CASE tx = None /\ amount > 0 /\ m.row.client
  <2>1. /\ tripMoney' = Append(tripMoney, [trip |-> m.trip, kind |-> kind, amount |-> amount])
        /\ tripMem' = [tripMem EXCEPT ![r] = Pointed(Len(tripMoney) + 1)]
        /\ UNCHANGED <<trip, tripsMade, driverPay>>
    BY <1>7 DEF Charged, TripRemember
  <2>2. Rows'
    BY <2>1, <1>1, ChargeMade, RowsSeqs
  <2>3. Len(tripMoney) + 1 \in Nat
    BY <1>1, RowsSeqs
  <2> HIDE DEF Pointed
  <2> QED BY <2>1, <2>2, <2>3, <1>3 DEF IInv
<1>8. CASE tx = None /\ (amount = 0 \/ ~m.row.client)
  <2>1. UNCHANGED <<tripRows, tripMem>>
    BY <1>8 DEF Charged
  <2>2. Rows' /\ UNCHANGED tripsMade
    BY <2>1, <1>1, TripRowsStay, RowsSeqs DEF tripRows
  <2> QED BY <2>1, <2>2, <1>4 DEF IInv
<1> QED BY <1>5, <1>6, <1>7, <1>8

LEMMA ChargeInv ==
  ASSUME IInv, NEW r \in Requests, ChargeDelay(r) \/ ChargeWeight(r)
  PROVE  IInv'
<1>1. tripPc[r] \in Charging /\ UNCHANGED tripSoiled
  BY DEF ChargeDelay, ChargeWeight, Charging
<1>2. /\ tripMem[r].fee \in Nat /\ tripMem[r].amount \in Nat
      /\ tripMem[r].row.delayTx \in Nat \cup {None} /\ tripMem[r].row.weightTx \in Nat \cup {None}
  <2>1. tripMem[r] \in TripLocal /\ tripMem[r].row \in TripRow
    BY <1>1, Same DEF IInv, LocalsOK, Local
  <2> QED BY <2>1 DEF TripLocal, TripRow
<1>3. "weight" \in Charging /\ "arrive" \in Charging
  BY DEF Charging
<1>4. CASE ChargeDelay(r)
  <2>1. Charged(r, "delay", tripMem[r].row.delayTx, tripMem[r].fee, "weight")
    BY <1>4 DEF ChargeDelay
  <2> QED BY <2>1, <1>1, <1>2, <1>3, ChargedInv
<1>5. CASE ChargeWeight(r)
  <2>1. Charged(r, "weight", tripMem[r].row.weightTx, tripMem[r].amount, "arrive")
    BY <1>5 DEF ChargeWeight
  <2> QED BY <2>1, <1>1, <1>2, <1>3, ChargedInv
<1> QED BY <1>4, <1>5

\* The row of a trip is written, and the request ends.
LEMMA TripWritten ==
  ASSUME IInv, NEW r \in Requests, NEW t \in Trips, IsTrip(t), NEW row \in TripRow,
         trip' = [trip EXCEPT ![t] = row], TripEnd(r),
         UNCHANGED <<tripsMade, driverPay, tripMoney, tripSoiled>>
  PROVE  IInv'
<1>1. Rows /\ Seqs /\ tripSoiled \subseteq tripsMade /\ LocalsOK /\ t \in tripsMade
  BY RowsSeqs, TripIsMade DEF IInv
<1>2. trip' \in [Trips -> TripRow \cup {None}]
  BY <1>1 DEF Seqs
<1>3. \A u \in Trips : trip'[u] # None => u \in tripsMade'
  BY <1>1 DEF Rows, EntriesKnown, IsTrip, Seqs
<1>4. Rows'
  BY <1>1, <1>2, <1>3, TripStep DEF Seqs
<1> QED BY <1>1, <1>4, Ended DEF IInv

LEMMA WriteArrivalInv ==
  ASSUME IInv, NEW r \in Requests, WriteArrival(r)
  PROVE  IInv'
<1> DEFINE m == tripMem[r]
<1>1. /\ IsTrip(m.trip) /\ trip' = [trip EXCEPT ![m.trip] = Arrived(@, m)] /\ TripEnd(r)
      /\ UNCHANGED <<tripsMade, driverPay, tripMoney, tripSoiled>> /\ tripPc[r] = "arrive"
  BY DEF WriteArrival
<1>2. m \in TripLocal /\ m.trip \in Trips /\ m.row \in TripRow
  BY <1>1, Same, RowsSeqs DEF IInv, LocalsOK, Local, WithTrip, Charging, Seqs
<1>3. trip[m.trip] \in TripRow
  BY <1>1, <1>2, TripIsMade
<1>4. Arrived(trip[m.trip], m) \in TripRow
  <2>1. m.fee \in Nat /\ m.amount \in Nat
    BY <1>2 DEF TripLocal
  <2> QED BY <1>2, <1>3, <2>1 DEF Arrived, TripRow
<1>5. trip' = [trip EXCEPT ![m.trip] = Arrived(trip[m.trip], m)]
  BY <1>1
<1> HIDE DEF m
<1> QED BY <1>1, <1>2, <1>4, <1>5, TripWritten

LEMMA BeginWeightInv ==
  ASSUME IInv, NEW r \in Requests, NEW t \in Trips, NEW amount \in TripAmounts \cup {0},
         BeginWeight(r, t, amount)
  PROVE  IInv'
<1> DEFINE m == [TripBlank EXCEPT !.trip = t, !.row = trip[t], !.amount = amount]
<1>1. /\ IsTrip(t) /\ TripGoto(r, "reweigh") /\ TripRemember(r, m)
      /\ UNCHANGED <<tripRows, tripSoiled>>
  BY DEF BeginWeight
<1>2. t \in tripsMade /\ trip[t] \in TripRow /\ amount \in Nat
  BY <1>1, TripIsMade, Numbers
<1>3. m \in TripLocal /\ m.trip = t /\ m.row = trip[t]
  BY <1>2, BlankIsLocal DEF TripBlank, TripLocal
<1>4. "reweigh" \in Places
  BY DEF Places
<1> HIDE DEF m
<1> QED BY <1>1, <1>2, <1>3, <1>4, BegunStep

LEMMA ReweighInv ==
  ASSUME IInv, NEW r \in Requests, Reweigh(r)
  PROVE  IInv'
<1> DEFINE m == tripMem[r]
           tx == m.row.weightTx
<1>1. tripPc[r] = "reweigh" /\ UNCHANGED tripSoiled
  BY DEF Reweigh
<1>2. /\ "reweigh" \in Charging /\ "writeWeight" \in Charging /\ "writeWeight" \in Places
  BY DEF Charging, Places
<1>3. m \in TripLocal /\ m.row \in TripRow /\ m.trip \in tripsMade
  BY <1>1, <1>2, Same DEF IInv, LocalsOK, Local, WithTrip
<1>4. m.amount \in Nat /\ tx \in Nat \cup {None}
  BY <1>3 DEF TripLocal, TripRow
<1>5. CASE tx # None
  <2>1. /\ tripMoney[tx] # None /\ tripMoney' = [tripMoney EXCEPT ![tx].amount = m.amount]
        /\ UNCHANGED <<trip, tripsMade, driverPay, tripMem>> /\ TripGoto(r, "writeWeight")
    BY <1>5 DEF Reweigh
  <2>2. Rows'
    BY <2>1, <1>1, <1>4, EditedStep, RowsSeqs DEF IInv
  <2>3. LocalsOK'
    BY <2>1, <1>2, <1>3, GoesOn DEF IInv
  <2> QED BY <2>2, <2>3 DEF IInv
<1>6. CASE tx = None
  <2>1. Charged(r, "weight", tx, m.amount, "writeWeight")
    BY <1>6 DEF Reweigh
  <2> HIDE DEF m, tx
  <2> QED BY <2>1, <1>1, <1>2, <1>4, ChargedInv
<1> QED BY <1>5, <1>6

LEMMA WriteWeightInv ==
  ASSUME IInv, NEW r \in Requests, WriteWeight(r)
  PROVE  IInv'
<1> DEFINE m == tripMem[r]
           old == trip[m.trip]
           row == [old EXCEPT !.weight = m.amount,
                              !.weightTx = IF m.row.weightTx = None THEN @ ELSE m.row.weightTx]
<1>1. /\ IsTrip(m.trip) /\ TripEnd(r) /\ tripPc[r] = "writeWeight"
      /\ trip' = [trip EXCEPT ![m.trip].weight = m.amount,
                   ![m.trip].weightTx = IF m.row.weightTx = None THEN @ ELSE m.row.weightTx]
      /\ UNCHANGED <<tripsMade, driverPay, tripMoney, tripSoiled>>
  BY DEF WriteWeight
<1>2. m \in TripLocal /\ m.trip \in Trips /\ m.row \in TripRow
  BY <1>1, Same, RowsSeqs DEF IInv, LocalsOK, Local, WithTrip, Charging, Seqs
<1>3. old \in TripRow
  BY <1>1, <1>2, TripIsMade
<1>4. row \in TripRow
  <2>1. m.amount \in Nat /\ m.row.weightTx \in Nat \cup {None}
    BY <1>2 DEF TripLocal, TripRow
  <2> QED BY <1>3, <2>1 DEF TripRow
<1>5. trip' = [trip EXCEPT ![m.trip] = row]
  <2>1. trip \in [Trips -> TripRow \cup {None}]
    BY RowsSeqs DEF IInv, Seqs
  <2> QED BY <1>1, <1>2, <2>1
<1> HIDE DEF m, row
<1> QED BY <1>1, <1>2, <1>4, <1>5, TripWritten

LEMMA BeginRemoveTripInv ==
  ASSUME IInv, NEW r \in Requests, NEW t \in Trips, BeginRemoveTrip(r, t)
  PROVE  IInv'
<1> DEFINE m == [TripBlank EXCEPT !.trip = t, !.todo = EntriesOf(t)]
<1>1. /\ IsTrip(t) /\ TripGoto(r, "removeEntries") /\ TripRemember(r, m)
      /\ UNCHANGED <<tripRows, tripSoiled>>
  BY DEF BeginRemoveTrip
<1>2. t \in tripsMade /\ trip[t] \in TripRow
  BY <1>1, TripIsMade
<1>3. EntriesOf(t) \subseteq Nat
  <2>1. \A n \in PaysOf(t) : driverPay[n].tx \in Nat \cup {None}
    <3>1. \A n \in DOMAIN driverPay : driverPay[n] \in PayRow \cup {None}
      BY RowsSeqs DEF IInv, Seqs
    <3> QED BY <3>1 DEF PaysOf, PayRow
  <2>2. trip[t].delayTx \in Nat \cup {None} /\ trip[t].weightTx \in Nat \cup {None}
    BY <1>2 DEF TripRow
  <2> QED BY <2>1, <2>2 DEF EntriesOf
<1>4. m \in TripLocal /\ m.trip = t
  BY <1>3, BlankIsLocal DEF TripBlank, TripLocal
<1>5. "removeEntries" \in Places /\ "removeEntries" \notin Charging
  BY DEF Places, Charging
<1> HIDE DEF m
<1> QED BY <1>1, <1>2, <1>4, <1>5, BegunStep

LEMMA RemoveEntryOfInv ==
  ASSUME IInv, NEW r \in Requests, NEW e \in tripMem[r].todo, RemoveEntryOf(r, e)
  PROVE  IInv'
<1> DEFINE m == [tripMem[r] EXCEPT !.todo = tripMem[r].todo \ {e}]
<1>1. /\ tripPc[r] = "removeEntries" /\ EntryDeleted(e) /\ UNCHANGED <<tripPc, tripSoiled>>
      /\ tripMem' = [tripMem EXCEPT ![r] = m]
  BY DEF RemoveEntryOf, TripRemember
<1>2. Rows' /\ UNCHANGED tripsMade
  BY <1>1, DeletedStep DEF IInv
<1>3. /\ tripMem[r] \in TripLocal /\ tripMem[r].trip \in tripsMade /\ LocalsOK
      /\ tripPc' = [tripPc EXCEPT ![r] = tripPc[r]]
      /\ tripPc[r] \in Places /\ tripPc[r] \notin Charging
  BY <1>1, Same DEF IInv, LocalsOK, Local, WithTrip, Charging, Places
<1>4. m \in TripLocal /\ m.trip = tripMem[r].trip
  BY <1>3 DEF TripLocal
<1>5. LocalsOK'
  <2> HIDE DEF m
  <2> QED BY <1>1, <1>2, <1>3, <1>4, LocalsMove
<1> QED BY <1>2, <1>5 DEF IInv

LEMMA RemoveTripInv ==
  ASSUME IInv, NEW r \in Requests, RemoveTrip(r)
  PROVE  IInv'
<1>1. /\ TripGone(tripMem[r].trip) /\ TripEnd(r) /\ UNCHANGED tripSoiled
      /\ tripPc[r] = "removeEntries"
  BY DEF RemoveTrip
<1>2. tripMem[r].trip \in Trips /\ tripSoiled \subseteq tripsMade
  BY <1>1, RowsSeqs DEF IInv, LocalsOK, Local, WithTrip, Seqs
<1>3. Rows' /\ UNCHANGED tripsMade
  BY <1>1, <1>2, GoneStep DEF IInv
<1> QED BY <1>1, <1>3, Ended DEF IInv

LEMMA LogInv ==
  ASSUME IInv, NEW r \in Requests, NEW e \in DOMAIN tripMoney,
         DropEntry(r, e) \/ \E amount \in TripAmounts : EditTripEntry(r, e, amount)
  PROVE  IInv'
<1>1. CASE DropEntry(r, e)
  <2>1. EntryDeleted(e) /\ UNCHANGED <<tripPc, tripMem, tripSoiled>>
    BY <1>1 DEF DropEntry
  <2>2. Rows' /\ UNCHANGED tripsMade
    BY <2>1, DeletedStep DEF IInv
  <2> QED BY <2>1, <2>2, LocalsStay DEF IInv
<1>2. CASE \E amount \in TripAmounts : EditTripEntry(r, e, amount)
  <2>1. PICK amount \in TripAmounts : EditTripEntry(r, e, amount)
    BY <1>2
  <2> DEFINE m == [TripBlank EXCEPT !.entry = e, !.amount = amount]
  <2>2. /\ tripMoney[e] # None /\ tripMoney' = [tripMoney EXCEPT ![e].amount = amount]
        /\ tripSoiled' \subseteq tripSoiled \cup {tripMoney[e].trip}
        /\ UNCHANGED <<trip, tripsMade, driverPay>>
        /\ (TripGoto(r, "mirrorWeight") /\ TripRemember(r, m)) \/ UNCHANGED <<tripPc, tripMem>>
    BY <2>1 DEF EditTripEntry
  <2>3. amount \in Nat /\ e \in EntryNo /\ e \in Nat /\ tripSoiled \subseteq tripsMade
    BY Numbers, RowsSeqs DEF IInv, EntryNo
  <2>4. tripMoney[e].trip \in tripsMade
    BY <2>2, <2>3 DEF IInv, Rows, EntriesKnown
  <2>5. Rows'
    BY <2>2, <2>3, <2>4, EditedStep DEF IInv
  <2>6. CASE TripGoto(r, "mirrorWeight") /\ TripRemember(r, m)
    <3>1. m \in TripLocal
      BY <2>3, BlankIsLocal DEF TripBlank, TripLocal
    <3>2. "mirrorWeight" \in Places /\ "mirrorWeight" \notin WithTrip /\ "mirrorWeight" \notin Charging
      BY DEF Places, Charging, WithTrip
    <3>3. LocalsOK'
      <4> HIDE DEF m
      <4> QED BY <2>2, <2>6, <3>1, <3>2, LocalsMove DEF TripGoto, TripRemember, IInv
    <3> QED BY <2>5, <3>3 DEF IInv
  <2>7. CASE UNCHANGED <<tripPc, tripMem>>
    BY <2>2, <2>5, <2>7, LocalsStay DEF IInv
  <2> QED BY <2>2, <2>6, <2>7
<1> QED BY <1>1, <1>2

LEMMA MirrorWeightInv ==
  ASSUME IInv, NEW r \in Requests, MirrorWeight(r)
  PROVE  IInv'
<1> DEFINE m == tripMem[r]
<1>1. /\ trip' = [t \in Trips |-> IF IsTrip(t) /\ trip[t].weightTx = m.entry
                                  THEN [trip[t] EXCEPT !.weight = m.amount] ELSE trip[t]]
      /\ TripEnd(r) /\ UNCHANGED <<tripsMade, driverPay, tripMoney, tripSoiled>>
  BY DEF MirrorWeight
<1>2. Rows /\ Seqs /\ tripSoiled \subseteq tripsMade /\ LocalsOK /\ m.amount \in Nat
  BY RowsSeqs, Same DEF IInv, TripLocal
<1>3. \A t \in Trips : trip[t] \in TripRow \cup {None}
  BY <1>2 DEF Seqs
<1>4. \A row \in TripRow : [row EXCEPT !.weight = m.amount] \in TripRow
  BY <1>2 DEF TripRow
<1>5. /\ trip' \in [Trips -> TripRow \cup {None}]
      /\ \A t \in Trips : trip'[t] # None => trip[t] # None
  BY <1>1, <1>3, <1>4 DEF IsTrip
<1>6. \A t \in Trips : trip'[t] # None => t \in tripsMade'
  BY <1>1, <1>2, <1>5 DEF Rows, EntriesKnown, IsTrip
<1>7. Rows'
  BY <1>1, <1>2, <1>5, <1>6, TripStep DEF Seqs
<1> QED BY <1>1, <1>2, <1>7, Ended DEF IInv

LEMMA UndoTripInv ==
  ASSUME IInv, NEW r \in Requests, NEW t \in Trips, UndoTrip(r, t)
  PROVE  IInv'
<1>1. /\ IsTrip(t) /\ TripGone(t) /\ tripSoiled' = tripSoiled \cup {t}
      /\ UNCHANGED <<tripPc, tripMem>>
  BY DEF UndoTrip
<1>2. t \in tripsMade /\ tripSoiled \subseteq tripsMade
  BY <1>1, TripIsMade, RowsSeqs DEF IInv
<1>3. Rows' /\ UNCHANGED tripsMade
  BY <1>1, <1>2, GoneStep DEF IInv
<1> QED BY <1>1, <1>3, LocalsStay DEF IInv

LEMMA StoppedInv ==
  ASSUME IInv, NEW r \in Requests, TripRefuse(r) \/ TripCutOff(r)
  PROVE  IInv'
<1>1. /\ TripEnd(r) /\ UNCHANGED tripRows
      /\ tripSoiled' \subseteq tripSoiled \cup {t \in Trips : IsTrip(t)}
  BY DEF TripRefuse, TripCutOff
<1>2. tripSoiled' \subseteq tripsMade
  BY <1>1, TripIsMade, RowsSeqs DEF IInv
<1>3. Rows' /\ UNCHANGED tripsMade
  BY <1>1, <1>2, TripRowsStay DEF IInv, tripRows
<1> QED BY <1>1, <1>3, Ended DEF IInv

-----------------------------------------------------------------------------
LEMMA InitInv == TripInit => IInv
<1> SUFFICES ASSUME TripInit PROVE IInv
  OBVIOUS
<1>1. /\ trip = [t \in Trips |-> None] /\ tripsMade = {} /\ driverPay = << >> /\ tripMoney = << >>
      /\ tripPc = [r \in Requests |-> "idle"] /\ tripMem = [r \in Requests |-> TripBlank]
      /\ tripSoiled = {}
  BY DEF TripInit
<1>2. Len(tripMoney) = 0 /\ DOMAIN driverPay = {} /\ EntryNo = {}
  BY <1>1 DEF EntryNo
<1>3. Rows
  <2>1. TripTypeOK
    BY <1>1 DEF TripTypeOK
  <2>2. EntriesKnown
    BY <1>1, <1>2 DEF EntriesKnown, IsTrip
  <2>3. PaymentsBacked
    BY <1>2 DEF PaymentsBacked
  <2> QED BY <2>1, <2>2, <2>3 DEF Rows
<1>4. LocalsOK
  <2>1. "idle" \in Places /\ "idle" \notin WithTrip /\ "idle" \notin Charging
    BY DEF Places, WithTrip, Charging
  <2> QED BY <1>1, <2>1, BlankIsLocal DEF LocalsOK, Local
<1> QED BY <1>3, <1>4 DEF IInv

LEMMA NextInv == IInv /\ [TripNext]_tripVars => IInv'
<1> SUFFICES ASSUME IInv, [TripNext]_tripVars PROVE IInv'
  OBVIOUS
<1>1. CASE UNCHANGED tripVars
  <2>1. UNCHANGED <<tripRows, tripSoiled, tripPc, tripMem, tripsMade>>
    BY <1>1 DEF tripVars, tripRows
  <2> QED BY <2>1, TripRowsStay, RowsSeqs, LocalsStay DEF IInv
<1>2. ASSUME NEW r \in Requests, BeginTrip(r) PROVE IInv'
  BY <1>2, CreateTripInv, UpdateTripInv, BeginPayDriverInv, BeginArrivalInv, BeginWeightInv,
     BeginRemoveTripInv, UndoTripInv, UnpayInv, LogInv DEF BeginTrip
<1>3. ASSUME NEW r \in Requests, StepTrip(r) PROVE IInv'
  BY <1>3, PayInv, UnpayInv, ChargeInv, WriteArrivalInv, ReweighInv, WriteWeightInv,
     RemoveEntryOfInv, RemoveTripInv, MirrorWeightInv, StoppedInv DEF StepTrip
<1>4. ASSUME NEW r \in Requests, TripCutOff(r) PROVE IInv'
  BY <1>4, StoppedInv
<1> QED BY <1>1, <1>2, <1>3, <1>4 DEF TripNext

\* However requests on trips overlap and wherever they stop, every column has its type
\* (driver-trips.service.ts): of TripTypeOK, for any number of trips, requests and rows.
THEOREM TripTypeCorrect == TripSpec => []TripTypeOK
<1>1. IInv => TripTypeOK
  BY DEF IInv, Rows
<1> QED BY <1>1, InitInv, NextInv, PTL DEF TripSpec

\* However requests on trips overlap and wherever they stop, a payment that names an entry
\* of the money log has it (transaction-cascade.ts:13, driver-trips.service.ts).
THEOREM PaymentsAlwaysBacked == TripSpec => []PaymentsBacked
<1>1. IInv => PaymentsBacked
  BY DEF IInv, Rows
<1> QED BY <1>1, InitInv, NextInv, PTL DEF TripSpec

-----------------------------------------------------------------------------
(* The books, of any payments P and any log M.  A charge of a trip has a   *)
(* pointer in its row and an amount that is due.                           *)

ChargeKinds == {"delay", "weight"}
Ptr(x, k) == IF k = "delay" THEN x.delayTx ELSE x.weightTx
Due(x, k) == IF k = "delay" THEN x.fee ELSE x.weight

\* The freight paid for a trip, of any payments P.
FreightIn(P, t) == {n \in DOMAIN P : P[n] # None /\ P[n].trip = t /\ P[n].kind = "freight"}
AmountsOf(P, N) == MapThenSumSet(LAMBDA n : P[n].amount, N)
PaidIn(P, t) == AmountsOf(P, FreightIn(P, t))

\* What the row x of trip t, and the payments P for it, point to in the log M is their own.
Own(P, M, t, x) ==
    /\ x # None => \A k \in ChargeKinds : Ptr(x, k) # None =>
            /\ Ptr(x, k) \in DOMAIN M
            /\ M[Ptr(x, k)] # None => M[Ptr(x, k)].trip = t /\ M[Ptr(x, k)].kind = k
    /\ \A n \in DOMAIN P : P[n] # None /\ P[n].trip = t =>
            /\ x # None
            /\ P[n].tx # None => /\ P[n].tx \in DOMAIN M /\ M[P[n].tx] # None
                                 /\ M[P[n].tx].trip = t /\ M[P[n].tx].kind \notin ChargeKinds

\* The books of a trip whose row is x, or is to become x.
Right(P, M, t, x) ==
    /\ x # None => /\ \A k \in ChargeKinds : Ptr(x, k) # None =>
                          M[Ptr(x, k)] # None /\ M[Ptr(x, k)].amount = Due(x, k)
                   /\ PaidIn(P, t) <= x.agreed
    /\ \A e \in DOMAIN M : M[e] # None /\ M[e].trip = t =>
            /\ x # None
            /\ M[e].kind \in ChargeKinds => Ptr(x, M[e].kind) = e
            /\ M[e].kind \notin ChargeKinds =>
                  \E n \in DOMAIN P : /\ P[n] # None /\ P[n].trip = t
                                      /\ P[n].tx = e /\ P[n].amount = M[e].amount

Books(P, M, S, t, x) == Own(P, M, t, x) /\ (t \notin S => Right(P, M, t, x))

\* What the row x of t is once a request at l that remembers m has written it.
Want(x, t, l, m) ==
    CASE x = None -> None
      [] x # None /\ l = "mirrorWeight" -> IF x.weightTx = m.entry THEN [x EXCEPT !.weight = m.amount] ELSE x
      [] x # None /\ l = "weight" /\ t = m.trip -> [x EXCEPT !.fee = m.fee, !.delayTx = m.row.delayTx]
      [] x # None /\ l = "arrive" /\ t = m.trip -> Arrived(x, m)
      [] x # None /\ l = "writeWeight" /\ t = m.trip ->
            [x EXCEPT !.weight = m.amount, !.weightTx = IF m.row.weightTx = None THEN @ ELSE m.row.weightTx]
      [] OTHER -> x

\* What a request relies on: that what it read and was asked still fits its trip.
Knows(T, P, M, S, l, m) ==
    LET c == m.trip IN
    /\ l \in WithTrip => T[c] # None
    /\ l \in {"delay", "reweigh"} => \A k \in ChargeKinds : Ptr(m.row, k) = Ptr(T[c], k)
    /\ l = "weight" => m.row.weightTx = T[c].weightTx
    /\ l = "payFirst" => PaidIn(P, c) = 0 /\ T[c].agreed = m.fee
    /\ l = "pay" /\ m.kind = "freight" => PaidIn(P, c) + m.amount <= T[c].agreed
    /\ l = "removeEntries" /\ c \notin S =>
            \A e \in DOMAIN M : M[e] # None /\ M[e].trip = c => e \in m.todo

\* The trips T, payments and log while a request is at l, and remembers m.
At(T, P, M, S, l, m) ==
    /\ \A t \in Trips : Own(P, M, t, T[t]) /\ Books(P, M, S, t, Want(T[t], t, l, m))
    /\ Knows(T, P, M, S, l, m)

\* Of requests one at a time: what the one under way finds, or what the next one will.
OneAtTime ==
    ~tripOverlap =>
        /\ \A q, r \in Requests : tripPc[q] # "idle" /\ tripPc[r] # "idle" => q = r
        /\ \A r \in Requests : tripPc[r] # "idle" =>
                At(trip, driverPay, tripMoney, tripSoiled, tripPc[r], tripMem[r])
        /\ TripsIdle => At(trip, driverPay, tripMoney, tripSoiled, "idle", TripBlank)

-----------------------------------------------------------------------------
(* What is paid for a trip.                                                *)

\* The sum of the payments is a sum over a finite set.
LEMMA AmountsAreTotal ==
  ASSUME NEW P, NEW N, IsFiniteSet(N)
  PROVE  \E f : (\A n \in N : f[n] = P[n].amount) /\ AmountsOf(P, N) = TotalOf(f, N)
<1>1. PICK f : f = [n \in N |-> P[n].amount]
  OBVIOUS
<1>2. PICK h : Sums(h, f, SUBSET N) /\ TotalOf(f, N) = h[N]
  BY SumIs
<1>3. \A s \in SUBSET N : s # {} => f[Pick(s)] = P[Pick(s)].amount
  BY <1>1, PickIn
<1>4. h = [s \in SUBSET N |-> IF s = {} THEN 0 ELSE P[Pick(s)].amount + h[s \ {Pick(s)}]]
  BY <1>2, <1>3 DEF Sums
<1> DEFINE g == CHOOSE k :
        k = [s \in SUBSET N |-> IF s = {} THEN 0 ELSE P[Pick(s)].amount + k[s \ {Pick(s)}]]
<1>5. g = [s \in SUBSET N |-> IF s = {} THEN 0 ELSE P[Pick(s)].amount + g[s \ {Pick(s)}]]
  BY <1>4
<1>6. AmountsOf(P, N) = g[N]
  BY DEF AmountsOf, MapThenSumSet, MapThenFoldSet, Pick
<1> HIDE DEF g
<1>7. Sums(g, f, SUBSET N)
  BY <1>3, <1>5 DEF Sums
<1>8. g[N] = h[N]
  <2>1. N \in SUBSET (N \cap N) /\ \A n \in N : f[n] = f[n]
    OBVIOUS
  <2> QED BY <1>2, <1>7, <2>1, SumsSame
<1> QED BY <1>1, <1>2, <1>6, <1>8

LEMMA AmountsSame ==
  ASSUME NEW P, NEW Q, NEW N, IsFiniteSet(N), \A n \in N : P[n].amount = Q[n].amount
  PROVE  AmountsOf(P, N) = AmountsOf(Q, N)
<1>1. PICK f : (\A n \in N : f[n] = P[n].amount) /\ AmountsOf(P, N) = TotalOf(f, N)
  BY AmountsAreTotal
<1>2. PICK e : (\A n \in N : e[n] = Q[n].amount) /\ AmountsOf(Q, N) = TotalOf(e, N)
  BY AmountsAreTotal
<1>3. TotalOf(f, N) = TotalOf(e, N)
  BY <1>1, <1>2, SumSame
<1> QED BY <1>1, <1>2, <1>3

LEMMA AmountsNat ==
  ASSUME NEW P, NEW N, IsFiniteSet(N), \A n \in N : P[n].amount \in Nat
  PROVE  AmountsOf(P, N) \in Nat
<1>1. PICK f : (\A n \in N : f[n] = P[n].amount) /\ AmountsOf(P, N) = TotalOf(f, N)
  BY AmountsAreTotal
<1>2. TotalOf(f, N) \in Nat
  BY <1>1, SumType
<1> QED BY <1>1, <1>2

LEMMA AmountsNone == \A P : AmountsOf(P, {}) = 0
<1> SUFFICES ASSUME NEW P PROVE AmountsOf(P, {}) = 0
  OBVIOUS
<1>1. PICK f : AmountsOf(P, {}) = TotalOf(f, {})
  BY FS_EmptySet, AmountsAreTotal
<1> QED BY <1>1, SumEmpty

LEMMA AmountsLess ==
  ASSUME NEW P, NEW N, IsFiniteSet(N), \A n \in N : P[n].amount \in Nat, NEW n \in N
  PROVE  AmountsOf(P, N) = P[n].amount + AmountsOf(P, N \ {n})
<1>1. PICK f : (\A i \in N : f[i] = P[i].amount) /\ AmountsOf(P, N) = TotalOf(f, N)
  BY AmountsAreTotal
<1>2. PICK R : R = N \ {n}
  OBVIOUS
<1>3. IsFiniteSet(R) /\ R \subseteq N
  BY <1>2, OneLess
<1>4. PICK e : (\A i \in R : e[i] = P[i].amount) /\ AmountsOf(P, R) = TotalOf(e, R)
  BY <1>3, AmountsAreTotal
<1>5. TotalOf(e, R) = TotalOf(f, R)
  <2>1. \A i \in R : e[i] = f[i]
    BY <1>1, <1>3, <1>4
  <2> QED BY <1>3, <2>1, SumSame
<1>6. TotalOf(f, N) = f[n] + TotalOf(f, R)
  <2>1. \A i \in N : f[i] \in Int
    BY <1>1
  <2> QED BY <1>2, <2>1, SumAdds
<1>7. f[n] = P[n].amount
  BY <1>1
<1> QED BY <1>1, <1>2, <1>4, <1>5, <1>6, <1>7

\* Of fewer payments the amounts are not more: whatever is left out of N, the least of the
\* sets for which it failed would have one more member to leave out.
LEMMA AmountsFewer ==
  ASSUME NEW P, NEW N, IsFiniteSet(N), \A n \in N : P[n].amount \in Nat, NEW R \in SUBSET N
  PROVE  AmountsOf(P, R) <= AmountsOf(P, N)
<1> DEFINE Bad == {U \in SUBSET N : R \subseteq U /\ ~(AmountsOf(P, R) <= AmountsOf(P, U))}
<1>1. \A U \in SUBSET N : IsFiniteSet(U) /\ \A n \in U : P[n].amount \in Nat
  BY FS_Subset
<1>2. ASSUME Bad # {} PROVE FALSE
  <2>1. \A U \in Bad : IsFiniteSet(U)
    BY <1>1
  <2> HIDE DEF Bad
  <2>2. PICK U \in Bad : \A V \in Bad : Cardinality(U) <= Cardinality(V)
    BY <1>2, <2>1, SmallestOf
  <2>3. U \in SUBSET N /\ R \subseteq U /\ ~(AmountsOf(P, R) <= AmountsOf(P, U))
    BY DEF Bad
  <2>4. AmountsOf(P, R) \in Nat
    BY <1>1, AmountsNat
  <2>5. PICK n \in U : n \notin R
    BY <2>3, <2>4
  <2>6. PICK V : V = U \ {n}
    OBVIOUS
  <2>7. IsFiniteSet(U) /\ Cardinality(V) < Cardinality(U)
    BY <1>1, <2>3, <2>6, OneLess
  <2>8. V \in SUBSET N /\ R \subseteq V
    BY <2>3, <2>5, <2>6
  <2>9. AmountsOf(P, U) = P[n].amount + AmountsOf(P, V)
    BY <1>1, <2>3, <2>6, AmountsLess
  <2>10. P[n].amount \in Nat /\ AmountsOf(P, V) \in Nat /\ AmountsOf(P, U) \in Nat
    BY <1>1, <2>3, <2>8, AmountsNat
  <2>11. ~(AmountsOf(P, R) <= AmountsOf(P, V))
    BY <2>3, <2>4, <2>9, <2>10
  <2>12. V \in Bad
    BY <2>8, <2>11 DEF Bad
  <2>13. Cardinality(V) \in Nat /\ Cardinality(U) \in Nat
    BY <1>1, <2>3, <2>8, FS_CardinalityType
  <2> QED BY <2>2, <2>7, <2>12, <2>13
<1>3. N \in SUBSET N
  OBVIOUS
<1> QED BY <1>2, <1>3

Payments == Seq(PayRow \cup {None})
Money == Seq(TripEntry \cup {None})

LEMMA FreightType ==
  ASSUME NEW P \in Payments, NEW t
  PROVE  /\ IsFiniteSet(FreightIn(P, t)) /\ \A n \in FreightIn(P, t) : P[n].amount \in Nat
         /\ PaidIn(P, t) \in Nat
<1>1. DOMAIN P = 1 .. Len(P) /\ Len(P) \in Nat /\ \A n \in DOMAIN P : P[n] \in PayRow \cup {None}
  BY DEF Payments
<1>2. IsFiniteSet(1 .. Len(P))
  BY <1>1, FS_Interval
<1>3. FreightIn(P, t) \subseteq 1 .. Len(P)
  BY <1>1 DEF FreightIn
<1>4. IsFiniteSet(FreightIn(P, t))
  BY <1>2, <1>3, FS_Subset
<1>5. \A n \in FreightIn(P, t) : P[n].amount \in Nat
  BY <1>1 DEF FreightIn, PayRow
<1> QED BY <1>4, <1>5, AmountsNat DEF PaidIn

\* Payments that go take off what was paid.
LEMMA PaidLess ==
  ASSUME NEW P \in Payments, NEW Q \in Payments, NEW t,
         \A n \in DOMAIN Q : Q[n] # None /\ Q[n].trip = t => n \in DOMAIN P /\ Q[n] = P[n]
  PROVE  PaidIn(Q, t) <= PaidIn(P, t)
<1>1. FreightIn(Q, t) \in SUBSET FreightIn(P, t) /\ \A n \in FreightIn(Q, t) : Q[n] = P[n]
  BY DEF FreightIn
<1>2. AmountsOf(Q, FreightIn(Q, t)) = AmountsOf(P, FreightIn(Q, t))
  BY <1>1, FreightType, AmountsSame
<1>3. AmountsOf(P, FreightIn(Q, t)) <= AmountsOf(P, FreightIn(P, t))
  BY <1>1, FreightType, AmountsFewer
<1> QED BY <1>2, <1>3 DEF PaidIn

\* A payment that is made adds to it, if it is one of freight for the trip.
LEMMA PaidMore ==
  ASSUME NEW P \in Payments, NEW row \in PayRow, NEW t
  PROVE  PaidIn(Append(P, row), t) = PaidIn(P, t) +
                (IF row.trip = t /\ row.kind = "freight" THEN row.amount ELSE 0)
<1>1. PICK Q : Q = Append(P, row)
  OBVIOUS
<1>2. PICK l : l = Len(P) + 1
  OBVIOUS
<1>3. /\ Q \in Payments /\ DOMAIN Q = 1 .. l /\ DOMAIN P = 1 .. Len(P) /\ Q[l] = row /\ Len(P) \in Nat
      /\ \A n \in 1 .. Len(P) : Q[n] = P[n]
  <2>1. row \in PayRow \cup {None}
    OBVIOUS
  <2>2. Len(Q) = Len(P) + 1 /\ Q \in Payments
    BY <1>1, <2>1, SeqAppended DEF Payments
  <2> QED BY <1>1, <1>2, <2>1, <2>2, SeqAppended DEF Payments
<1>4. row # None /\ row.amount \in Nat
  BY NotNone DEF PayRow
<1>5. FreightIn(Q, t) \ {l} = FreightIn(P, t)
  BY <1>2, <1>3 DEF FreightIn
<1>6. AmountsOf(Q, FreightIn(P, t)) = PaidIn(P, t)
  <2>1. \A n \in FreightIn(P, t) : Q[n].amount = P[n].amount
    BY <1>3 DEF FreightIn
  <2> QED BY <2>1, FreightType, AmountsSame DEF PaidIn
<1>7. CASE row.trip = t /\ row.kind = "freight"
  <2>1. l \in FreightIn(Q, t)
    BY <1>2, <1>3, <1>4, <1>7 DEF FreightIn
  <2>2. AmountsOf(Q, FreightIn(Q, t)) = Q[l].amount + AmountsOf(Q, FreightIn(Q, t) \ {l})
    <3>1. PICK N : N = FreightIn(Q, t)
      OBVIOUS
    <3>2. IsFiniteSet(N) /\ (\A n \in N : Q[n].amount \in Nat) /\ l \in N
      BY <1>3, <2>1, <3>1, FreightType
    <3> QED BY <3>1, <3>2, AmountsLess
  <2>3. PaidIn(Q, t) = row.amount + PaidIn(P, t)
    BY <1>3, <1>5, <1>6, <2>2 DEF PaidIn
  <2> QED BY <1>1, <1>4, <1>7, <2>3, FreightType
<1>8. CASE ~(row.trip = t /\ row.kind = "freight")
  <2>1. l \notin FreightIn(Q, t)
    BY <1>3, <1>8 DEF FreightIn
  <2>2. PaidIn(Q, t) = PaidIn(P, t)
    BY <1>5, <1>6, <2>1 DEF PaidIn
  <2> QED BY <1>1, <1>8, <2>2, FreightType
<1> QED BY <1>7, <1>8

LEMMA PaidToIs == \A t : PaidTo(t, {"freight"}) = PaidIn(driverPay, t)
<1> SUFFICES ASSUME NEW t PROVE PaidTo(t, {"freight"}) = PaidIn(driverPay, t)
  OBVIOUS
<1>1. {n \in PaysOf(t) : driverPay[n].kind \in {"freight"}} = FreightIn(driverPay, t)
  BY DEF PaysOf, FreightIn
<1> QED BY <1>1 DEF PaidTo, PaidIn, AmountsOf


-----------------------------------------------------------------------------
(* What a commit does to the books of one trip: P and M are the payments   *)
(* and the log before it, Q and L after it; x is the row before, y after.  *)

\* A row without its charge at the entry e.
CleanRow(x, e) ==
    IF x = None THEN None
    ELSE [x EXCEPT !.delayTx = IF @ = e THEN None ELSE @, !.fee = IF x.delayTx = e THEN 0 ELSE @,
                   !.weightTx = IF @ = e THEN None ELSE @, !.weight = IF x.weightTx = e THEN 0 ELSE @]

LEMMA CleanIs ==
  ASSUME NEW x \in TripRow, NEW e
  PROVE  /\ CleanRow(x, e) \in TripRow /\ CleanRow(x, e).agreed = x.agreed
         /\ CleanRow(x, e).client = x.client /\ CleanRow(x, e).arrived = x.arrived
         /\ \A k \in ChargeKinds :
                /\ Ptr(x, k) = e => Ptr(CleanRow(x, e), k) = None /\ Due(CleanRow(x, e), k) = 0
                /\ Ptr(x, k) # e => /\ Ptr(CleanRow(x, e), k) = Ptr(x, k)
                                    /\ Due(CleanRow(x, e), k) = Due(x, k)
<1>1. x # None
  BY NotNone
<1>2. PICK y : y = CleanRow(x, e)
  OBVIOUS
<1>3. /\ y \in TripRow /\ y.agreed = x.agreed /\ y.client = x.client /\ y.arrived = x.arrived
      /\ y.delayTx = (IF x.delayTx = e THEN None ELSE x.delayTx)
      /\ y.fee = (IF x.delayTx = e THEN 0 ELSE x.fee)
      /\ y.weightTx = (IF x.weightTx = e THEN None ELSE x.weightTx)
      /\ y.weight = (IF x.weightTx = e THEN 0 ELSE x.weight)
  BY <1>1, <1>2 DEF CleanRow, TripRow
<1> QED BY <1>2, <1>3 DEF Ptr, Due, ChargeKinds

\* What is left of the pointers of a trip is still its own.
LEMMA OwnKept ==
  ASSUME NEW P, NEW Q, NEW M, NEW L, NEW t, NEW x, NEW y, Own(P, M, t, x),
         y # None => x # None /\ \A k \in ChargeKinds : Ptr(y, k) # None => Ptr(y, k) = Ptr(x, k),
         \A e \in DOMAIN M : /\ e \in DOMAIN L
                             /\ L[e] # None => /\ M[e] # None /\ L[e].trip = M[e].trip
                                               /\ L[e].kind = M[e].kind,
         \A n \in DOMAIN Q : Q[n] # None /\ Q[n].trip = t =>
                             /\ n \in DOMAIN P /\ Q[n] = P[n] /\ y # None
                             /\ P[n].tx # None => L[P[n].tx] # None
  PROVE  Own(Q, L, t, y)
<1>1. y # None => \A k \in ChargeKinds : Ptr(y, k) # None =>
            /\ Ptr(y, k) \in DOMAIN L
            /\ L[Ptr(y, k)] # None => L[Ptr(y, k)].trip = t /\ L[Ptr(y, k)].kind = k
  BY DEF Own
<1>2. \A n \in DOMAIN Q : Q[n] # None /\ Q[n].trip = t =>
            /\ y # None
            /\ Q[n].tx # None => /\ Q[n].tx \in DOMAIN L /\ L[Q[n].tx] # None
                                 /\ L[Q[n].tx].trip = t /\ L[Q[n].tx].kind \notin ChargeKinds
  BY DEF Own
<1> QED BY <1>1, <1>2, Zenon DEF Own

Deleted(P, Q, M, L, e) ==
    /\ e \in DOMAIN M /\ M[e] # None
    /\ Q = [n \in DOMAIN P |-> IF P[n] # None /\ P[n].tx = e THEN None ELSE P[n]]
    /\ L = [M EXCEPT ![e] = None]

LEMMA DeletedTyped ==
  ASSUME NEW P \in Payments, NEW M \in Money, NEW Q, NEW L, NEW e, Deleted(P, Q, M, L, e)
  PROVE  /\ Q \in Payments /\ L \in Money /\ DOMAIN Q = DOMAIN P /\ DOMAIN L = DOMAIN M
         /\ L[e] = None /\ \A i \in DOMAIN M : i # e => L[i] = M[i]
         /\ \A n \in DOMAIN P : IF P[n] # None /\ P[n].tx = e THEN Q[n] = None ELSE Q[n] = P[n]
         /\ None \notin DOMAIN M
<1>1. /\ \A n \in DOMAIN P : P[n] \in PayRow \cup {None}
      /\ \A i \in DOMAIN M : M[i] \in TripEntry \cup {None}
      /\ DOMAIN M = 1 .. Len(M) /\ DOMAIN P = 1 .. Len(P)
  BY DEF Payments, Money
<1>2. Q \in [DOMAIN P -> PayRow \cup {None}] /\ L \in [DOMAIN M -> TripEntry \cup {None}]
  BY <1>1 DEF Deleted
<1>3. Q \in Payments /\ L \in Money
  BY <1>2, SeqReplaced DEF Payments, Money
<1>4. None \notin DOMAIN M
  BY <1>1, NotNone DEF Money
<1> QED BY <1>3, <1>4 DEF Deleted

\* An entry goes with its payments and its charge: the books stay as right as they were.
LEMMA DeletedBooks ==
  ASSUME NEW P \in Payments, NEW M \in Money, NEW Q, NEW L, NEW e, Deleted(P, Q, M, L, e),
         NEW t, NEW x \in TripRow \cup {None}, Own(P, M, t, x)
  PROVE  /\ Own(Q, L, t, CleanRow(x, e))
         /\ Right(P, M, t, x) => Right(Q, L, t, CleanRow(x, e))
<1>1. PICK y : y = CleanRow(x, e)
  OBVIOUS
<1>2. /\ x = None => y = None
      /\ x # None => y # None /\ y.agreed = x.agreed
      /\ x # None => \A k \in ChargeKinds :
            /\ Ptr(x, k) = e => Ptr(y, k) = None
            /\ Ptr(x, k) # e => Ptr(y, k) = Ptr(x, k) /\ Due(y, k) = Due(x, k)
  <2>1. CASE x = None
    BY <1>1, <2>1 DEF CleanRow
  <2>2. CASE x # None
    <3>1. x \in TripRow
      BY <2>2
    <3> QED BY <1>1, <2>2, <3>1, CleanIs, NotNone
  <2> QED BY <2>1, <2>2
<1>3. /\ Q \in Payments /\ DOMAIN Q = DOMAIN P /\ DOMAIN L = DOMAIN M
      /\ L[e] = None /\ \A i \in DOMAIN M : i # e => L[i] = M[i]
      /\ \A n \in DOMAIN P : IF P[n] # None /\ P[n].tx = e THEN Q[n] = None ELSE Q[n] = P[n]
      /\ None \notin DOMAIN M /\ e \in DOMAIN M
  BY DeletedTyped DEF Deleted
<1>4. Own(Q, L, t, y)
  <2>1. \A n \in DOMAIN Q : Q[n] # None /\ Q[n].trip = t =>
              /\ n \in DOMAIN P /\ Q[n] = P[n] /\ y # None
              /\ P[n].tx # None => L[P[n].tx] # None
    BY <1>2, <1>3 DEF Own
  <2>2. \A i \in DOMAIN M : /\ i \in DOMAIN L
                            /\ L[i] # None => M[i] # None /\ L[i].trip = M[i].trip /\ L[i].kind = M[i].kind
    BY <1>3
  <2>3. y # None => x # None /\ \A k \in ChargeKinds : Ptr(y, k) # None => Ptr(y, k) = Ptr(x, k)
    BY <1>2
  <2> QED BY <2>1, <2>2, <2>3, OwnKept
<1>5. ASSUME Right(P, M, t, x) PROVE Right(Q, L, t, y)
  <2>1. y # None => \A k \in ChargeKinds : Ptr(y, k) # None =>
                          L[Ptr(y, k)] # None /\ L[Ptr(y, k)].amount = Due(y, k)
    <3> SUFFICES ASSUME y # None, NEW k \in ChargeKinds, Ptr(y, k) # None
                 PROVE  L[Ptr(y, k)] # None /\ L[Ptr(y, k)].amount = Due(y, k)
      OBVIOUS
    <3>1. x # None /\ Ptr(x, k) # e /\ Ptr(y, k) = Ptr(x, k) /\ Due(y, k) = Due(x, k)
      BY <1>2
    <3>2. Ptr(x, k) \in DOMAIN M
      BY <3>1 DEF Own
    <3>3. M[Ptr(x, k)] # None /\ M[Ptr(x, k)].amount = Due(x, k)
      BY <1>5, <3>1 DEF Right
    <3> QED BY <1>3, <3>1, <3>2, <3>3
  <2>2. y # None => PaidIn(Q, t) <= y.agreed
    <3>1. PaidIn(Q, t) <= PaidIn(P, t)
      BY <1>3, PaidLess
    <3>2. x # None => PaidIn(P, t) <= x.agreed /\ x.agreed \in Nat
      BY <1>5 DEF Right, TripRow
    <3> QED BY <1>2, <1>3, <3>1, <3>2, FreightType
  <2>3. ASSUME NEW i \in DOMAIN L, L[i] # None, L[i].trip = t
        PROVE  /\ y # None
               /\ L[i].kind \in ChargeKinds => Ptr(y, L[i].kind) = i
               /\ L[i].kind \notin ChargeKinds =>
                     \E n \in DOMAIN Q : /\ Q[n] # None /\ Q[n].trip = t
                                         /\ Q[n].tx = i /\ Q[n].amount = L[i].amount
    <3>1. i \in DOMAIN M /\ i # e /\ M[i] = L[i]
      BY <1>3, <2>3
    <3>2. x # None /\ y # None
      BY <1>2, <1>5, <2>3, <3>1 DEF Right
    <3>3. L[i].kind \in ChargeKinds => Ptr(y, L[i].kind) = i
      BY <1>2, <1>5, <2>3, <3>1, <3>2 DEF Right
    <3>4. ASSUME L[i].kind \notin ChargeKinds
          PROVE  \E n \in DOMAIN Q : /\ Q[n] # None /\ Q[n].trip = t
                                     /\ Q[n].tx = i /\ Q[n].amount = L[i].amount
      <4>1. PICK n \in DOMAIN P : P[n] # None /\ P[n].trip = t /\ P[n].tx = i /\ P[n].amount = M[i].amount
        BY <1>5, <2>3, <3>1, <3>4 DEF Right
      <4> QED BY <1>3, <3>1, <4>1
    <3> QED BY <3>2, <3>3, <3>4
  <2> QED BY <2>1, <2>2, <2>3, Zenon DEF Right
<1> QED BY <1>1, <1>4, <1>5

TripEdited(M, L, e, a) == e \in DOMAIN M /\ M[e] # None /\ L = [M EXCEPT ![e].amount = a]

LEMMA EditedTyped ==
  ASSUME NEW M \in Money, NEW L, NEW e, NEW a \in Nat, TripEdited(M, L, e, a)
  PROVE  /\ DOMAIN L = DOMAIN M /\ L[e] # None /\ L[e].amount = a
         /\ L[e].trip = M[e].trip /\ L[e].kind = M[e].kind
         /\ \A i \in DOMAIN M : i # e => L[i] = M[i]
         /\ None \notin DOMAIN M
<1>1. M[e] \in TripEntry
  BY DEF Money, TripEdited
<1>2. L = [M EXCEPT ![e] = [M[e] EXCEPT !.amount = a]]
  BY DEF TripEdited
<1>3. PICK z : z = [M[e] EXCEPT !.amount = a]
  OBVIOUS
<1>4. z \in TripEntry /\ z.amount = a /\ z.trip = M[e].trip /\ z.kind = M[e].kind
  BY <1>1, <1>3 DEF TripEntry
<1>5. None \notin DOMAIN M
  BY NotNone DEF Money
<1> QED BY <1>2, <1>3, <1>4, <1>5, NotNone DEF TripEdited

\* An amount of the log is edited, and with it what the trip says of it.
LEMMA EditedBooks ==
  ASSUME NEW P, NEW M \in Money, NEW L, NEW e, NEW a \in Nat, TripEdited(M, L, e, a),
         NEW t, NEW x, NEW y, Own(P, M, t, x), x = None <=> y = None,
         x # None => /\ y.agreed = x.agreed
                     /\ \A k \in ChargeKinds :
                            /\ Ptr(y, k) = Ptr(x, k)
                            /\ Due(y, k) = IF Ptr(x, k) = e /\ M[e].trip = t THEN a ELSE Due(x, k)
  PROVE  /\ Own(P, L, t, y)
         /\ Right(P, M, t, x) /\ (M[e].kind \in ChargeKinds \/ M[e].trip # t) => Right(P, L, t, y)
<1>1. /\ DOMAIN L = DOMAIN M /\ L[e] # None /\ L[e].amount = a /\ e \in DOMAIN M /\ M[e] # None
      /\ L[e].trip = M[e].trip /\ L[e].kind = M[e].kind
      /\ \A i \in DOMAIN M : i # e => L[i] = M[i]
      /\ None \notin DOMAIN M
  BY EditedTyped DEF TripEdited
<1>2. Own(P, L, t, y)
  <2>1. \A i \in DOMAIN M : /\ i \in DOMAIN L
                            /\ L[i] # None => M[i] # None /\ L[i].trip = M[i].trip /\ L[i].kind = M[i].kind
    BY <1>1
  <2>2. \A n \in DOMAIN P : P[n] # None /\ P[n].trip = t =>
              n \in DOMAIN P /\ P[n] = P[n] /\ y # None /\ (P[n].tx # None => L[P[n].tx] # None)
    BY <1>1 DEF Own
  <2> QED BY <2>1, <2>2, OwnKept
<1>3. ASSUME Right(P, M, t, x), M[e].kind \in ChargeKinds \/ M[e].trip # t PROVE Right(P, L, t, y)
  <2>1. y # None => \A k \in ChargeKinds : Ptr(y, k) # None =>
                          L[Ptr(y, k)] # None /\ L[Ptr(y, k)].amount = Due(y, k)
    <3> SUFFICES ASSUME y # None, NEW k \in ChargeKinds, Ptr(y, k) # None
                 PROVE  L[Ptr(y, k)] # None /\ L[Ptr(y, k)].amount = Due(y, k)
      OBVIOUS
    <3>1. x # None /\ Ptr(y, k) = Ptr(x, k) /\ Ptr(x, k) \in DOMAIN M
      BY DEF Own
    <3>2. /\ M[Ptr(x, k)] # None /\ M[Ptr(x, k)].amount = Due(x, k)
          /\ M[Ptr(x, k)].trip = t
      BY <1>3, <3>1 DEF Right, Own
    <3>3. CASE Ptr(x, k) = e
      BY <1>1, <3>1, <3>2, <3>3
    <3>4. CASE Ptr(x, k) # e
      BY <1>1, <3>1, <3>2, <3>4
    <3> QED BY <3>3, <3>4
  <2>2. y # None => PaidIn(P, t) <= y.agreed
    BY <1>3 DEF Right
  <2>3. ASSUME NEW i \in DOMAIN L, L[i] # None, L[i].trip = t
        PROVE  /\ y # None
               /\ L[i].kind \in ChargeKinds => Ptr(y, L[i].kind) = i
               /\ L[i].kind \notin ChargeKinds =>
                     \E n \in DOMAIN P : /\ P[n] # None /\ P[n].trip = t
                                         /\ P[n].tx = i /\ P[n].amount = L[i].amount
    <3>1. i \in DOMAIN M /\ M[i] # None /\ M[i].trip = t /\ M[i].kind = L[i].kind
      BY <1>1, <2>3
    <3>2. L[i].kind \notin ChargeKinds => L[i].amount = M[i].amount
      BY <1>1, <1>3, <3>1
    <3> QED BY <1>3, <3>1, <3>2 DEF Right
  <2> QED BY <2>1, <2>2, <2>3, Zenon DEF Right
<1> QED BY <1>2, <1>3


\* A charge is made, for the trip of its entry; to another trip nothing happens.
LEMMA MadeBooks ==
  ASSUME NEW P, NEW M \in Money, NEW L, NEW entry \in TripEntry, entry.kind \in ChargeKinds,
         L = Append(M, entry), NEW t, NEW x, Own(P, M, t, x)
  PROVE  /\ Own(P, L, t, x)
         /\ Right(P, M, t, x) /\ t # entry.trip => Right(P, L, t, x)
         /\ \A y : /\ t = entry.trip /\ x # None /\ y # None /\ y.agreed = x.agreed
                   /\ Ptr(y, entry.kind) = Len(M) + 1 /\ Due(y, entry.kind) = entry.amount
                   /\ Ptr(x, entry.kind) = None
                   /\ \A k \in ChargeKinds \ {entry.kind} : Ptr(y, k) = Ptr(x, k) /\ Due(y, k) = Due(x, k)
                   => Own(P, L, t, y) /\ (Right(P, M, t, x) => Right(P, L, t, y))
<1>1. PICK l : l = Len(M) + 1
  OBVIOUS
<1>2. /\ DOMAIN M = 1 .. Len(M) /\ DOMAIN L = DOMAIN M \cup {l} /\ l \notin DOMAIN M /\ L[l] = entry
      /\ entry # None /\ None \notin DOMAIN L /\ Len(M) \in Nat
      /\ \A i \in DOMAIN M : L[i] = M[i]
  <2>1. entry \in TripEntry \cup {None} /\ M \in Seq(TripEntry \cup {None})
    BY DEF Money
  <2>2. Len(L) = Len(M) + 1 /\ L \in Seq(TripEntry \cup {None}) /\ Len(M) \in Nat
    BY <2>1, SeqAppended
  <2>3. DOMAIN L = 1 .. Len(L) /\ DOMAIN M = 1 .. Len(M)
    BY <2>1, <2>2
  <2>4. L[l] = entry /\ \A i \in DOMAIN M : L[i] = M[i]
    BY <1>1, <2>1, <2>3, SeqAppended
  <2> QED BY <1>1, <2>2, <2>3, <2>4, NotNone
<1>3. Own(P, L, t, x)
  <2>1. x # None => \A k \in ChargeKinds : Ptr(x, k) # None =>
            /\ Ptr(x, k) \in DOMAIN L
            /\ L[Ptr(x, k)] # None => L[Ptr(x, k)].trip = t /\ L[Ptr(x, k)].kind = k
    BY <1>2 DEF Own
  <2>2. \A n \in DOMAIN P : P[n] # None /\ P[n].trip = t =>
            /\ x # None
            /\ P[n].tx # None => /\ P[n].tx \in DOMAIN L /\ L[P[n].tx] # None
                                 /\ L[P[n].tx].trip = t /\ L[P[n].tx].kind \notin ChargeKinds
    BY <1>2 DEF Own
  <2> QED BY <2>1, <2>2, Zenon DEF Own
<1>4. ASSUME Right(P, M, t, x)
      PROVE  /\ x # None => \A k \in ChargeKinds : Ptr(x, k) # None =>
                               L[Ptr(x, k)] # None /\ L[Ptr(x, k)].amount = Due(x, k)
             /\ x # None => PaidIn(P, t) <= x.agreed
             /\ \A i \in DOMAIN M : L[i] # None /\ L[i].trip = t =>
                    /\ x # None
                    /\ L[i].kind \in ChargeKinds => Ptr(x, L[i].kind) = i
                    /\ L[i].kind \notin ChargeKinds =>
                          \E n \in DOMAIN P : /\ P[n] # None /\ P[n].trip = t
                                              /\ P[n].tx = i /\ P[n].amount = L[i].amount
  <2>1. x # None => \A k \in ChargeKinds : Ptr(x, k) # None =>
                          L[Ptr(x, k)] # None /\ L[Ptr(x, k)].amount = Due(x, k)
    BY <1>2, <1>4 DEF Right, Own
  <2>2. x # None => PaidIn(P, t) <= x.agreed
    BY <1>4 DEF Right
  <2>3. \A i \in DOMAIN M : L[i] # None /\ L[i].trip = t =>
                    /\ x # None
                    /\ L[i].kind \in ChargeKinds => Ptr(x, L[i].kind) = i
                    /\ L[i].kind \notin ChargeKinds =>
                          \E n \in DOMAIN P : /\ P[n] # None /\ P[n].trip = t
                                              /\ P[n].tx = i /\ P[n].amount = L[i].amount
    BY <1>2, <1>4 DEF Right
  <2> QED BY <2>1, <2>2, <2>3, Zenon
<1>5. ASSUME Right(P, M, t, x), t # entry.trip PROVE Right(P, L, t, x)
  BY <1>2, <1>4, <1>5 DEF Right
<1>6. ASSUME NEW y, t = entry.trip, x # None, y # None, y.agreed = x.agreed,
             Ptr(y, entry.kind) = l, Due(y, entry.kind) = entry.amount, Ptr(x, entry.kind) = None,
             \A k \in ChargeKinds \ {entry.kind} : Ptr(y, k) = Ptr(x, k) /\ Due(y, k) = Due(x, k)
      PROVE  Own(P, L, t, y) /\ (Right(P, M, t, x) => Right(P, L, t, y))
  <2>1. Own(P, L, t, y)
    <3>1. \A k \in ChargeKinds : Ptr(y, k) # None =>
              /\ Ptr(y, k) \in DOMAIN L
              /\ L[Ptr(y, k)] # None => L[Ptr(y, k)].trip = t /\ L[Ptr(y, k)].kind = k
      <4> SUFFICES ASSUME NEW k \in ChargeKinds, Ptr(y, k) # None
                   PROVE  /\ Ptr(y, k) \in DOMAIN L
                          /\ L[Ptr(y, k)] # None => L[Ptr(y, k)].trip = t /\ L[Ptr(y, k)].kind = k
        OBVIOUS
      <4>1. CASE k = entry.kind
        BY <1>2, <1>6, <4>1
      <4>2. CASE k # entry.kind
        BY <1>3, <1>6, <4>2 DEF Own
      <4> QED BY <4>1, <4>2
    <3>2. \A n \in DOMAIN P : P[n] # None /\ P[n].trip = t =>
            /\ y # None
            /\ P[n].tx # None => /\ P[n].tx \in DOMAIN L /\ L[P[n].tx] # None
                                 /\ L[P[n].tx].trip = t /\ L[P[n].tx].kind \notin ChargeKinds
      BY <1>3, <1>6 DEF Own
    <3> QED BY <3>1, <3>2, Zenon DEF Own
  <2>2. ASSUME Right(P, M, t, x) PROVE Right(P, L, t, y)
    <3>1. \A k \in ChargeKinds : Ptr(y, k) # None => L[Ptr(y, k)] # None /\ L[Ptr(y, k)].amount = Due(y, k)
      <4> SUFFICES ASSUME NEW k \in ChargeKinds, Ptr(y, k) # None
                   PROVE  L[Ptr(y, k)] # None /\ L[Ptr(y, k)].amount = Due(y, k)
        OBVIOUS
      <4>1. CASE k = entry.kind
        BY <1>2, <1>6, <4>1
      <4>2. CASE k # entry.kind
        BY <1>4, <1>6, <2>2, <4>2
      <4> QED BY <4>1, <4>2
    <3>2. PaidIn(P, t) <= y.agreed
      BY <1>4, <1>6, <2>2
    <3>3. ASSUME NEW i \in DOMAIN L, L[i] # None, L[i].trip = t
          PROVE  /\ L[i].kind \in ChargeKinds => Ptr(y, L[i].kind) = i
                 /\ L[i].kind \notin ChargeKinds =>
                       \E n \in DOMAIN P : /\ P[n] # None /\ P[n].trip = t
                                           /\ P[n].tx = i /\ P[n].amount = L[i].amount
      <4>1. CASE i = l
        BY <1>2, <1>6, <4>1
      <4>2. CASE i # l
        <5>1. i \in DOMAIN M
          BY <1>2, <4>2
        <5>2. L[i].kind \in ChargeKinds => Ptr(x, L[i].kind) = i /\ i # None
          BY <1>2, <1>4, <2>2, <3>3, <5>1
        <5>3. L[i].kind \in ChargeKinds => Ptr(y, L[i].kind) = i
          BY <1>6, <5>2
        <5>4. L[i].kind \notin ChargeKinds =>
                       \E n \in DOMAIN P : /\ P[n] # None /\ P[n].trip = t
                                           /\ P[n].tx = i /\ P[n].amount = L[i].amount
          BY <1>4, <2>2, <3>3, <5>1
        <5> QED BY <5>3, <5>4
      <4> QED BY <4>1, <4>2
    <3> QED BY <1>6, <3>1, <3>2, <3>3, Zenon DEF Right
  <2> QED BY <2>1, <2>2
<1>7. ASSUME Right(P, M, t, x), t # entry.trip PROVE Right(P, L, t, x)
  BY <1>5, <1>7
<1> QED BY <1>1, <1>3, <1>6, <1>7

\* A payment is made, with its entry or without one.
Paid(P, Q, M, L, row) ==
    /\ Q = Append(P, row)
    /\ \/ row.tx = None /\ L = M
       \/ \E source \in {"cash", "supplier"} :
            /\ row.tx = Len(M) + 1
            /\ L = Append(M, [trip |-> row.trip, kind |-> source, amount |-> row.amount])

LEMMA PaidTyped ==
  ASSUME NEW P \in Payments, NEW M \in Money, NEW Q, NEW L, NEW row \in PayRow, Paid(P, Q, M, L, row)
  PROVE  /\ Q \in Payments /\ \E l : DOMAIN Q = DOMAIN P \cup {l} /\ Q[l] = row
         /\ \A n \in DOMAIN P : Q[n] = P[n]
         /\ \A i \in DOMAIN M : i \in DOMAIN L /\ L[i] = M[i]
         /\ \A i \in DOMAIN L : i \in DOMAIN M \/ i = row.tx
         /\ row.tx # None =>
                /\ row.tx \in DOMAIN L /\ row.tx \notin DOMAIN M /\ L[row.tx] # None
                /\ L[row.tx].trip = row.trip /\ L[row.tx].amount = row.amount
                /\ L[row.tx].kind \notin ChargeKinds
         /\ row # None /\ None \notin DOMAIN L
<1>1. Len(P) \in Nat /\ Len(M) \in Nat /\ DOMAIN P = 1 .. Len(P) /\ DOMAIN M = 1 .. Len(M)
  BY DEF Payments, Money
<1>2. /\ Q \in Payments /\ DOMAIN Q = DOMAIN P \cup {Len(P) + 1} /\ Q[Len(P) + 1] = row
      /\ \A n \in DOMAIN P : Q[n] = P[n]
  <2>1. row \in PayRow \cup {None} /\ P \in Seq(PayRow \cup {None}) /\ Q = Append(P, row)
    BY DEF Payments, Paid
  <2>2. /\ Len(Q) = Len(P) + 1 /\ Q \in Seq(PayRow \cup {None}) /\ Q[Len(P) + 1] = row
        /\ \A n \in 1 .. Len(P) : Q[n] = P[n]
    BY <2>1, SeqAppended
  <2>3. DOMAIN Q = 1 .. Len(Q)
    BY <2>2
  <2> QED BY <1>1, <2>2, <2>3 DEF Payments
<1>3. row # None
  BY NotNone
<1>4. CASE row.tx = None /\ L = M
  BY <1>1, <1>2, <1>3, <1>4, NotNone
<1>5. CASE \E source \in {"cash", "supplier"} :
            /\ row.tx = Len(M) + 1
            /\ L = Append(M, [trip |-> row.trip, kind |-> source, amount |-> row.amount])
  <2>1. PICK source \in {"cash", "supplier"} :
            /\ row.tx = Len(M) + 1
            /\ L = Append(M, [trip |-> row.trip, kind |-> source, amount |-> row.amount])
    BY <1>5
  <2>2. PICK entry : entry = [trip |-> row.trip, kind |-> source, amount |-> row.amount]
    OBVIOUS
  <2>3. /\ entry \in TripEntry /\ entry.trip = row.trip /\ entry.amount = row.amount
        /\ entry.kind \notin ChargeKinds
    BY <2>2 DEF TripEntry, PayRow, ChargeKinds
  <2>4. entry \in TripEntry \cup {None} /\ M \in Seq(TripEntry \cup {None}) /\ L = Append(M, entry)
    BY <2>1, <2>2, <2>3 DEF Money
  <2>5. /\ Len(L) = Len(M) + 1 /\ L \in Seq(TripEntry \cup {None}) /\ L[Len(M) + 1] = entry
        /\ \A n \in 1 .. Len(M) : L[n] = M[n]
    BY <2>4, SeqAppended
  <2>6. DOMAIN L = 1 .. Len(L) /\ entry # None
    BY <2>3, <2>5, NotNone
  <2>7. /\ DOMAIN L = DOMAIN M \cup {row.tx} /\ row.tx \notin DOMAIN M
        /\ None \notin DOMAIN L /\ L[row.tx] = entry
    BY <1>1, <2>1, <2>5, <2>6, NotNone
  <2>8. \A i \in DOMAIN M : L[i] = M[i]
    BY <1>1, <2>5
  <2> QED BY <1>2, <1>3, <2>3, <2>6, <2>7, <2>8
<1> QED BY <1>4, <1>5 DEF Paid

\* The books stay right if the payment is within what was agreed.
LEMMA PaidBooks ==
  ASSUME NEW P \in Payments, NEW M \in Money, NEW Q, NEW L, NEW row \in PayRow, Paid(P, Q, M, L, row),
         NEW t, NEW x \in TripRow \cup {None}, Own(P, M, t, x), row.trip = t => x # None
  PROVE  /\ Own(Q, L, t, x)
         /\ Right(P, M, t, x) /\ (row.trip = t /\ row.kind = "freight" => PaidIn(P, t) + row.amount <= x.agreed)
                => Right(Q, L, t, x)
<1>1. PICK l : DOMAIN Q = DOMAIN P \cup {l} /\ Q[l] = row
  BY PaidTyped
<1>2. /\ Q \in Payments /\ DOMAIN Q = DOMAIN P \cup {l} /\ Q[l] = row
      /\ \A n \in DOMAIN P : Q[n] = P[n]
      /\ \A i \in DOMAIN M : i \in DOMAIN L /\ L[i] = M[i]
      /\ \A i \in DOMAIN L : i \in DOMAIN M \/ i = row.tx
      /\ row # None /\ None \notin DOMAIN L
  BY <1>1, PaidTyped
<1>3. row.tx # None =>
                /\ row.tx \in DOMAIN L /\ row.tx \notin DOMAIN M /\ L[row.tx] # None
                /\ L[row.tx].trip = row.trip /\ L[row.tx].amount = row.amount
                /\ L[row.tx].kind \notin ChargeKinds
  BY PaidTyped
<1>4. Own(Q, L, t, x)
  <2>1. x # None => \A k \in ChargeKinds : Ptr(x, k) # None =>
            /\ Ptr(x, k) \in DOMAIN L
            /\ L[Ptr(x, k)] # None => L[Ptr(x, k)].trip = t /\ L[Ptr(x, k)].kind = k
    BY <1>2 DEF Own
  <2>2. ASSUME NEW n \in DOMAIN Q, Q[n] # None, Q[n].trip = t
        PROVE  /\ x # None
               /\ Q[n].tx # None => /\ Q[n].tx \in DOMAIN L /\ L[Q[n].tx] # None
                                    /\ L[Q[n].tx].trip = t /\ L[Q[n].tx].kind \notin ChargeKinds
    <3>1. CASE n \in DOMAIN P
      BY <1>2, <2>2, <3>1 DEF Own
    <3>2. CASE n = l
      BY <1>2, <1>3, <2>2, <3>2
    <3> QED BY <1>2, <3>1, <3>2
  <2> QED BY <2>1, <2>2, Zenon DEF Own
<1>5. ASSUME Right(P, M, t, x), row.trip = t /\ row.kind = "freight" => PaidIn(P, t) + row.amount <= x.agreed
      PROVE  Right(Q, L, t, x)
  <2>1. x # None => \A k \in ChargeKinds : Ptr(x, k) # None =>
                          L[Ptr(x, k)] # None /\ L[Ptr(x, k)].amount = Due(x, k)
    BY <1>2, <1>5 DEF Right, Own
  <2>2. x # None => PaidIn(Q, t) <= x.agreed
    <3>1. PaidIn(Q, t) = PaidIn(P, t) + (IF row.trip = t /\ row.kind = "freight" THEN row.amount ELSE 0)
      BY PaidMore DEF Paid
    <3>2. PaidIn(P, t) \in Nat
      BY FreightType
    <3>3. x # None => PaidIn(P, t) <= x.agreed
      BY <1>5 DEF Right
    <3>4. CASE row.trip = t /\ row.kind = "freight"
      BY <1>5, <3>1, <3>4
    <3>5. CASE ~(row.trip = t /\ row.kind = "freight")
      BY <3>1, <3>2, <3>3, <3>5
    <3> QED BY <3>4, <3>5
  <2>3. ASSUME NEW i \in DOMAIN L, L[i] # None, L[i].trip = t
        PROVE  /\ x # None
               /\ L[i].kind \in ChargeKinds => Ptr(x, L[i].kind) = i
               /\ L[i].kind \notin ChargeKinds =>
                     \E n \in DOMAIN Q : /\ Q[n] # None /\ Q[n].trip = t
                                         /\ Q[n].tx = i /\ Q[n].amount = L[i].amount
    <3>1. CASE i \in DOMAIN M
      <4>1. L[i] = M[i]
        BY <1>2, <3>1
      <4>2. x # None /\ (L[i].kind \in ChargeKinds => Ptr(x, L[i].kind) = i)
        BY <1>5, <2>3, <3>1, <4>1 DEF Right
      <4>3. ASSUME L[i].kind \notin ChargeKinds
            PROVE  \E n \in DOMAIN Q : /\ Q[n] # None /\ Q[n].trip = t
                                       /\ Q[n].tx = i /\ Q[n].amount = L[i].amount
        <5>1. PICK n \in DOMAIN P : P[n] # None /\ P[n].trip = t /\ P[n].tx = i /\ P[n].amount = M[i].amount
          BY <1>5, <2>3, <3>1, <4>1, <4>3 DEF Right
        <5> QED BY <1>2, <4>1, <5>1
      <4> QED BY <4>2, <4>3
    <3>2. CASE i \notin DOMAIN M
      <4>1. i = row.tx /\ i # None
        BY <1>2, <3>2
      <4>2. row.trip = t /\ L[i].kind \notin ChargeKinds /\ L[i].amount = row.amount
        BY <1>3, <2>3, <4>1
      <4> QED BY <1>2, <4>1, <4>2
    <3> QED BY <3>1, <3>2
  <2> QED BY <2>1, <2>2, <2>3, Zenon DEF Right
<1> QED BY <1>4, <1>5

\* Payments that have no entry go, or every payment of a trip that goes.
Unpaid(P, Q, t) ==
    /\ DOMAIN Q = DOMAIN P
    /\ \A n \in DOMAIN P : /\ Q[n] # None => Q[n] = P[n]
                           /\ P[n] # None /\ P[n].trip = t /\ P[n].tx # None => Q[n] = P[n]

LEMMA UnpaidBooks ==
  ASSUME NEW P \in Payments, NEW Q \in Payments, NEW M, NEW t, Unpaid(P, Q, t),
         NEW x \in TripRow \cup {None}, Own(P, M, t, x), None \notin DOMAIN M
  PROVE  /\ Own(Q, M, t, x)
         /\ Right(P, M, t, x) => Right(Q, M, t, x)
<1>1. /\ DOMAIN Q = DOMAIN P
      /\ \A n \in DOMAIN P : Q[n] # None => Q[n] = P[n]
      /\ \A n \in DOMAIN P : P[n] # None /\ P[n].trip = t /\ P[n].tx # None => Q[n] = P[n]
  BY DEF Unpaid
<1>2. Own(Q, M, t, x)
  BY <1>1 DEF Own
<1>3. ASSUME Right(P, M, t, x) PROVE Right(Q, M, t, x)
  <2>1. x # None => PaidIn(Q, t) <= x.agreed
    <3>1. PaidIn(Q, t) <= PaidIn(P, t)
      BY <1>1, PaidLess
    <3>2. x # None => PaidIn(P, t) <= x.agreed /\ x.agreed \in Nat
      BY <1>3 DEF Right, TripRow
    <3> QED BY <3>1, <3>2, FreightType
  <2>2. ASSUME NEW i \in DOMAIN M, M[i] # None, M[i].trip = t
        PROVE  /\ x # None
               /\ M[i].kind \in ChargeKinds => Ptr(x, M[i].kind) = i
               /\ M[i].kind \notin ChargeKinds =>
                     \E n \in DOMAIN Q : /\ Q[n] # None /\ Q[n].trip = t
                                         /\ Q[n].tx = i /\ Q[n].amount = M[i].amount
    <3>1. x # None /\ (M[i].kind \in ChargeKinds => Ptr(x, M[i].kind) = i)
      BY <1>3, <2>2 DEF Right
    <3>2. ASSUME M[i].kind \notin ChargeKinds
          PROVE  \E n \in DOMAIN Q : /\ Q[n] # None /\ Q[n].trip = t
                                     /\ Q[n].tx = i /\ Q[n].amount = M[i].amount
      <4>1. PICK n \in DOMAIN P : P[n] # None /\ P[n].trip = t /\ P[n].tx = i /\ P[n].amount = M[i].amount
        BY <1>3, <2>2, <3>2 DEF Right
      <4>2. P[n].tx # None
        BY <4>1
      <4>3. Q[n] = P[n] /\ n \in DOMAIN Q
        BY <1>1, <4>1, <4>2
      <4> QED BY <4>1, <4>3
    <3> QED BY <3>1, <3>2
  <2>3. x # None => \A k \in ChargeKinds : Ptr(x, k) # None =>
                          M[Ptr(x, k)] # None /\ M[Ptr(x, k)].amount = Due(x, k)
    BY <1>3 DEF Right
  <2> QED BY <2>1, <2>2, <2>3, Zenon DEF Right
<1> QED BY <1>2, <1>3


-----------------------------------------------------------------------------
(* What a commit does to the books of all trips.                           *)

LEMMA Columns ==
  ASSUME Rows
  PROVE  /\ driverPay \in Payments /\ tripMoney \in Money /\ tripSoiled \subseteq tripsMade
         /\ trip \in [Trips -> TripRow \cup {None}] /\ tripsMade \subseteq Trips
         /\ \A t \in Trips : trip[t] \in TripRow \cup {None}
         /\ DOMAIN tripMoney = EntryNo /\ None \notin DOMAIN tripMoney
<1>1. Seqs /\ DOMAIN tripMoney = 1 .. Len(tripMoney) /\ tripSoiled \subseteq tripsMade
  BY RowsSeqs
<1>2. None \notin DOMAIN tripMoney
  BY <1>1, NotNone DEF Seqs
<1> QED BY <1>1, <1>2 DEF Seqs, Payments, Money, EntryNo

\* No request has half written anything.
Settled(T, P, M, S) == \A t \in Trips : Books(P, M, S, t, T[t])

\* The places where a charge is written and its trip is not.
Writing == {"weight", "arrive", "writeWeight", "mirrorWeight"}

LEMMA WantPlain ==
  ASSUME NEW x, NEW t, NEW l, NEW m, l \notin Writing \/ (l # "mirrorWeight" /\ t # m.trip)
  PROVE  Want(x, t, l, m) = x
  BY DEF Want, Writing

LEMMA SettledAt ==
  ASSUME NEW T, NEW P, NEW M, NEW S, NEW l, NEW m, l \notin Writing
  PROVE  At(T, P, M, S, l, m) <=> Settled(T, P, M, S) /\ Knows(T, P, M, S, l, m)
<1>1. \A t \in Trips : Want(T[t], t, l, m) = T[t]
  BY WantPlain
<1> QED BY <1>1 DEF At, Settled, Books

LEMMA IdleAt ==
  ASSUME NEW T, NEW P, NEW M, NEW S, NEW m
  PROVE  At(T, P, M, S, "idle", m) <=> Settled(T, P, M, S)
<1>1. "idle" \notin Writing
  BY DEF Writing
<1>2. Knows(T, P, M, S, "idle", m)
  BY DEF Knows, WithTrip, Charging
<1> QED BY <1>1, <1>2, SettledAt

\* The books only ask for the pointers of a row, what they stand for, and the freight.
LEMMA Alike ==
  ASSUME NEW P, NEW M, NEW t, NEW x, NEW y, x # None, y # None, y.agreed = x.agreed,
         \A k \in ChargeKinds : Ptr(y, k) = Ptr(x, k) /\ (Ptr(x, k) # None => Due(y, k) = Due(x, k))
  PROVE  /\ Own(P, M, t, x) => Own(P, M, t, y)
         /\ Right(P, M, t, x) => Right(P, M, t, y)
<1>1. Own(P, M, t, x) => Own(P, M, t, y)
  BY DEF Own
<1>2. ASSUME Right(P, M, t, x) PROVE Right(P, M, t, y)
  <2>1. \A k \in ChargeKinds : Ptr(y, k) # None =>
                          M[Ptr(y, k)] # None /\ M[Ptr(y, k)].amount = Due(y, k)
    BY <1>2 DEF Right
  <2>2. PaidIn(P, t) <= y.agreed
    BY <1>2 DEF Right
  <2>3. \A e \in DOMAIN M : M[e] # None /\ M[e].trip = t =>
            /\ y # None
            /\ M[e].kind \in ChargeKinds => Ptr(y, M[e].kind) = e
            /\ M[e].kind \notin ChargeKinds =>
                  \E n \in DOMAIN P : /\ P[n] # None /\ P[n].trip = t
                                      /\ P[n].tx = e /\ P[n].amount = M[e].amount
    BY <1>2 DEF Right
  <2> QED BY <2>1, <2>2, <2>3, Zenon DEF Right
<1> QED BY <1>1, <1>2

LEMMA EntryDeletedIs ==
  ASSUME Rows, NEW e, EntryDeleted(e)
  PROVE  \/ /\ Deleted(driverPay, driverPay', tripMoney, tripMoney', e)
            /\ \A t \in Trips : trip'[t] = CleanRow(trip[t], e)
         \/ /\ ~(e \in DOMAIN tripMoney /\ tripMoney[e] # None)
            /\ UNCHANGED <<trip, driverPay, tripMoney>>
<1>1. CASE e \in DOMAIN tripMoney /\ tripMoney[e] # None
  <2>1. /\ driverPay' = PaysWithout(e) /\ trip' = TripsWithout(e)
        /\ tripMoney' = [tripMoney EXCEPT ![e] = None]
    BY <1>1 DEF EntryDeleted
  <2>2. Deleted(driverPay, driverPay', tripMoney, tripMoney', e)
    BY <1>1, <2>1 DEF Deleted, PaysWithout
  <2>3. \A t \in Trips : trip'[t] = CleanRow(trip[t], e)
    BY <2>1 DEF TripsWithout, CleanRow, IsTrip
  <2> QED BY <2>2, <2>3
<1>2. CASE ~(e \in DOMAIN tripMoney /\ tripMoney[e] # None)
  BY <1>2 DEF EntryDeleted, tripRows
<1> QED BY <1>1, <1>2

LEMMA DeletedOne ==
  ASSUME Rows, NEW e, EntryDeleted(e), NEW S, NEW t \in Trips
  PROVE  /\ Own(driverPay, tripMoney, t, trip[t]) => Own(driverPay', tripMoney', t, trip'[t])
         /\ Books(driverPay, tripMoney, S, t, trip[t]) => Books(driverPay', tripMoney', S, t, trip'[t])
<1>1. driverPay \in Payments /\ tripMoney \in Money /\ trip[t] \in TripRow \cup {None}
  BY Columns
<1>2. CASE Deleted(driverPay, driverPay', tripMoney, tripMoney', e) /\ trip'[t] = CleanRow(trip[t], e)
  BY <1>1, <1>2, DeletedBooks DEF Books
<1>3. CASE UNCHANGED <<trip, driverPay, tripMoney>>
  BY <1>3
<1> QED BY <1>2, <1>3, EntryDeletedIs

LEMMA DeletedSettled ==
  ASSUME Rows, NEW e, EntryDeleted(e), UNCHANGED tripSoiled,
         Settled(trip, driverPay, tripMoney, tripSoiled)
  PROVE  Settled(trip', driverPay', tripMoney', tripSoiled')
  BY DeletedOne DEF Settled

\* An amount that is edited leaves what is pointed to.
LEMMA EditedOwn ==
  ASSUME NEW P, NEW M \in Money, NEW L, NEW e, NEW a \in Nat, TripEdited(M, L, e, a),
         NEW t, NEW x, Own(P, M, t, x)
  PROVE  Own(P, L, t, x)
<1>1. /\ DOMAIN L = DOMAIN M /\ L[e] # None /\ e \in DOMAIN M /\ M[e] # None
      /\ L[e].trip = M[e].trip /\ L[e].kind = M[e].kind
      /\ \A i \in DOMAIN M : i # e => L[i] = M[i]
  BY EditedTyped DEF TripEdited
<1>2. x # None => \A k \in ChargeKinds : Ptr(x, k) # None =>
            /\ Ptr(x, k) \in DOMAIN L
            /\ L[Ptr(x, k)] # None => L[Ptr(x, k)].trip = t /\ L[Ptr(x, k)].kind = k
  BY <1>1 DEF Own
<1>3. \A n \in DOMAIN P : P[n] # None /\ P[n].trip = t =>
            /\ x # None
            /\ P[n].tx # None => /\ P[n].tx \in DOMAIN L /\ L[P[n].tx] # None
                                 /\ L[P[n].tx].trip = t /\ L[P[n].tx].kind \notin ChargeKinds
  BY <1>1 DEF Own
<1> QED BY <1>2, <1>3, Zenon DEF Own

\* The row y of a trip whose row is x, once its charge of kind k is a, at entry p of the log.
Recharged(x, y, k, p, a) ==
    /\ y # None /\ y.agreed = x.agreed
    /\ Ptr(y, k) = p /\ (p # None => Due(y, k) = a)
    /\ \A j \in ChargeKinds \ {k} : Ptr(y, j) = Ptr(x, j) /\ Due(y, j) = Due(x, j)

\* What Charged does to the charge k of trip c: its entry is tx before, and p after.
Recharge(c, k, tx, a, p) ==
    \/ tx # None /\ a = 0 /\ p = None /\ EntryDeleted(tx)
    \/ /\ tx # None /\ p = tx /\ tripMoney[tx] # None
       /\ tripMoney' = [tripMoney EXCEPT ![tx].amount = a] /\ UNCHANGED <<trip, driverPay>>
    \/ /\ tx = None /\ p = Len(tripMoney) + 1
       /\ tripMoney' = Append(tripMoney, [trip |-> c, kind |-> k, amount |-> a])
       /\ UNCHANGED <<trip, driverPay>>
    \/ tx = None /\ p = None /\ UNCHANGED <<trip, driverPay, tripMoney>>


\* The books of the trip c agree with any row y that says of the charge what was written.
LEMMA ChargeBooks ==
  ASSUME Rows, NEW c \in Trips, NEW k \in ChargeKinds, NEW tx \in Nat \cup {None}, NEW a \in Nat, NEW p,
         Recharge(c, k, tx, a, p), NEW S, trip[c] # None,
         \A t \in Trips : Own(driverPay, tripMoney, t, trip[t]),
         \A t \in Trips \ {c} : Books(driverPay, tripMoney, S, t, trip[t]),
         NEW x \in TripRow, Books(driverPay, tripMoney, S, c, x), Ptr(x, k) = tx
  PROVE  /\ \A t \in Trips : Own(driverPay', tripMoney', t, trip'[t])
         /\ \A t \in Trips \ {c} : Books(driverPay', tripMoney', S, t, trip'[t])
         /\ trip'[c] \in TripRow /\ trip'[c].agreed = trip[c].agreed
         /\ \A j \in ChargeKinds \ {k} :
                Ptr(trip'[c], j) = Ptr(trip[c], j) /\ Due(trip'[c], j) = Due(trip[c], j)
         /\ tx = None => trip' = trip
         /\ \A y : Recharged(x, y, k, p, a) => Books(driverPay', tripMoney', S, c, y)
<1>1. /\ driverPay \in Payments /\ tripMoney \in Money /\ trip[c] \in TripRow /\ x # None
      /\ \A t \in Trips : trip[t] \in TripRow \cup {None}
  BY Columns, NotNone
<1>2. Own(driverPay, tripMoney, c, x)
  BY DEF Books
<1>3. ASSUME tx # None
      PROVE  /\ tx \in DOMAIN tripMoney
             /\ tripMoney[tx] # None => tripMoney[tx].trip = c /\ tripMoney[tx].kind = k
             /\ tripMoney[tx] # None => \A j \in ChargeKinds \ {k} : Ptr(x, j) # tx /\ Ptr(trip[c], j) # tx
             /\ c \notin S => tripMoney[tx] # None
  <2>1. /\ tx \in DOMAIN tripMoney
        /\ tripMoney[tx] # None => tripMoney[tx].trip = c /\ tripMoney[tx].kind = k
    BY <1>1, <1>2, <1>3 DEF Own
  <2>2. ASSUME tripMoney[tx] # None, NEW j \in ChargeKinds \ {k}
        PROVE  Ptr(x, j) # tx /\ Ptr(trip[c], j) # tx
    <3>1. Ptr(x, j) # tx
      BY <1>1, <1>2, <1>3, <2>1, <2>2 DEF Own
    <3>2. Own(driverPay, tripMoney, c, trip[c])
      OBVIOUS
    <3>3. Ptr(trip[c], j) # tx
      BY <1>3, <2>1, <2>2, <3>2 DEF Own
    <3> QED BY <3>1, <3>3
  <2>3. c \notin S => tripMoney[tx] # None
    BY <1>1, <1>3 DEF Books, Right
  <2> QED BY <2>1, <2>2, <2>3
<1>4. CASE tx # None /\ a = 0 /\ p = None /\ EntryDeleted(tx) /\ tripMoney[tx] # None
  <2>1. /\ Deleted(driverPay, driverPay', tripMoney, tripMoney', tx)
        /\ \A t \in Trips : trip'[t] = CleanRow(trip[t], tx)
    BY <1>3, <1>4, EntryDeletedIs
  <2>2. /\ \A t \in Trips : Own(driverPay', tripMoney', t, trip'[t])
        /\ \A t \in Trips \ {c} : Books(driverPay', tripMoney', S, t, trip'[t])
    BY <1>4, DeletedOne
  <2>3. /\ trip'[c] \in TripRow /\ trip'[c].agreed = trip[c].agreed
        /\ \A j \in ChargeKinds \ {k} :
                Ptr(trip'[c], j) = Ptr(trip[c], j) /\ Due(trip'[c], j) = Due(trip[c], j)
    BY <1>1, <1>3, <1>4, <2>1, CleanIs
  <2>4. ASSUME NEW y, Recharged(x, y, k, p, a) PROVE Books(driverPay', tripMoney', S, c, y)
    <3>1. PICK z : z = CleanRow(x, tx)
      OBVIOUS
    <3>2. /\ Own(driverPay', tripMoney', c, z)
          /\ Right(driverPay, tripMoney, c, x) => Right(driverPay', tripMoney', c, z)
      BY <1>1, <1>2, <2>1, <3>1, DeletedBooks
    <3>3. /\ z # None /\ y # None /\ y.agreed = z.agreed
          /\ \A j \in ChargeKinds : Ptr(y, j) = Ptr(z, j) /\ (Ptr(z, j) # None => Due(y, j) = Due(z, j))
      <4>1. /\ z \in TripRow /\ z.agreed = x.agreed /\ Ptr(z, k) = None
            /\ \A j \in ChargeKinds \ {k} : Ptr(z, j) = Ptr(x, j) /\ Due(z, j) = Due(x, j)
        BY <1>3, <1>4, <3>1, CleanIs
      <4> QED BY <1>4, <2>4, <4>1, NotNone DEF Recharged
    <3>4. /\ Own(driverPay', tripMoney', c, y)
          /\ Right(driverPay', tripMoney', c, z) => Right(driverPay', tripMoney', c, y)
      BY <3>2, <3>3, Alike
    <3> QED BY <3>2, <3>4 DEF Books
  <2> QED BY <1>4, <2>2, <2>3, <2>4
<1>5. CASE tx # None /\ a = 0 /\ p = None /\ EntryDeleted(tx) /\ tripMoney[tx] = None
  <2>1. UNCHANGED <<trip, driverPay, tripMoney>> /\ c \in S
    BY <1>3, <1>5, EntryDeletedIs DEF Deleted
  <2>2. ASSUME NEW y, Recharged(x, y, k, p, a) PROVE Books(driverPay', tripMoney', S, c, y)
    <3>1. y # None /\ \A j \in ChargeKinds : Ptr(y, j) # None => Ptr(y, j) = Ptr(x, j)
      BY <1>5, <2>2 DEF Recharged
    <3>2. Own(driverPay, tripMoney, c, y)
      BY <1>1, <1>2, <3>1 DEF Own
    <3> QED BY <2>1, <3>2 DEF Books
  <2> QED BY <1>1, <1>5, <2>1, <2>2
<1>6. CASE /\ tx # None /\ p = tx /\ tripMoney[tx] # None
           /\ tripMoney' = [tripMoney EXCEPT ![tx].amount = a] /\ UNCHANGED <<trip, driverPay>>
  <2>1. TripEdited(tripMoney, tripMoney', tx, a) /\ tripMoney[tx].trip = c /\ tripMoney[tx].kind = k
    BY <1>3, <1>6 DEF TripEdited
  <2>2. \A t \in Trips : Own(driverPay', tripMoney', t, trip'[t])
    BY <1>1, <1>6, <2>1, EditedOwn
  <2>3. ASSUME NEW t \in Trips \ {c} PROVE Books(driverPay', tripMoney', S, t, trip'[t])
    <3>1. PICK z : z = trip[t]
      OBVIOUS
    <3>2. Own(driverPay, tripMoney, t, z) /\ (t \notin S => Right(driverPay, tripMoney, t, z))
      BY <2>3, <3>1 DEF Books
    <3>3. /\ z # None => /\ z.agreed = z.agreed
                         /\ \A j \in ChargeKinds :
                              /\ Ptr(z, j) = Ptr(z, j)
                              /\ Due(z, j) = IF Ptr(z, j) = tx /\ tripMoney[tx].trip = t THEN a ELSE Due(z, j)
          /\ tripMoney[tx].trip # t
      BY <2>1, <2>3
    <3>4. /\ Own(driverPay, tripMoney', t, z)
          /\ Right(driverPay, tripMoney, t, z) => Right(driverPay, tripMoney', t, z)
      <4>1. PICK y : y = z
        OBVIOUS
      <4>2. /\ Own(driverPay, tripMoney', t, y)
            /\ Right(driverPay, tripMoney, t, z) => Right(driverPay, tripMoney', t, y)
        BY <1>1, <2>1, <3>2, <3>3, <4>1, EditedBooks
      <4> QED BY <4>1, <4>2
    <3> QED BY <1>6, <3>1, <3>2, <3>4 DEF Books
  <2>4. ASSUME NEW y, Recharged(x, y, k, p, a) PROVE Books(driverPay', tripMoney', S, c, y)
    <3>1. y # None /\ y.agreed = x.agreed
      BY <2>4 DEF Recharged
    <3>2. \A j \in ChargeKinds : /\ Ptr(y, j) = Ptr(x, j)
                                 /\ Due(y, j) = IF Ptr(x, j) = tx /\ tripMoney[tx].trip = c THEN a ELSE Due(x, j)
      BY <1>3, <1>6, <2>1, <2>4 DEF Recharged
    <3>3. /\ Own(driverPay, tripMoney', c, y)
          /\ Right(driverPay, tripMoney, c, x) => Right(driverPay, tripMoney', c, y)
      BY <1>1, <1>2, <2>1, <3>1, <3>2, EditedBooks
    <3> QED BY <1>6, <3>3 DEF Books
  <2> QED BY <1>1, <1>6, <2>2, <2>3, <2>4
<1>7. CASE /\ tx = None /\ p = Len(tripMoney) + 1
           /\ tripMoney' = Append(tripMoney, [trip |-> c, kind |-> k, amount |-> a])
           /\ UNCHANGED <<trip, driverPay>>
  <2>1. PICK entry : entry = [trip |-> c, kind |-> k, amount |-> a]
    OBVIOUS
  <2>2. /\ entry \in TripEntry /\ entry.kind = k /\ entry.trip = c /\ entry.amount = a
        /\ entry.kind \in ChargeKinds /\ tripMoney' = Append(tripMoney, entry)
    BY <1>7, <2>1 DEF TripEntry, ChargeKinds
  <2>3. \A t \in Trips : Own(driverPay', tripMoney', t, trip'[t])
    BY <1>1, <1>7, <2>2, MadeBooks
  <2>4. \A t \in Trips \ {c} : Books(driverPay', tripMoney', S, t, trip'[t])
    BY <1>1, <1>7, <2>2, MadeBooks DEF Books
  <2>5. ASSUME NEW y, Recharged(x, y, k, p, a) PROVE Books(driverPay', tripMoney', S, c, y)
    <3>1. Len(tripMoney) \in Nat /\ p # None
      BY <1>7, RowsSeqs, NotNone
    <3>2. /\ y # None /\ y.agreed = x.agreed /\ Ptr(y, k) = Len(tripMoney) + 1 /\ Due(y, k) = a
          /\ \A j \in ChargeKinds \ {k} : Ptr(y, j) = Ptr(x, j) /\ Due(y, j) = Due(x, j)
      BY <1>7, <2>5, <3>1 DEF Recharged
    <3>3. /\ Own(driverPay, tripMoney', c, y)
          /\ Right(driverPay, tripMoney, c, x) => Right(driverPay, tripMoney', c, y)
      <4>1. \A z : /\ c = entry.trip /\ x # None /\ z # None /\ z.agreed = x.agreed
                   /\ Ptr(z, entry.kind) = Len(tripMoney) + 1 /\ Due(z, entry.kind) = entry.amount
                   /\ Ptr(x, entry.kind) = None
                   /\ \A j \in ChargeKinds \ {entry.kind} : Ptr(z, j) = Ptr(x, j) /\ Due(z, j) = Due(x, j)
                   => /\ Own(driverPay, tripMoney', c, z)
                      /\ Right(driverPay, tripMoney, c, x) => Right(driverPay, tripMoney', c, z)
        BY <1>1, <1>2, <2>2, MadeBooks, ZenonT(30)
      <4>2. /\ c = entry.trip /\ x # None /\ Ptr(x, entry.kind) = None
            /\ Ptr(y, entry.kind) = Len(tripMoney) + 1 /\ Due(y, entry.kind) = entry.amount
            /\ \A j \in ChargeKinds \ {entry.kind} : Ptr(y, j) = Ptr(x, j) /\ Due(y, j) = Due(x, j)
        BY <1>1, <1>7, <2>2, <3>2
      <4> QED BY <3>2, <4>1, <4>2
    <3> QED BY <1>7, <3>3 DEF Books
  <2> QED BY <1>1, <1>7, <2>3, <2>4, <2>5
<1>8. CASE tx = None /\ p = None /\ UNCHANGED <<trip, driverPay, tripMoney>>
  <2>1. ASSUME NEW y, Recharged(x, y, k, p, a) PROVE Books(driverPay', tripMoney', S, c, y)
    <3>1. /\ y # None /\ y.agreed = x.agreed
          /\ \A j \in ChargeKinds : Ptr(y, j) = Ptr(x, j) /\ (Ptr(x, j) # None => Due(y, j) = Due(x, j))
      BY <1>8, <2>1 DEF Recharged
    <3>2. /\ Own(driverPay, tripMoney, c, x) => Own(driverPay, tripMoney, c, y)
          /\ Right(driverPay, tripMoney, c, x) => Right(driverPay, tripMoney, c, y)
      BY <1>1, <3>1, Alike
    <3> QED BY <1>8, <3>2 DEF Books
  <2> QED BY <1>1, <1>8, <2>1
<1> QED BY <1>4, <1>5, <1>6, <1>7, <1>8 DEF Recharge


-----------------------------------------------------------------------------
(* The actions of a request that is alone.                                 *)

Now == Settled(trip, driverPay, tripMoney, tripSoiled)
Here(r) == At(trip, driverPay, tripMoney, tripSoiled, tripPc[r], tripMem[r])

LEMMA Went ==
  ASSUME LocalsOK, NEW r \in Requests, NEW l, NEW m, TripGoto(r, l), TripRemember(r, m)
  PROVE  tripPc'[r] = l /\ tripMem'[r] = m
  BY DEF LocalsOK, TripGoto, TripRemember

LEMMA EndsHere ==
  ASSUME LocalsOK, NEW r \in Requests, TripEnd(r), Now'
  PROVE  Here(r)'
<1>1. tripPc'[r] = "idle"
  BY DEF LocalsOK, TripEnd, TripGoto
<1>2. Settled(trip', driverPay', tripMoney', tripSoiled')
  BY DEF Now
<1>3. At(trip', driverPay', tripMoney', tripSoiled', "idle", tripMem'[r])
  BY <1>2, IdleAt
<1> QED BY <1>1, <1>3 DEF Here

\* A request goes to a place where nothing is half written.
LEMMA PlainHere ==
  ASSUME NEW r, NEW l, NEW m, l \notin Writing, tripPc'[r] = l, tripMem'[r] = m, Now',
         Knows(trip', driverPay', tripMoney', tripSoiled', l, m)
  PROVE  Here(r)'
<1>1. Settled(trip', driverPay', tripMoney', tripSoiled')
  BY DEF Now
<1>2. At(trip', driverPay', tripMoney', tripSoiled', l, m)
  BY <1>1, SettledAt
<1> QED BY <1>2 DEF Here

LEMMA BegunHere ==
  ASSUME LocalsOK, NEW r \in Requests, NEW l, NEW m, l \notin Writing, TripGoto(r, l), TripRemember(r, m),
         UNCHANGED <<tripRows, tripSoiled>>, Now,
         Knows(trip, driverPay, tripMoney, tripSoiled, l, m)
  PROVE  Here(r)'
<1>1. UNCHANGED <<trip, driverPay, tripMoney, tripSoiled>>
  BY DEF tripRows
<1>2. Now' /\ Knows(trip', driverPay', tripMoney', tripSoiled', l, m)
  BY <1>1 DEF Now
<1>3. tripPc'[r] = l /\ tripMem'[r] = m
  BY Went
<1> QED BY <1>2, <1>3, PlainHere

LEMMA PlainNow ==
  ASSUME NEW r, Here(r), tripPc[r] \notin Writing
  PROVE  Now /\ Knows(trip, driverPay, tripMoney, tripSoiled, tripPc[r], tripMem[r])
  BY SettledAt DEF Here, Now

LEMMA BeginPayHere ==
  ASSUME IInv, Now, NEW r \in Requests, NEW t \in Trips, NEW kind \in PayKinds, NEW amount \in TripAmounts,
         NEW source \in Sources, NEW bundled, BeginPayDriver(r, t, kind, amount, source, bundled)
  PROVE  Here(r)'
<1>1. PICK m : m = [TripBlank EXCEPT !.trip = t, !.kind = kind, !.amount = amount,
                                     !.source = source, !.extra = bundled]
  OBVIOUS
<1>2. /\ TripGoto(r, "pay") /\ TripRemember(r, m) /\ UNCHANGED <<tripRows, tripSoiled>>
      /\ IsTrip(t) /\ amount <= Owed(t, kind, amount)
      /\ m.trip = t /\ m.kind = kind /\ m.amount = amount
  BY <1>1 DEF BeginPayDriver, TripBlank
<1>3. "pay" \notin Writing /\ LocalsOK
  BY DEF Writing, IInv
<1>4. kind = "freight" => PaidIn(driverPay, t) + amount <= trip[t].agreed
  <2>1. kind = "freight" => amount <= trip[t].agreed - PaidIn(driverPay, t)
    BY <1>2, PaidToIs DEF Owed
  <2>2. amount \in Nat /\ PaidIn(driverPay, t) \in Nat /\ trip[t].agreed \in Nat
    <3>1. trip[t] \in TripRow /\ driverPay \in Payments
      BY <1>2, TripIsMade, Columns DEF IInv
    <3> QED BY <3>1, Numbers, FreightType DEF TripRow
  <2> QED BY <2>1, <2>2
<1>5. Knows(trip, driverPay, tripMoney, tripSoiled, "pay", m)
  BY <1>2, <1>4 DEF Knows, IsTrip
<1> QED BY <1>2, <1>3, <1>5, BegunHere

LEMMA BeginUnpayHere ==
  ASSUME IInv, Now, NEW r \in Requests, NEW n, BeginUnpay(r, n)
  PROVE  Here(r)'
<1>1. PICK m : m = [TripBlank EXCEPT !.pay = n]
  OBVIOUS
<1>2. TripGoto(r, "unpay") /\ TripRemember(r, m) /\ UNCHANGED <<tripRows, tripSoiled>>
  BY <1>1 DEF BeginUnpay
<1>3. "unpay" \notin Writing /\ LocalsOK
  BY DEF Writing, IInv
<1>4. Knows(trip, driverPay, tripMoney, tripSoiled, "unpay", m)
  BY DEF Knows, WithTrip, Charging
<1> QED BY <1>2, <1>3, <1>4, BegunHere

LEMMA BeginChargeHere ==
  ASSUME IInv, Now, NEW r \in Requests, NEW t \in Trips,
         \/ \E late \in LateDays, weight \in TripAmounts \cup {0, None} : BeginArrival(r, t, late, weight)
         \/ \E amount \in TripAmounts \cup {0} : BeginWeight(r, t, amount)
  PROVE  Here(r)'
<1>1. PICK l, m : /\ TripGoto(r, l) /\ TripRemember(r, m) /\ UNCHANGED <<tripRows, tripSoiled>>
                  /\ IsTrip(t) /\ l \in {"delay", "reweigh"}
                  /\ m.trip = t /\ m.row = trip[t]
  <2>1. CASE \E late \in LateDays, weight \in TripAmounts \cup {0, None} : BeginArrival(r, t, late, weight)
    <3>1. PICK late \in LateDays, weight \in TripAmounts \cup {0, None} : BeginArrival(r, t, late, weight)
      BY <2>1
    <3>2. PICK m : m = [TripBlank EXCEPT !.trip = t, !.row = trip[t], !.fee = DelayFee(late),
                            !.amount = IF weight = None THEN trip[t].weight ELSE weight]
      OBVIOUS
    <3>3. m.trip = t /\ m.row = trip[t]
      BY <3>2 DEF TripBlank
    <3> QED BY <3>1, <3>2, <3>3 DEF BeginArrival
  <2>2. CASE \E amount \in TripAmounts \cup {0} : BeginWeight(r, t, amount)
    <3>1. PICK amount \in TripAmounts \cup {0} : BeginWeight(r, t, amount)
      BY <2>2
    <3>2. PICK m : m = [TripBlank EXCEPT !.trip = t, !.row = trip[t], !.amount = amount]
      OBVIOUS
    <3>3. m.trip = t /\ m.row = trip[t]
      BY <3>2 DEF TripBlank
    <3> QED BY <3>1, <3>2, <3>3 DEF BeginWeight
  <2> QED BY <2>1, <2>2
<1>2. l \notin Writing /\ LocalsOK
  BY <1>1 DEF Writing, IInv
<1>3. Knows(trip, driverPay, tripMoney, tripSoiled, l, m)
  BY <1>1 DEF Knows, IsTrip
<1> QED BY <1>1, <1>2, <1>3, BegunHere

LEMMA BeginRemoveHere ==
  ASSUME IInv, Now, NEW r \in Requests, NEW t \in Trips, BeginRemoveTrip(r, t)
  PROVE  Here(r)'
<1>1. PICK m : m = [TripBlank EXCEPT !.trip = t, !.todo = EntriesOf(t)]
  OBVIOUS
<1>2. /\ TripGoto(r, "removeEntries") /\ TripRemember(r, m) /\ UNCHANGED <<tripRows, tripSoiled>>
      /\ IsTrip(t) /\ m.trip = t /\ m.todo = EntriesOf(t)
  BY <1>1 DEF BeginRemoveTrip, TripBlank
<1>3. "removeEntries" \notin Writing /\ LocalsOK
  BY DEF Writing, IInv
<1>4. ASSUME t \notin tripSoiled, NEW e \in DOMAIN tripMoney, tripMoney[e] # None, tripMoney[e].trip = t
      PROVE  e \in EntriesOf(t)
  <2>1. Right(driverPay, tripMoney, t, trip[t]) /\ e # None
    BY <1>4, Columns DEF Now, Settled, Books, IInv
  <2>2. CASE tripMoney[e].kind \in ChargeKinds
    <3>1. Ptr(trip[t], tripMoney[e].kind) = e
      BY <1>4, <2>1, <2>2 DEF Right
    <3> QED BY <2>1, <3>1 DEF Ptr, EntriesOf
  <2>3. CASE tripMoney[e].kind \notin ChargeKinds
    <3>1. PICK n \in DOMAIN driverPay : driverPay[n] # None /\ driverPay[n].trip = t /\ driverPay[n].tx = e
      BY <1>4, <2>1, <2>3 DEF Right
    <3> QED BY <2>1, <3>1 DEF EntriesOf, PaysOf
  <2> QED BY <2>2, <2>3
<1>5. Knows(trip, driverPay, tripMoney, tripSoiled, "removeEntries", m)
  BY <1>2, <1>4 DEF Knows, IsTrip
<1> QED BY <1>2, <1>3, <1>5, BegunHere

LEMMA UpdateHere ==
  ASSUME IInv, Now, NEW r \in Requests, tripPc[r] = "idle", NEW t \in Trips, NEW agreed \in Freights,
         NEW client \in BOOLEAN, UpdateTrip(r, t, agreed, client)
  PROVE  Here(r)'
<1>1. /\ IsTrip(t) /\ trip' = [trip EXCEPT ![t].agreed = agreed, ![t].client = client]
      /\ tripSoiled' = IF agreed < PaidTo(t, {"freight"}) THEN tripSoiled \cup {t} ELSE tripSoiled
      /\ UNCHANGED <<driverPay, tripMoney, tripPc, tripMem>>
  BY DEF UpdateTrip
<1>2. PICK x, y : x = trip[t] /\ y = [x EXCEPT !.agreed = agreed, !.client = client]
  OBVIOUS
<1>3. trip \in [Trips -> TripRow \cup {None}] /\ x \in TripRow /\ driverPay \in Payments /\ agreed \in Nat
  BY <1>1, <1>2, TripIsMade, Columns, Numbers DEF IInv
<1>4. trip'[t] = y /\ \A u \in Trips \ {t} : trip'[u] = trip[u]
  BY <1>1, <1>2, <1>3
<1>5. /\ x # None /\ y # None /\ y.agreed = agreed
      /\ \A k \in ChargeKinds : Ptr(y, k) = Ptr(x, k) /\ Due(y, k) = Due(x, k)
  <2>1. y \in TripRow
    BY <1>2, <1>3 DEF TripRow
  <2>2. y.agreed = agreed /\ y.delayTx = x.delayTx /\ y.fee = x.fee /\ y.weightTx = x.weightTx
        /\ y.weight = x.weight
    BY <1>2, <1>3 DEF TripRow
  <2> QED BY <1>3, <2>1, <2>2, NotNone DEF Ptr, Due
<1>6. Own(driverPay, tripMoney, t, x) /\ (t \notin tripSoiled => Right(driverPay, tripMoney, t, x))
  BY <1>2 DEF Now, Settled, Books
<1>7. Own(driverPay, tripMoney, t, y)
  BY <1>5, <1>6 DEF Own
<1>8. ASSUME t \notin tripSoiled' PROVE Right(driverPay, tripMoney, t, y)
  <2>1. Right(driverPay, tripMoney, t, x) /\ ~(agreed < PaidIn(driverPay, t))
    BY <1>1, <1>6, <1>8, PaidToIs
  <2>2. PaidIn(driverPay, t) <= y.agreed
    BY <1>3, <1>5, <2>1, FreightType
  <2>3. \A k \in ChargeKinds : Ptr(y, k) # None =>
             tripMoney[Ptr(y, k)] # None /\ tripMoney[Ptr(y, k)].amount = Due(y, k)
    BY <1>5, <2>1 DEF Right
  <2>4. \A e \in DOMAIN tripMoney : tripMoney[e] # None /\ tripMoney[e].trip = t =>
            /\ y # None
            /\ tripMoney[e].kind \in ChargeKinds => Ptr(y, tripMoney[e].kind) = e
            /\ tripMoney[e].kind \notin ChargeKinds =>
                  \E n \in DOMAIN driverPay :
                     /\ driverPay[n] # None /\ driverPay[n].trip = t
                     /\ driverPay[n].tx = e /\ driverPay[n].amount = tripMoney[e].amount
    BY <1>5, <2>1 DEF Right
  <2> QED BY <2>2, <2>3, <2>4, Zenon DEF Right
<1>9. Now'
  <2>1. Books(driverPay, tripMoney, tripSoiled', t, y)
    BY <1>7, <1>8 DEF Books
  <2>2. \A u \in Trips \ {t} : Books(driverPay, tripMoney, tripSoiled', u, trip[u])
    BY <1>1 DEF Now, Settled, Books
  <2> QED BY <1>1, <1>4, <2>1, <2>2 DEF Now, Settled
<1>10. At(trip', driverPay', tripMoney', tripSoiled', "idle", tripMem'[r])
  BY <1>9, IdleAt DEF Now
<1> QED BY <1>1, <1>10 DEF Here

LEMMA CreateHere ==
  ASSUME IInv, Now, NEW r \in Requests, NEW t \in Trips, NEW agreed \in Freights,
         NEW client \in BOOLEAN, NEW first \in TripAmounts \cup {0},
         NEW tea \in TripAmounts \cup {0}, CreateTrip(r, t, agreed, client, first, tea, "cash")
  PROVE  Here(r)'
<1>1. PICK y : y = [client |-> client, agreed |-> agreed, arrived |-> FALSE,
                    delayTx |-> None, fee |-> 0, weightTx |-> None, weight |-> 0]
  OBVIOUS
<1>2. PICK l : l = IF first > 0 THEN "payFirst" ELSE IF tea > 0 THEN "payTea" ELSE "idle"
  OBVIOUS
<1>3. PICK m : m = IF first + tea = 0 THEN TripBlank
                   ELSE [TripBlank EXCEPT !.trip = t, !.amount = first, !.fee = agreed,
                                          !.extra = tea, !.source = "cash"]
  OBVIOUS
<1>4. /\ t \notin tripsMade /\ trip' = [trip EXCEPT ![t] = y]
      /\ TripGoto(r, l) /\ TripRemember(r, m) /\ UNCHANGED <<driverPay, tripMoney, tripSoiled>>
  BY <1>1, <1>2, <1>3 DEF CreateTrip
<1>5. /\ trip \in [Trips -> TripRow \cup {None}] /\ driverPay \in Payments
      /\ tripMoney \in Money /\ agreed \in Nat /\ first \in Nat /\ tea \in Nat
  BY Columns, Numbers DEF IInv
<1>6. trip[t] = None /\ t \notin tripSoiled
  BY <1>4, Columns DEF IInv, Rows, EntriesKnown, IsTrip
<1>7. /\ trip'[t] = y /\ \A u \in Trips \ {t} : trip'[u] = trip[u]
      /\ y # None /\ y.agreed = agreed /\ \A k \in ChargeKinds : Ptr(y, k) = None
  <2>1. y \in TripRow
    BY <1>1, <1>5 DEF TripRow
  <2> QED BY <1>1, <1>4, <1>5, <2>1, NotNone DEF Ptr
<1>8. Own(driverPay, tripMoney, t, None) /\ Right(driverPay, tripMoney, t, None)
  BY <1>6 DEF Now, Settled, Books
<1>9. /\ \A n \in DOMAIN driverPay : ~(driverPay[n] # None /\ driverPay[n].trip = t)
      /\ \A e \in DOMAIN tripMoney : ~(tripMoney[e] # None /\ tripMoney[e].trip = t)
  BY <1>8 DEF Own, Right
<1>10. PaidIn(driverPay, t) = 0
  <2>1. FreightIn(driverPay, t) = {}
    BY <1>9 DEF FreightIn
  <2> QED BY <2>1, AmountsNone DEF PaidIn
<1>11. Own(driverPay, tripMoney, t, y)
  BY <1>7, <1>9 DEF Own
<1>12. Right(driverPay, tripMoney, t, y)
  <2>1. PaidIn(driverPay, t) <= y.agreed
    BY <1>5, <1>7, <1>10
  <2> QED BY <1>7, <1>9, <2>1 DEF Right
<1>13. Now'
  BY <1>4, <1>7, <1>11, <1>12 DEF Now, Settled, Books
<1>14. l \notin Writing /\ l \in {"payFirst", "payTea", "idle"} /\ (l # "idle" => first + tea # 0)
  BY <1>2, <1>5 DEF Writing
<1>15. l # "idle" => m.trip = t /\ m.fee = agreed
  BY <1>3, <1>14 DEF TripBlank
<1>16. Knows(trip', driverPay', tripMoney', tripSoiled', l, m)
  BY <1>4, <1>7, <1>10, <1>14, <1>15 DEF Knows, WithTrip, Charging
<1>17. tripPc'[r] = l /\ tripMem'[r] = m
  BY <1>4, Went DEF IInv
<1> QED BY <1>13, <1>14, <1>16, <1>17, PlainHere


-----------------------------------------------------------------------------
(* Payments: what was read before still limits the new one.                *)

LEMMA AddedNow ==
  ASSUME Rows, Now, UNCHANGED tripSoiled, NEW c \in Trips, NEW kind \in PayKinds \cup {"tea"},
         NEW amount \in Nat, NEW source \in Sources, AddedPayment(c, kind, amount, source),
         kind = "freight" => PaidIn(driverPay, c) + amount <= trip[c].agreed
  PROVE  Now' /\ trip' = trip /\ trip[c] # None
<1>1. PICK tx, row : /\ tx = (IF source # "none" THEN Len(tripMoney) + 1 ELSE None)
                     /\ row = [trip |-> c, kind |-> kind, amount |-> amount, tx |-> tx]
  OBVIOUS
<1>2. /\ trip[c] # None /\ UNCHANGED trip
      /\ tripMoney' = IF source # "none"
                      THEN Append(tripMoney, [trip |-> c, kind |-> source, amount |-> amount])
                      ELSE tripMoney
      /\ driverPay' = Append(driverPay, row)
  BY <1>1 DEF AddedPayment, IsTrip
<1>3. /\ driverPay \in Payments /\ tripMoney \in Money /\ Len(tripMoney) \in Nat
      /\ \A t \in Trips : trip[t] \in TripRow \cup {None}
  BY Columns DEF Money
<1>4. row \in PayRow /\ row.trip = c /\ row.kind = kind /\ row.amount = amount /\ row.tx = tx
  BY <1>1, <1>3 DEF PayRow
<1>5. Paid(driverPay, driverPay', tripMoney, tripMoney', row)
  <2>1. CASE source = "none"
    BY <1>1, <1>2, <1>4, <2>1 DEF Paid
  <2>2. CASE source # "none"
    <3>1. source \in {"cash", "supplier"}
      BY <2>2 DEF Sources
    <3>2. /\ row.tx = Len(tripMoney) + 1
          /\ tripMoney' = Append(tripMoney, [trip |-> row.trip, kind |-> source, amount |-> row.amount])
      BY <1>1, <1>2, <1>4, <2>2
    <3> QED BY <1>2, <3>1, <3>2 DEF Paid
  <2> QED BY <2>1, <2>2
<1>6. ASSUME NEW t \in Trips PROVE Books(driverPay', tripMoney', tripSoiled', t, trip'[t])
  <2>1. PICK x \in TripRow \cup {None} : x = trip[t]
    BY <1>3
  <2>2. /\ Own(driverPay, tripMoney, t, x) /\ (t \notin tripSoiled => Right(driverPay, tripMoney, t, x))
        /\ row.trip = t => x # None
        /\ row.trip = t /\ row.kind = "freight" => PaidIn(driverPay, t) + row.amount <= x.agreed
    BY <1>2, <1>4, <2>1 DEF Now, Settled, Books
  <2>3. Own(driverPay', tripMoney', t, x) /\ (t \notin tripSoiled => Right(driverPay', tripMoney', t, x))
    BY <1>3, <1>4, <1>5, <2>2, PaidBooks
  <2> QED BY <1>2, <2>1, <2>3 DEF Books
<1> QED BY <1>2, <1>6 DEF Now, Settled

LEMMA PaidHere ==
  ASSUME IInv, NEW r \in Requests, Here(r), tripPc[r] \in {"payFirst", "payTea", "pay", "payBundled"},
         UNCHANGED tripSoiled, NEW kind \in PayKinds \cup {"tea"}, NEW amount \in Nat,
         AddedPayment(tripMem[r].trip, kind, amount, tripMem[r].source),
         kind = "freight" => PaidIn(driverPay, tripMem[r].trip) + amount <= trip[tripMem[r].trip].agreed,
         NEW l \in {"payTea", "payBundled"},
         \/ TripEnd(r)
         \/ TripGoto(r, l) /\ UNCHANGED tripMem
  PROVE  Here(r)'
<1>1. Now
  BY PlainNow DEF Writing
<1>2. /\ tripMem[r].trip \in Trips /\ tripMem[r].source \in Sources /\ LocalsOK /\ Rows
  BY Same, RowsSeqs DEF IInv, LocalsOK, Local, TripLocal, WithTrip, Seqs
<1>3. Now' /\ trip' = trip /\ trip[tripMem[r].trip] # None
  BY <1>1, <1>2, AddedNow
<1>4. CASE TripEnd(r)
  BY <1>2, <1>3, <1>4, EndsHere
<1>5. CASE TripGoto(r, l) /\ UNCHANGED tripMem
  <2>1. PICK m : m = tripMem[r]
    OBVIOUS
  <2>2. tripPc'[r] = l /\ tripMem'[r] = m /\ l \notin Writing
    BY <1>2, <1>5, <2>1 DEF LocalsOK, TripGoto, Writing
  <2>3. Knows(trip', driverPay', tripMoney', tripSoiled', l, m)
    BY <1>3, <2>1 DEF Knows
  <2> QED BY <1>3, <2>2, <2>3, PlainHere
<1> QED BY <1>4, <1>5

LEMMA PayHere ==
  ASSUME IInv, NEW r \in Requests, Here(r), PayFirst(r) \/ PayTea(r) \/ PayDriver(r) \/ PayBundled(r)
  PROVE  Here(r)'
<1>1. /\ tripMem[r].amount \in Nat /\ tripMem[r].extra \in Nat /\ tripMem[r].kind \in PayKinds
  BY Same DEF IInv, TripLocal
<1>2. tripPc[r] \notin Writing => Knows(trip, driverPay, tripMoney, tripSoiled, tripPc[r], tripMem[r])
  BY PlainNow
<1>3. CASE PayFirst(r)
  <2>1. /\ tripPc[r] = "payFirst" /\ UNCHANGED tripSoiled /\ tripMem[r].amount <= tripMem[r].fee
        /\ AddedPayment(tripMem[r].trip, "freight", tripMem[r].amount, tripMem[r].source)
        /\ TripEnd(r) \/ (TripGoto(r, "payTea") /\ UNCHANGED tripMem)
    BY <1>3 DEF PayFirst
  <2>2. PaidIn(driverPay, tripMem[r].trip) = 0 /\ trip[tripMem[r].trip].agreed = tripMem[r].fee
    BY <1>2, <2>1 DEF Knows, Writing
  <2>3. PaidIn(driverPay, tripMem[r].trip) + tripMem[r].amount <= trip[tripMem[r].trip].agreed
    BY <1>1, <2>1, <2>2
  <2> QED BY <2>1, <2>3, <1>1, PaidHere DEF PayKinds
<1>4. CASE PayTea(r)
  <2>1. /\ tripPc[r] = "payTea" /\ UNCHANGED tripSoiled
        /\ AddedPayment(tripMem[r].trip, "tea", tripMem[r].extra, tripMem[r].source)
        /\ TripEnd(r)
    BY <1>4 DEF PayTea
  <2> QED BY <2>1, <1>1, PaidHere
<1>5. CASE PayDriver(r)
  <2>1. /\ tripPc[r] = "pay" /\ UNCHANGED tripSoiled
        /\ AddedPayment(tripMem[r].trip, tripMem[r].kind, tripMem[r].amount, tripMem[r].source)
        /\ TripEnd(r) \/ (TripGoto(r, "payBundled") /\ UNCHANGED tripMem)
    BY <1>5 DEF PayDriver
  <2>2. tripMem[r].kind = "freight" =>
            PaidIn(driverPay, tripMem[r].trip) + tripMem[r].amount <= trip[tripMem[r].trip].agreed
    BY <1>2, <2>1 DEF Knows, Writing
  <2> QED BY <2>1, <2>2, <1>1, PaidHere
<1>6. CASE PayBundled(r)
  <2>1. /\ tripPc[r] = "payBundled" /\ UNCHANGED tripSoiled
        /\ AddedPayment(tripMem[r].trip, "weightDiff", tripMem[r].extra, tripMem[r].source)
        /\ TripEnd(r)
    BY <1>6 DEF PayBundled
  <2> QED BY <2>1, <1>1, PaidHere DEF PayKinds
<1> QED BY <1>3, <1>4, <1>5, <1>6

LEMMA UnpayHere ==
  ASSUME IInv, NEW r \in Requests, Here(r), Unpay(r)
  PROVE  Here(r)'
<1>1. PICK n : n = tripMem[r].pay
  OBVIOUS
<1>2. /\ tripPc[r] = "unpay" /\ driverPay[n] # None /\ TripEnd(r) /\ UNCHANGED tripSoiled
      /\ driverPay[n].tx # None => EntryDeleted(driverPay[n].tx)
      /\ driverPay[n].tx = None =>
            driverPay' = [driverPay EXCEPT ![n] = None] /\ UNCHANGED <<trip, tripMoney>>
  BY <1>1 DEF Unpay
<1>3. Now /\ Rows /\ LocalsOK
  BY <1>2, PlainNow DEF Writing, IInv
<1>4. Now'
  <2>1. CASE driverPay[n].tx # None
    BY <1>2, <1>3, <2>1, DeletedSettled DEF Now
  <2>2. CASE driverPay[n].tx = None
    <3>1. driverPay \in Payments /\ None \notin DOMAIN tripMoney
          /\ \A t \in Trips : trip[t] \in TripRow \cup {None}
      BY <1>3, Columns
    <3>2. driverPay' \in [DOMAIN driverPay -> PayRow \cup {None}]
      <4>1. \A i \in DOMAIN driverPay : driverPay[i] \in PayRow \cup {None}
        BY <3>1 DEF Payments
      <4> QED BY <1>2, <2>2, <4>1
    <3>3. driverPay' \in Payments
      BY <3>1, <3>2, SeqReplaced DEF Payments
    <3>4. \A i \in DOMAIN driverPay : driverPay'[i] = IF i = n THEN None ELSE driverPay[i]
      BY <1>2, <2>2
    <3>5. DOMAIN driverPay' = DOMAIN driverPay
      BY <1>2, <2>2
    <3>6. \A t : Unpaid(driverPay, driverPay', t)
      BY <2>2, <3>4, <3>5 DEF Unpaid
    <3>7. ASSUME NEW t \in Trips PROVE Books(driverPay', tripMoney, tripSoiled, t, trip[t])
      <4>1. PICK x \in TripRow \cup {None} : x = trip[t]
        BY <3>1
      <4>2. Own(driverPay, tripMoney, t, x) /\ (t \notin tripSoiled => Right(driverPay, tripMoney, t, x))
        BY <1>3, <4>1 DEF Now, Settled, Books
      <4>3. Own(driverPay', tripMoney, t, x) /\ (t \notin tripSoiled => Right(driverPay', tripMoney, t, x))
        BY <3>1, <3>3, <3>6, <4>2, UnpaidBooks
      <4> QED BY <4>1, <4>3 DEF Books
    <3> QED BY <1>2, <2>2, <3>7 DEF Now, Settled
  <2> QED BY <2>1, <2>2
<1> QED BY <1>2, <1>3, <1>4, EndsHere

-----------------------------------------------------------------------------
(* Charges: the books agree with the row that the trip is to have.         *)

\* What Charged leaves with the request: its pointer to the charge is the one that is there.
Carried(m, n, k, p) ==
    /\ n.trip = m.trip /\ n.amount = m.amount /\ n.fee = m.fee
    /\ Ptr(n.row, k) = p
    /\ \A j \in ChargeKinds \ {k} : Ptr(n.row, j) = Ptr(m.row, j)

LEMMA ChargedIs ==
  ASSUME LocalsOK, NEW r \in Requests, tripMem[r] \in TripLocal, tripMem[r].row \in TripRow,
         NEW k \in ChargeKinds, NEW amount \in Nat, NEW next,
         Charged(r, k, Ptr(tripMem[r].row, k), amount, next)
  PROVE  \E p, n : /\ Recharge(tripMem[r].trip, k, Ptr(tripMem[r].row, k), amount, p)
                   /\ Carried(tripMem[r], n, k, p)
                   /\ tripPc'[r] = next /\ tripMem'[r] = n
<1>1. PICK m, tx : m = tripMem[r] /\ tx = Ptr(m.row, k)
  OBVIOUS
<1>2. m \in TripLocal /\ m.row \in TripRow /\ tripPc'[r] = next
  BY <1>1 DEF Charged, TripGoto, LocalsOK
<1>3. ASSUME NEW e, NEW n, n = [m EXCEPT !.row = IF k = "delay" THEN [m.row EXCEPT !.delayTx = e]
                                                 ELSE [m.row EXCEPT !.weightTx = e]]
      PROVE  Carried(m, n, k, e)
  <2>1. PICK row : row = IF k = "delay" THEN [m.row EXCEPT !.delayTx = e]
                         ELSE [m.row EXCEPT !.weightTx = e]
    OBVIOUS
  <2>2. n = [m EXCEPT !.row = row]
    BY <1>3, <2>1
  <2>3. n.trip = m.trip /\ n.amount = m.amount /\ n.fee = m.fee /\ n.row = row
    BY <1>2, <2>2 DEF TripLocal
  <2>4. Ptr(row, k) = e /\ \A j \in ChargeKinds \ {k} : Ptr(row, j) = Ptr(m.row, j)
    BY <1>2, <2>1 DEF Ptr, TripRow, ChargeKinds
  <2> QED BY <2>3, <2>4 DEF Carried
<1>4. Carried(m, m, k, tx)
  BY <1>1 DEF Carried
<1>5. ASSUME NEW e, TripRemember(r, [m EXCEPT !.row =
                 IF k = "delay" THEN [m.row EXCEPT !.delayTx = e] ELSE [m.row EXCEPT !.weightTx = e]])
      PROVE  \E n : tripMem'[r] = n /\ Carried(m, n, k, e)
  <2>1. PICK n : n = [m EXCEPT !.row =
                 IF k = "delay" THEN [m.row EXCEPT !.delayTx = e] ELSE [m.row EXCEPT !.weightTx = e]]
    OBVIOUS
  <2>2. tripMem'[r] = n
    BY <1>5, <2>1 DEF TripRemember, LocalsOK
  <2> QED BY <1>3, <2>1, <2>2
<1>6. CASE tx # None /\ amount = 0
  <2>1. EntryDeleted(tx) /\ \E n : tripMem'[r] = n /\ Carried(m, n, k, None)
    BY <1>1, <1>5, <1>6, NotNone DEF Charged
  <2> QED BY <1>1, <1>2, <1>6, <2>1 DEF Recharge
<1>7. CASE tx # None /\ amount > 0
  <2>1. /\ tripMoney[tx] # None /\ tripMoney' = [tripMoney EXCEPT ![tx].amount = amount]
        /\ UNCHANGED <<trip, driverPay, tripMem>>
    BY <1>1, <1>7 DEF Charged
  <2> QED BY <1>1, <1>2, <1>4, <1>7, <2>1 DEF Recharge
<1>8. CASE tx = None /\ amount > 0 /\ m.row.client
  <2>1. /\ tripMoney' = Append(tripMoney, [trip |-> m.trip, kind |-> k, amount |-> amount])
        /\ UNCHANGED <<trip, driverPay>>
        /\ \E n : tripMem'[r] = n /\ Carried(m, n, k, Len(tripMoney) + 1)
    BY <1>1, <1>5, <1>8 DEF Charged
  <2>2. Recharge(m.trip, k, tx, amount, Len(tripMoney) + 1)
    BY <1>8, <2>1 DEF Recharge
  <2>3. PICK n : tripMem'[r] = n /\ Carried(m, n, k, Len(tripMoney) + 1)
    BY <2>1
  <2> QED BY <1>1, <1>2, <2>2, <2>3
<1>9. CASE tx = None /\ (amount = 0 \/ ~m.row.client)
  <2>1. UNCHANGED <<trip, driverPay, tripMoney, tripMem>>
    BY <1>1, <1>9 DEF Charged, tripRows
  <2> QED BY <1>1, <1>2, <1>4, <1>9, <2>1 DEF Recharge
<1> QED BY <1>6, <1>7, <1>8, <1>9

\* A charge is written while its trip, c, is yet to be.
LEMMA RechargedHere ==
  ASSUME NEW c \in Trips, NEW l, NEW n, n.trip = c, l \in {"weight", "arrive", "writeWeight"},
         \A t \in Trips : Own(driverPay', tripMoney', t, trip'[t]),
         \A t \in Trips \ {c} : Books(driverPay', tripMoney', tripSoiled', t, trip'[t]),
         Books(driverPay', tripMoney', tripSoiled', c, Want(trip'[c], c, l, n)),
         trip'[c] \in TripRow, l = "weight" => n.row.weightTx = trip'[c].weightTx
  PROVE  At(trip', driverPay', tripMoney', tripSoiled', l, n)
<1>1. \A t \in Trips \ {c} : Want(trip'[t], t, l, n) = trip'[t]
  BY WantPlain
<1>2. \A t \in Trips : Own(driverPay', tripMoney', t, trip'[t])
                      /\ Books(driverPay', tripMoney', tripSoiled', t, Want(trip'[t], t, l, n))
  BY <1>1
<1>3. Knows(trip', driverPay', tripMoney', tripSoiled', l, n)
  BY NotNone DEF Knows, WithTrip, Charging
<1> QED BY <1>2, <1>3 DEF At

\* What a request that charges has read, and what it finds.
LEMMA ChargingFinds ==
  ASSUME IInv, NEW r \in Requests, Here(r), tripPc[r] \in {"delay", "weight", "reweigh"}
  PROVE  /\ Rows /\ LocalsOK
         /\ tripMem[r] \in TripLocal /\ tripMem[r].row \in TripRow /\ tripMem[r].trip \in Trips
         /\ tripMem[r].amount \in Nat /\ tripMem[r].fee \in Nat
         /\ \A k \in ChargeKinds : Ptr(tripMem[r].row, k) \in Nat \cup {None}
         /\ trip[tripMem[r].trip] \in TripRow
         /\ \A t \in Trips : Own(driverPay, tripMoney, t, trip[t])
         /\ \A t \in Trips \ {tripMem[r].trip} : Books(driverPay, tripMoney, tripSoiled, t, trip[t])
         /\ Books(driverPay, tripMoney, tripSoiled, tripMem[r].trip,
                  Want(trip[tripMem[r].trip], tripMem[r].trip, tripPc[r], tripMem[r]))
         /\ Knows(trip, driverPay, tripMoney, tripSoiled, tripPc[r], tripMem[r])
<1>1. PICK m : m = tripMem[r]
  OBVIOUS
<1>2. Rows /\ LocalsOK /\ m \in TripLocal /\ m.row \in TripRow /\ m.trip \in Trips
  BY <1>1, Same, RowsSeqs DEF IInv, LocalsOK, Local, WithTrip, Charging, Seqs
<1>3. m.amount \in Nat /\ m.fee \in Nat
  BY <1>2 DEF TripLocal
<1>4. \A k \in ChargeKinds : Ptr(m.row, k) \in Nat \cup {None}
  BY <1>2 DEF Ptr, TripRow
<1>5. /\ \A t \in Trips : Own(driverPay, tripMoney, t, trip[t])
      /\ \A t \in Trips : Books(driverPay, tripMoney, tripSoiled, t, Want(trip[t], t, tripPc[r], m))
      /\ Knows(trip, driverPay, tripMoney, tripSoiled, tripPc[r], m)
  BY <1>1 DEF Here, At
<1>6. \A t \in Trips \ {m.trip} : Want(trip[t], t, tripPc[r], m) = trip[t]
  BY WantPlain
<1>7. trip[m.trip] \in TripRow
  <2>1. trip[m.trip] # None
    BY <1>5 DEF Knows, WithTrip, Charging
  <2> QED BY <1>2, <2>1, Columns
<1> QED BY <1>1, <1>2, <1>3, <1>4, <1>5, <1>6, <1>7


LEMMA RechargeTyped ==
  ASSUME Rows, NEW c, NEW k, NEW tx \in Nat \cup {None}, NEW a, NEW p, Recharge(c, k, tx, a, p)
  PROVE  p \in Nat \cup {None}
<1>1. Len(tripMoney) \in Nat
  BY RowsSeqs
<1> QED BY <1>1 DEF Recharge

LEMMA ChargeDelayHere ==
  ASSUME IInv, NEW r \in Requests, Here(r), ChargeDelay(r)
  PROVE  Here(r)'
<1>1. PICK m, c, x, tx, S : /\ m = tripMem[r] /\ c = m.trip /\ x = trip[c] /\ tx = Ptr(m.row, "delay")
                            /\ S = tripSoiled
  OBVIOUS
<1>2. /\ tripPc[r] = "delay" /\ UNCHANGED tripSoiled
      /\ Charged(r, "delay", Ptr(tripMem[r].row, "delay"), tripMem[r].fee, "weight")
  BY DEF ChargeDelay, Ptr
<1>3. /\ Rows /\ LocalsOK /\ m \in TripLocal /\ m.row \in TripRow /\ c \in Trips /\ m.fee \in Nat
      /\ tx \in Nat \cup {None} /\ x \in TripRow
      /\ \A t \in Trips : Own(driverPay, tripMoney, t, trip[t])
      /\ \A t \in Trips \ {c} : Books(driverPay, tripMoney, S, t, trip[t])
      /\ Books(driverPay, tripMoney, S, c, x)
      /\ Ptr(m.row, "delay") = Ptr(x, "delay") /\ Ptr(m.row, "weight") = Ptr(x, "weight")
  <2>1. Want(x, c, "delay", m) = x
    BY WantPlain DEF Writing
  <2>2. Knows(trip, driverPay, tripMoney, tripSoiled, "delay", m)
    BY <1>1, <1>2, ChargingFinds
  <2>3. Ptr(m.row, "delay") = Ptr(x, "delay") /\ Ptr(m.row, "weight") = Ptr(x, "weight")
    BY <1>1, <2>2 DEF Knows, ChargeKinds
  <2>4. tx \in Nat \cup {None}
    BY <1>1, <1>2, ChargingFinds DEF ChargeKinds
  <2> QED BY <1>1, <1>2, <2>1, <2>3, <2>4, ChargingFinds, SMTT(20)
<1>4. PICK p, n : /\ Recharge(c, "delay", tx, m.fee, p) /\ Carried(m, n, "delay", p)
                  /\ tripPc'[r] = "weight" /\ tripMem'[r] = n
  <2>1. /\ "delay" \in ChargeKinds /\ tripMem[r] \in TripLocal /\ tripMem[r].row \in TripRow
        /\ tripMem[r].fee \in Nat /\ LocalsOK /\ r \in Requests
    BY <1>1, <1>3 DEF ChargeKinds
  <2>2. \E p, n : /\ Recharge(tripMem[r].trip, "delay", Ptr(tripMem[r].row, "delay"), tripMem[r].fee, p)
                 /\ Carried(tripMem[r], n, "delay", p)
                 /\ tripPc'[r] = "weight" /\ tripMem'[r] = n
    BY <1>2, <2>1, ChargedIs, Zenon
  <2> QED BY <1>1, <2>2
<1>5. /\ "delay" \in ChargeKinds /\ ChargeKinds \ {"delay"} = {"weight"}
      /\ Ptr(x, "delay") = tx /\ trip[c] # None
  BY <1>1, <1>3, NotNone DEF ChargeKinds
<1>6. /\ \A t \in Trips : Own(driverPay', tripMoney', t, trip'[t])
      /\ \A t \in Trips \ {c} : Books(driverPay', tripMoney', S, t, trip'[t])
      /\ trip'[c] \in TripRow /\ trip'[c].agreed = trip[c].agreed
      /\ \A i \in ChargeKinds \ {"delay"} :
                Ptr(trip'[c], i) = Ptr(trip[c], i) /\ Due(trip'[c], i) = Due(trip[c], i)
      /\ \A y : Recharged(x, y, "delay", p, m.fee) => Books(driverPay', tripMoney', S, c, y)
  BY <1>3, <1>4, <1>5, ChargeBooks
<1>7. PICK y, z : z = trip'[c] /\ y = [z EXCEPT !.fee = n.fee, !.delayTx = n.row.delayTx]
  OBVIOUS
<1>8. /\ z \in TripRow /\ y.agreed = z.agreed /\ y.fee = n.fee /\ y.delayTx = n.row.delayTx
      /\ y.weightTx = z.weightTx /\ y.weight = z.weight
  BY <1>6, <1>7 DEF TripRow
<1>9. n.trip = c /\ n.fee = m.fee /\ n.row.delayTx = p /\ n.row.weightTx = m.row.weightTx
  BY <1>1, <1>4, <1>5 DEF Carried, Ptr
<1>10. Want(trip'[c], c, "weight", n) = y /\ y # None
  <2>1. p \in Nat \cup {None}
    BY <1>3, <1>4, RechargeTyped
  <2>2. y \in TripRow
    BY <1>3, <1>7, <1>8, <1>9, <2>1 DEF TripRow
  <2> QED BY <1>6, <1>7, <1>9, <2>2, NotNone DEF Want
<1>11. Recharged(x, y, "delay", p, m.fee)
  BY <1>1, <1>5, <1>6, <1>7, <1>8, <1>9, <1>10 DEF Recharged, Ptr, Due
<1>12. n.row.weightTx = trip'[c].weightTx
  BY <1>1, <1>3, <1>5, <1>6, <1>9 DEF Ptr
<1>13. At(trip', driverPay', tripMoney', tripSoiled', "weight", n)
  BY <1>1, <1>2, <1>3, <1>6, <1>9, <1>10, <1>11, <1>12, RechargedHere
<1> QED BY <1>4, <1>13 DEF Here


LEMMA ChargeWeightHere ==
  ASSUME IInv, NEW r \in Requests, Here(r), ChargeWeight(r)
  PROVE  Here(r)'
<1>1. PICK m, c, tx, S : /\ m = tripMem[r] /\ c = m.trip /\ tx = Ptr(m.row, "weight") /\ S = tripSoiled
  OBVIOUS
<1>2. /\ tripPc[r] = "weight" /\ UNCHANGED tripSoiled
      /\ Charged(r, "weight", Ptr(tripMem[r].row, "weight"), tripMem[r].amount, "arrive")
  BY DEF ChargeWeight, Ptr
<1>3. PICK old, x : old = trip[c] /\ x = [old EXCEPT !.fee = m.fee, !.delayTx = m.row.delayTx]
  OBVIOUS
<1>4. /\ Rows /\ LocalsOK /\ m \in TripLocal /\ m.row \in TripRow /\ c \in Trips
      /\ m.amount \in Nat /\ m.fee \in Nat /\ tx \in Nat \cup {None} /\ old \in TripRow
      /\ \A t \in Trips : Own(driverPay, tripMoney, t, trip[t])
      /\ \A t \in Trips \ {c} : Books(driverPay, tripMoney, S, t, trip[t])
      /\ Books(driverPay, tripMoney, S, c, Want(old, c, "weight", m))
      /\ m.row.weightTx = old.weightTx
  <2>1. Knows(trip, driverPay, tripMoney, tripSoiled, "weight", m)
    BY <1>1, <1>2, ChargingFinds
  <2>2. m.row.weightTx = old.weightTx
    BY <1>1, <1>3, <2>1 DEF Knows
  <2>3. tx \in Nat \cup {None}
    BY <1>1, <1>2, ChargingFinds DEF ChargeKinds
  <2> QED BY <1>1, <1>2, <1>3, <2>2, <2>3, ChargingFinds, SMTT(20)
<1>5. /\ x \in TripRow /\ x.agreed = old.agreed /\ x.fee = m.fee /\ x.delayTx = m.row.delayTx
      /\ x.weightTx = old.weightTx /\ x.weight = old.weight
  <2>1. m.row.delayTx \in Nat \cup {None}
    BY <1>4 DEF TripRow
  <2> QED BY <1>3, <1>4, <2>1 DEF TripRow
<1>6. Want(old, c, "weight", m) = x
  BY <1>1, <1>3, <1>4, NotNone DEF Want
<1>7. PICK p, n : /\ Recharge(c, "weight", tx, m.amount, p) /\ Carried(m, n, "weight", p)
                  /\ tripPc'[r] = "arrive" /\ tripMem'[r] = n
  <2>1. /\ "weight" \in ChargeKinds /\ tripMem[r] \in TripLocal /\ tripMem[r].row \in TripRow
        /\ tripMem[r].amount \in Nat /\ LocalsOK /\ r \in Requests
    BY <1>1, <1>4 DEF ChargeKinds
  <2>2. \E p, n : /\ Recharge(tripMem[r].trip, "weight", Ptr(tripMem[r].row, "weight"), tripMem[r].amount, p)
                 /\ Carried(tripMem[r], n, "weight", p)
                 /\ tripPc'[r] = "arrive" /\ tripMem'[r] = n
    BY <1>2, <2>1, ChargedIs, Zenon
  <2> QED BY <1>1, <2>2
<1>8. /\ "weight" \in ChargeKinds /\ ChargeKinds \ {"weight"} = {"delay"} /\ Ptr(x, "weight") = tx
      /\ trip[c] # None /\ Books(driverPay, tripMoney, S, c, x)
  BY <1>1, <1>3, <1>4, <1>5, <1>6, NotNone DEF ChargeKinds, Ptr
<1>9. /\ \A t \in Trips : Own(driverPay', tripMoney', t, trip'[t])
      /\ \A t \in Trips \ {c} : Books(driverPay', tripMoney', S, t, trip'[t])
      /\ trip'[c] \in TripRow /\ trip'[c].agreed = trip[c].agreed
      /\ \A y : Recharged(x, y, "weight", p, m.amount) => Books(driverPay', tripMoney', S, c, y)
  BY <1>4, <1>5, <1>7, <1>8, ChargeBooks
<1>10. /\ n.trip = c /\ n.fee = m.fee /\ n.amount = m.amount
       /\ n.row.weightTx = p /\ n.row.delayTx = m.row.delayTx
  BY <1>1, <1>7, <1>8 DEF Carried, Ptr
<1>11. PICK y, z : z = trip'[c] /\ y = Arrived(z, n)
  OBVIOUS
<1>12. /\ y \in TripRow /\ y.agreed = z.agreed /\ y.fee = m.fee /\ y.delayTx = m.row.delayTx
       /\ y.weightTx = p /\ y.weight = m.amount
  <2>1. p \in Nat \cup {None}
    BY <1>4, <1>7, RechargeTyped
  <2>2. m.row.delayTx \in Nat \cup {None}
    BY <1>4 DEF TripRow
  <2> QED BY <1>4, <1>9, <1>10, <1>11, <2>1, <2>2 DEF Arrived, TripRow
<1>13. Want(trip'[c], c, "arrive", n) = y /\ y # None
  BY <1>9, <1>10, <1>11, <1>12, NotNone DEF Want
<1>14. Recharged(x, y, "weight", p, m.amount)
  BY <1>3, <1>5, <1>8, <1>9, <1>11, <1>12, <1>13 DEF Recharged, Ptr, Due
<1>15. At(trip', driverPay', tripMoney', tripSoiled', "arrive", n)
  BY <1>1, <1>2, <1>4, <1>9, <1>10, <1>13, <1>14, RechargedHere
<1> QED BY <1>7, <1>15 DEF Here

LEMMA ReweighHere ==
  ASSUME IInv, NEW r \in Requests, Here(r), Reweigh(r)
  PROVE  Here(r)'
<1>1. PICK m, c, x, tx, S : /\ m = tripMem[r] /\ c = m.trip /\ x = trip[c] /\ tx = Ptr(m.row, "weight")
                            /\ S = tripSoiled
  OBVIOUS
<1>2. tripPc[r] = "reweigh" /\ UNCHANGED tripSoiled
  BY DEF Reweigh
<1>3. /\ Rows /\ LocalsOK /\ m \in TripLocal /\ m.row \in TripRow /\ c \in Trips /\ m.amount \in Nat
      /\ tx \in Nat \cup {None} /\ x \in TripRow
      /\ \A t \in Trips : Own(driverPay, tripMoney, t, trip[t])
      /\ \A t \in Trips \ {c} : Books(driverPay, tripMoney, S, t, trip[t])
      /\ Books(driverPay, tripMoney, S, c, x)
      /\ Ptr(m.row, "weight") = Ptr(x, "weight")
  <2>1. Want(x, c, "reweigh", m) = x
    BY WantPlain DEF Writing
  <2>2. Knows(trip, driverPay, tripMoney, tripSoiled, "reweigh", m)
    BY <1>1, <1>2, ChargingFinds
  <2>3. Ptr(m.row, "weight") = Ptr(x, "weight")
    BY <1>1, <2>2 DEF Knows, ChargeKinds
  <2>4. tx \in Nat \cup {None}
    BY <1>1, <1>2, ChargingFinds DEF ChargeKinds
  <2> QED BY <1>1, <1>2, <2>1, <2>3, <2>4, ChargingFinds, SMTT(20)
<1>4. \E p, n : /\ Recharge(c, "weight", tx, m.amount, p) /\ Carried(m, n, "weight", p)
                /\ tripPc'[r] = "writeWeight" /\ tripMem'[r] = n /\ (tx # None => p # None)
  <2>1. CASE tx = None
    <3>1. Charged(r, "weight", Ptr(tripMem[r].row, "weight"), tripMem[r].amount, "writeWeight")
      BY <1>1, <2>1 DEF Reweigh, Ptr
    <3>2. /\ LocalsOK /\ tripMem[r] \in TripLocal /\ tripMem[r].row \in TripRow
          /\ tripMem[r].amount \in Nat /\ "weight" \in ChargeKinds
      BY <1>1, <1>3 DEF ChargeKinds
    <3>3. PICK a : a = tripMem[r].amount
      OBVIOUS
    <3>4. Charged(r, "weight", Ptr(tripMem[r].row, "weight"), a, "writeWeight") /\ a \in Nat
      BY <3>1, <3>2, <3>3, Zenon
    <3>5. \E p, n : /\ Recharge(tripMem[r].trip, "weight", Ptr(tripMem[r].row, "weight"), a, p)
                    /\ Carried(tripMem[r], n, "weight", p)
                    /\ tripPc'[r] = "writeWeight" /\ tripMem'[r] = n
      BY <3>2, <3>4, ChargedIs, Zenon
    <3>6. /\ tripMem[r] = m /\ tripMem[r].trip = c /\ Ptr(tripMem[r].row, "weight") = tx
          /\ a = m.amount
      BY <1>1, <3>3, Zenon
    <3>7. PICK p, n : /\ Recharge(tripMem[r].trip, "weight", Ptr(tripMem[r].row, "weight"), a, p)
                      /\ Carried(tripMem[r], n, "weight", p)
                      /\ tripPc'[r] = "writeWeight" /\ tripMem'[r] = n
      BY <3>5, Zenon
    <3>8. /\ Recharge(c, "weight", tx, m.amount, p) /\ Carried(m, n, "weight", p)
          /\ tripPc'[r] = "writeWeight" /\ tripMem'[r] = n /\ (tx # None => p # None)
      BY <2>1, <3>6, <3>7, Zenon
    <3> QED BY <3>8, Zenon
  <2>2. CASE tx # None
    <3>1. /\ tripMoney[tx] # None /\ tripMoney' = [tripMoney EXCEPT ![tx].amount = m.amount]
          /\ UNCHANGED <<trip, driverPay, tripMem>> /\ TripGoto(r, "writeWeight")
      BY <1>1, <2>2 DEF Reweigh, Ptr
    <3>2. tripPc'[r] = "writeWeight" /\ tripMem'[r] = m
      BY <1>1, <1>3, <3>1 DEF TripGoto, LocalsOK
    <3>3. Carried(m, m, "weight", tx)
      BY <1>1 DEF Carried
    <3>4. Recharge(c, "weight", tx, m.amount, tx)
      BY <2>2, <3>1 DEF Recharge
    <3> QED BY <2>2, <3>2, <3>3, <3>4
  <2> QED BY <2>1, <2>2
<1>5. PICK p, n : /\ Recharge(c, "weight", tx, m.amount, p) /\ Carried(m, n, "weight", p)
                  /\ tripPc'[r] = "writeWeight" /\ tripMem'[r] = n /\ (tx # None => p # None)
  BY <1>4
<1>6. /\ "weight" \in ChargeKinds /\ ChargeKinds \ {"weight"} = {"delay"}
      /\ Ptr(x, "weight") = tx /\ trip[c] # None
  BY <1>1, <1>3, NotNone DEF ChargeKinds
<1>7. /\ \A t \in Trips : Own(driverPay', tripMoney', t, trip'[t])
      /\ \A t \in Trips \ {c} : Books(driverPay', tripMoney', S, t, trip'[t])
      /\ trip'[c] \in TripRow /\ trip'[c].agreed = trip[c].agreed
      /\ \A i \in ChargeKinds \ {"weight"} :
                Ptr(trip'[c], i) = Ptr(trip[c], i) /\ Due(trip'[c], i) = Due(trip[c], i)
      /\ tx = None => trip' = trip
      /\ \A y : Recharged(x, y, "weight", p, m.amount) => Books(driverPay', tripMoney', S, c, y)
  BY <1>3, <1>5, <1>6, ChargeBooks
<1>8. PICK z : z = trip'[c]
  OBVIOUS
<1>9. PICK y : y = [z EXCEPT !.weight = n.amount,
                             !.weightTx = IF n.row.weightTx = None THEN @ ELSE n.row.weightTx]
  OBVIOUS
<1>10. n.trip = c /\ n.amount = m.amount /\ n.row.weightTx = p
  BY <1>1, <1>5 DEF Carried, Ptr
<1>11. /\ z \in TripRow /\ y \in TripRow /\ y.agreed = z.agreed /\ y.fee = z.fee /\ y.delayTx = z.delayTx
       /\ y.weightTx = (IF p = None THEN z.weightTx ELSE p) /\ y.weight = m.amount
  <2>1. p \in Nat \cup {None}
    BY <1>3, <1>5, RechargeTyped
  <2>2. z \in TripRow /\ m.amount \in Nat
    BY <1>3, <1>7, <1>8
  <2>3. y = [z EXCEPT !.weight = m.amount, !.weightTx = IF p = None THEN z.weightTx ELSE p]
    BY <1>9, <1>10, <2>2 DEF TripRow
  <2> QED BY <2>1, <2>2, <2>3 DEF TripRow
<1>12. p = None => z.weightTx = None
  BY <1>1, <1>5, <1>6, <1>7, <1>8 DEF Ptr
<1>13. Want(trip'[c], c, "writeWeight", n) = y /\ y # None
  BY <1>8, <1>9, <1>10, <1>11, NotNone DEF Want
<1>14. Recharged(x, y, "weight", p, m.amount)
  BY <1>1, <1>6, <1>7, <1>8, <1>11, <1>12, <1>13 DEF Recharged, Ptr, Due
<1>15. At(trip', driverPay', tripMoney', tripSoiled', "writeWeight", n)
  BY <1>1, <1>2, <1>3, <1>7, <1>10, <1>13, <1>14, RechargedHere
<1> QED BY <1>5, <1>15 DEF Here

-----------------------------------------------------------------------------
(* The trip is written: it has the row that its books agree with.          *)

LEMMA WrittenHere ==
  ASSUME LocalsOK, NEW r \in Requests, Here(r), NEW m, m = tripMem[r], NEW l, l = tripPc[r],
         \A t \in Trips : trip'[t] = Want(trip[t], t, l, m),
         UNCHANGED <<driverPay, tripMoney, tripSoiled>>, TripEnd(r)
  PROVE  Here(r)'
<1>1. \A t \in Trips : Books(driverPay, tripMoney, tripSoiled, t, Want(trip[t], t, l, m))
  BY DEF Here, At
<1>2. \A t \in Trips : Books(driverPay', tripMoney', tripSoiled', t, trip'[t])
  BY <1>1
<1>3. Now'
  BY <1>2 DEF Now, Settled
<1> QED BY <1>3, EndsHere

LEMMA WriteHere ==
  ASSUME IInv, NEW r \in Requests, Here(r), WriteArrival(r) \/ WriteWeight(r) \/ MirrorWeight(r)
  PROVE  Here(r)'
<1>1. PICK m : m = tripMem[r]
  OBVIOUS
<1>2. LocalsOK /\ UNCHANGED <<driverPay, tripMoney, tripSoiled>> /\ TripEnd(r)
  BY DEF IInv, WriteArrival, WriteWeight, MirrorWeight
<1>3. \A t \in Trips : trip[t] \in TripRow \cup {None}
  BY Columns DEF IInv
<1>4. CASE WriteArrival(r)
  <2>1. tripPc[r] = "arrive" /\ trip[m.trip] # None /\ trip' = [trip EXCEPT ![m.trip] = Arrived(@, m)]
    BY <1>1, <1>4 DEF WriteArrival, IsTrip
  <2>2. \A t \in Trips : trip'[t] = Want(trip[t], t, "arrive", m)
    <3>1. trip \in [Trips -> TripRow \cup {None}]
      BY Columns DEF IInv
    <3> QED BY <2>1, <3>1 DEF Want
  <2> QED BY <1>1, <1>2, <2>1, <2>2, WrittenHere
<1>5. CASE WriteWeight(r)
  <2>1. PICK c, old : c = m.trip /\ old = trip[c]
    OBVIOUS
  <2>2. PICK y : y = [old EXCEPT !.weight = m.amount,
                                 !.weightTx = IF m.row.weightTx = None THEN @ ELSE m.row.weightTx]
    OBVIOUS
  <2>3. /\ tripPc[r] = "writeWeight" /\ old # None
        /\ trip' = [trip EXCEPT ![c].weight = m.amount,
                       ![c].weightTx = IF m.row.weightTx = None THEN @ ELSE m.row.weightTx]
    BY <1>1, <1>5, <2>1 DEF WriteWeight, IsTrip
  <2>4. trip \in [Trips -> TripRow \cup {None}]
    BY Columns DEF IInv
  <2>5. c \in Trips
    BY <1>1, <2>1, <2>3, RowsSeqs DEF IInv, LocalsOK, Local, WithTrip, Charging, Seqs
  <2>6. trip'[c] = y /\ \A t \in Trips \ {c} : trip'[t] = trip[t]
    BY <2>1, <2>2, <2>3, <2>4, <2>5
  <2>7. Want(old, c, "writeWeight", m) = y
    BY <2>1, <2>2, <2>3 DEF Want
  <2>8. \A t \in Trips \ {c} : Want(trip[t], t, "writeWeight", m) = trip[t]
    BY <2>1, WantPlain
  <2>9. \A t \in Trips : trip'[t] = Want(trip[t], t, "writeWeight", m)
    BY <2>1, <2>6, <2>7, <2>8
  <2> QED BY <1>1, <1>2, <2>3, <2>9, WrittenHere
<1>6. CASE MirrorWeight(r)
  <2>1. /\ tripPc[r] = "mirrorWeight"
        /\ trip' = [t \in Trips |-> IF IsTrip(t) /\ trip[t].weightTx = m.entry
                                    THEN [trip[t] EXCEPT !.weight = m.amount] ELSE trip[t]]
    BY <1>1, <1>6 DEF MirrorWeight
  <2>2. \A t \in Trips : trip'[t] = Want(trip[t], t, "mirrorWeight", m)
    BY <2>1 DEF Want, IsTrip
  <2> QED BY <1>1, <1>2, <2>1, <2>2, WrittenHere
<1> QED BY <1>4, <1>5, <1>6

-----------------------------------------------------------------------------
(* Removals, undo and the money log.                                       *)

LEMMA RemoveEntryHere ==
  ASSUME IInv, NEW r \in Requests, Here(r), NEW e \in tripMem[r].todo, RemoveEntryOf(r, e)
  PROVE  Here(r)'
<1>1. PICK m, n : m = tripMem[r] /\ n = [m EXCEPT !.todo = @ \ {e}]
  OBVIOUS
<1>2. /\ tripPc[r] = "removeEntries" /\ EntryDeleted(e) /\ UNCHANGED <<tripPc, tripSoiled>>
      /\ TripRemember(r, n)
  BY <1>1 DEF RemoveEntryOf
<1>3. /\ Rows /\ LocalsOK /\ Now /\ Knows(trip, driverPay, tripMoney, tripSoiled, "removeEntries", m)
      /\ m \in TripLocal /\ m.trip \in Trips
  <2>1. Now /\ Knows(trip, driverPay, tripMoney, tripSoiled, "removeEntries", m)
    BY <1>1, <1>2, PlainNow DEF Writing
  <2>2. m \in TripLocal /\ m.trip \in tripsMade
    BY <1>1, <1>2, Same DEF IInv, LocalsOK, Local, WithTrip
  <2> QED BY <2>1, <2>2, RowsSeqs DEF IInv, Seqs
<1>4. tripPc'[r] = "removeEntries" /\ tripMem'[r] = n
  BY <1>2, <1>3 DEF TripRemember, LocalsOK
<1>5. n.trip = m.trip /\ n.todo = m.todo \ {e}
  BY <1>1, <1>3 DEF TripLocal
<1>6. Now'
  BY <1>2, <1>3, DeletedSettled DEF Now
<1>7. PICK c : c = m.trip
  OBVIOUS
<1>8. /\ trip[c] # None
      /\ c \notin tripSoiled =>
            \A i \in DOMAIN tripMoney : tripMoney[i] # None /\ tripMoney[i].trip = c => i \in m.todo
  BY <1>3, <1>7 DEF Knows, WithTrip
<1>9. /\ trip'[c] # None
      /\ \A i \in DOMAIN tripMoney' : tripMoney'[i] # None =>
             i \in DOMAIN tripMoney /\ i # e /\ tripMoney'[i] = tripMoney[i]
  <2>1. CASE /\ Deleted(driverPay, driverPay', tripMoney, tripMoney', e)
             /\ \A t \in Trips : trip'[t] = CleanRow(trip[t], e)
    <3>1. driverPay \in Payments /\ tripMoney \in Money /\ trip[c] \in TripRow /\ c \in Trips
      BY <1>3, <1>7, <1>8, Columns
    <3>2. /\ DOMAIN tripMoney' = DOMAIN tripMoney /\ tripMoney'[e] = None
          /\ \A i \in DOMAIN tripMoney : i # e => tripMoney'[i] = tripMoney[i]
      BY <2>1, <3>1, DeletedTyped DEF Deleted
    <3>3. CleanRow(trip[c], e) \in TripRow
      BY <3>1, CleanIs
    <3> QED BY <2>1, <3>1, <3>2, <3>3, NotNone
  <2>2. CASE /\ ~(e \in DOMAIN tripMoney /\ tripMoney[e] # None)
             /\ UNCHANGED <<trip, driverPay, tripMoney>>
    BY <1>8, <2>2
  <2> QED BY <1>2, <1>3, <2>1, <2>2, EntryDeletedIs
<1>10. Knows(trip', driverPay', tripMoney', tripSoiled', "removeEntries", n)
  <2>1. ASSUME c \notin tripSoiled', NEW i \in DOMAIN tripMoney', tripMoney'[i] # None, tripMoney'[i].trip = c
        PROVE  i \in n.todo
    BY <1>2, <1>5, <1>8, <1>9, <2>1
  <2> QED BY <1>5, <1>7, <1>9, <2>1 DEF Knows
<1>11. "removeEntries" \notin Writing
  BY DEF Writing
<1> QED BY <1>4, <1>6, <1>10, <1>11, PlainHere

\* A trip goes, and the payments for it.
LEMMA GoneNow ==
  ASSUME Rows, Now, NEW c \in Trips, TripGone(c),
         tripSoiled' \in {tripSoiled, tripSoiled \cup {c}},
         c \notin tripSoiled' => \A e \in DOMAIN tripMoney : ~(tripMoney[e] # None /\ tripMoney[e].trip = c)
  PROVE  Now'
<1>1. /\ driverPay \in Payments /\ None \notin DOMAIN tripMoney
      /\ trip \in [Trips -> TripRow \cup {None}] /\ \A t \in Trips : trip[t] \in TripRow \cup {None}
  BY Columns
<1>2. /\ trip'[c] = None /\ \A t \in Trips \ {c} : trip'[t] = trip[t]
      /\ driverPay' = [n \in DOMAIN driverPay |-> IF n \in PaysOf(c) THEN None ELSE driverPay[n]]
      /\ UNCHANGED tripMoney
  BY <1>1 DEF TripGone
<1>3. \A n \in DOMAIN driverPay :
          driverPay'[n] = IF driverPay[n] # None /\ driverPay[n].trip = c THEN None ELSE driverPay[n]
  BY <1>2 DEF PaysOf
<1>4. DOMAIN driverPay' = DOMAIN driverPay
  BY <1>2
<1>5. driverPay' \in Payments
  <2>1. \A n \in DOMAIN driverPay : driverPay[n] \in PayRow \cup {None}
    BY <1>1 DEF Payments
  <2>2. driverPay' \in [DOMAIN driverPay -> PayRow \cup {None}]
    BY <1>2, <2>1
  <2> QED BY <1>1, <2>2, SeqReplaced DEF Payments
<1>6. ASSUME NEW t \in Trips \ {c} PROVE Books(driverPay', tripMoney', tripSoiled', t, trip'[t])
  <2>1. Unpaid(driverPay, driverPay', t)
    BY <1>3, <1>4, <1>6 DEF Unpaid
  <2>2. PICK x \in TripRow \cup {None} : x = trip[t]
    BY <1>1
  <2>3. Own(driverPay, tripMoney, t, x) /\ (t \notin tripSoiled => Right(driverPay, tripMoney, t, x))
    BY <2>2 DEF Now, Settled, Books
  <2>4. Own(driverPay', tripMoney, t, x) /\ (t \notin tripSoiled => Right(driverPay', tripMoney, t, x))
    BY <1>1, <1>5, <2>1, <2>3, UnpaidBooks
  <2> QED BY <1>2, <1>6, <2>2, <2>4 DEF Books
<1>7. Own(driverPay', tripMoney', c, None)
  BY <1>3, <1>4 DEF Own
<1>8. c \notin tripSoiled' => Right(driverPay', tripMoney', c, None)
  BY <1>2 DEF Right
<1> QED BY <1>2, <1>6, <1>7, <1>8 DEF Now, Settled, Books

LEMMA RemoveTripHere ==
  ASSUME IInv, NEW r \in Requests, Here(r), RemoveTrip(r)
  PROVE  Here(r)'
<1>1. PICK m, c : m = tripMem[r] /\ c = m.trip
  OBVIOUS
<1>2. /\ tripPc[r] = "removeEntries" /\ m.todo = {} /\ TripGone(c) /\ TripEnd(r) /\ UNCHANGED tripSoiled
  BY <1>1 DEF RemoveTrip
<1>3. /\ Rows /\ LocalsOK /\ Now /\ Knows(trip, driverPay, tripMoney, tripSoiled, "removeEntries", m)
      /\ c \in Trips
  BY <1>1, <1>2, PlainNow, RowsSeqs DEF IInv, Writing, LocalsOK, Local, WithTrip, Seqs
<1>4. c \notin tripSoiled' => \A e \in DOMAIN tripMoney : ~(tripMoney[e] # None /\ tripMoney[e].trip = c)
  BY <1>1, <1>2, <1>3 DEF Knows
<1>5. Now'
  BY <1>2, <1>3, <1>4, GoneNow
<1> QED BY <1>2, <1>3, <1>5, EndsHere

LEMMA UndoTripHere ==
  ASSUME IInv, Now, NEW r \in Requests, tripPc[r] = "idle", NEW t \in Trips, UndoTrip(r, t)
  PROVE  Here(r)'
<1>1. TripGone(t) /\ tripSoiled' = tripSoiled \cup {t} /\ UNCHANGED <<tripPc, tripMem>>
  BY DEF UndoTrip
<1>2. Now'
  BY <1>1, GoneNow DEF IInv
<1>3. At(trip', driverPay', tripMoney', tripSoiled', "idle", tripMem'[r])
  BY <1>2, IdleAt DEF Now
<1> QED BY <1>1, <1>3 DEF Here

LEMMA DropHere ==
  ASSUME IInv, Now, NEW r \in Requests, tripPc[r] = "idle", NEW e, DropEntry(r, e)
  PROVE  Here(r)'
<1>1. EntryDeleted(e) /\ UNCHANGED <<tripPc, tripMem, tripSoiled>>
  BY DEF DropEntry
<1>2. Now'
  BY <1>1, DeletedSettled DEF Now, IInv
<1>3. At(trip', driverPay', tripMoney', tripSoiled', "idle", tripMem'[r])
  BY <1>2, IdleAt DEF Now
<1> QED BY <1>1, <1>3 DEF Here


\* An amount is edited in the money log.
LEMMA EditHere ==
  ASSUME IInv, Now, NEW r \in Requests, tripPc[r] = "idle", NEW e \in DOMAIN tripMoney,
         NEW amount \in TripAmounts, EditTripEntry(r, e, amount)
  PROVE  Here(r)'
<1>1. /\ tripMoney[e] # None /\ tripMoney' = [tripMoney EXCEPT ![e].amount = amount]
      /\ UNCHANGED <<trip, driverPay>>
  BY DEF EditTripEntry
<1>2. /\ LocalsOK /\ amount \in Nat /\ tripMoney \in Money /\ e # None
      /\ \A t \in Trips : trip[t] \in TripRow \cup {None}
  BY Columns, Numbers DEF IInv
<1>3. TripEdited(tripMoney, tripMoney', e, amount)
  BY <1>1 DEF TripEdited
<1>4. PICK b, S, L : b = amount /\ S = tripSoiled /\ L = tripMoney'
  OBVIOUS
<1>5. TripEdited(tripMoney, L, e, b) /\ b \in Nat
  BY <1>2, <1>3, <1>4
<1>6. ASSUME NEW t \in Trips
      PROVE  Own(driverPay, tripMoney, t, trip[t]) /\ (t \notin S => Right(driverPay, tripMoney, t, trip[t]))
  BY <1>4 DEF Now, Settled, Books
<1>7. \A t \in Trips : Own(driverPay, L, t, trip[t])
  BY <1>2, <1>5, <1>6, EditedOwn
<1>8. CASE tripMoney[e].kind = "weight"
  <2>1. PICK m : m = [TripBlank EXCEPT !.entry = e, !.amount = amount]
    OBVIOUS
  <2>2. /\ UNCHANGED tripSoiled /\ TripGoto(r, "mirrorWeight") /\ TripRemember(r, m)
        /\ m.entry = e /\ m.amount = b
    BY <1>4, <1>8, <2>1 DEF EditTripEntry, TripBlank
  <2>3. tripPc'[r] = "mirrorWeight" /\ tripMem'[r] = m
    BY <1>2, <2>2, Went
  <2>4. ASSUME NEW t \in Trips PROVE Books(driverPay, L, S, t, Want(trip[t], t, "mirrorWeight", m))
    <3>1. PICK x \in TripRow \cup {None} : x = trip[t]
      BY <1>2
    <3>2. PICK y : y = IF x = None THEN None ELSE IF x.weightTx = e THEN [x EXCEPT !.weight = b] ELSE x
      OBVIOUS
    <3>3. Want(x, t, "mirrorWeight", m) = y
      BY <2>2, <3>2 DEF Want
    <3>4. Own(driverPay, tripMoney, t, x)
      BY <1>6, <3>1
    <3>5. ASSUME x # None
          PROVE  /\ y # None /\ y.agreed = x.agreed /\ y.delayTx = x.delayTx /\ y.fee = x.fee
                 /\ y.weightTx = x.weightTx /\ y.weight = (IF x.weightTx = e THEN b ELSE x.weight)
      <4>1. x \in TripRow /\ [x EXCEPT !.weight = b] \in TripRow
        BY <1>5, <3>5 DEF TripRow
      <4> QED BY <3>2, <3>5, <4>1, NotNone DEF TripRow
    <3>6. ASSUME x # None, NEW k \in ChargeKinds
          PROVE  /\ Ptr(y, k) = Ptr(x, k)
                 /\ Due(y, k) = IF Ptr(x, k) = e /\ tripMoney[e].trip = t THEN b ELSE Due(x, k)
      <4>1. Ptr(x, k) = e => tripMoney[e].trip = t /\ k = "weight"
        BY <1>1, <1>2, <1>8, <3>4, <3>6 DEF Own
      <4>2. CASE k = "weight"
        BY <3>5, <3>6, <4>1, <4>2 DEF Ptr, Due
      <4>3. CASE k # "weight"
        BY <3>5, <3>6, <4>1, <4>3 DEF Ptr, Due, ChargeKinds
      <4> QED BY <4>2, <4>3
    <3>7. x = None <=> y = None
      BY <3>2, <3>5
    <3>8. x # None => y.agreed = x.agreed
      BY <3>5
    <3>9. tripMoney[e].kind \in ChargeKinds
      BY <1>8 DEF ChargeKinds
    <3>10. /\ Own(driverPay, L, t, y)
           /\ Right(driverPay, tripMoney, t, x) => Right(driverPay, L, t, y)
      BY <1>2, <1>5, <3>4, <3>6, <3>7, <3>8, <3>9, EditedBooks
    <3> QED BY <1>6, <3>1, <3>3, <3>10 DEF Books
  <2>5. Knows(trip, driverPay, L, S, "mirrorWeight", m)
    BY DEF Knows, WithTrip, Charging
  <2>6. At(trip, driverPay, L, S, "mirrorWeight", m)
    BY <1>7, <2>4, <2>5 DEF At
  <2> QED BY <1>1, <1>4, <2>2, <2>3, <2>6 DEF Here
<1>9. CASE tripMoney[e].kind # "weight"
  <2>1. tripSoiled' = tripSoiled \cup {tripMoney[e].trip} /\ UNCHANGED <<tripPc, tripMem>>
    BY <1>9 DEF EditTripEntry
  <2>2. ASSUME NEW t \in Trips, t \notin tripSoiled' PROVE Right(driverPay, L, t, trip[t])
    <3>1. t \notin S /\ tripMoney[e].trip # t
      BY <1>4, <2>1, <2>2
    <3>2. PICK x, y : x = trip[t] /\ y = x
      OBVIOUS
    <3>3. Own(driverPay, tripMoney, t, x) /\ Right(driverPay, tripMoney, t, x)
      BY <1>6, <3>1, <3>2
    <3>4. x # None => /\ y.agreed = x.agreed
                      /\ \A k \in ChargeKinds :
                            /\ Ptr(y, k) = Ptr(x, k)
                            /\ Due(y, k) = IF Ptr(x, k) = e /\ tripMoney[e].trip = t THEN b ELSE Due(x, k)
      BY <3>1, <3>2
    <3>5. x = None <=> y = None
      BY <3>2
    <3>6. Right(driverPay, L, t, y)
      BY <1>2, <1>5, <3>1, <3>3, <3>4, <3>5, EditedBooks
    <3> QED BY <3>2, <3>6
  <2>3. Now'
    BY <1>1, <1>4, <1>7, <2>2 DEF Now, Settled, Books
  <2>4. At(trip', driverPay', tripMoney', tripSoiled', "idle", tripMem'[r])
    BY <2>3, IdleAt DEF Now
  <2> QED BY <2>1, <2>4 DEF Here
<1> QED BY <1>8, <1>9

\* A request that is refused has left nothing half written.
LEMMA RefuseHere ==
  ASSUME IInv, NEW r \in Requests, Here(r), TripRefuse(r)
  PROVE  Here(r)'
<1>1. TripRefused(r) /\ TripEnd(r) /\ UNCHANGED <<trip, driverPay, tripMoney, tripSoiled>> /\ LocalsOK
  BY DEF TripRefuse, tripRows, IInv
<1>2. PICK m, c : m = tripMem[r] /\ c = m.trip
  OBVIOUS
<1>3. Knows(trip, driverPay, tripMoney, tripSoiled, tripPc[r], m)
  BY <1>2 DEF Here, At
<1>4. ASSUME tripPc[r] \notin Writing PROVE Now
  BY <1>4, PlainNow
<1>5. ASSUME tripPc[r] = "weight" PROVE Now
  <2>1. m.row.weightTx # None /\ tripMoney[m.row.weightTx] = None
    BY <1>1, <1>2, <1>5 DEF TripRefused
  <2>2. /\ c \in Trips /\ trip[c] \in TripRow /\ Knows(trip, driverPay, tripMoney, tripSoiled, "weight", m)
        /\ \A t \in Trips : Own(driverPay, tripMoney, t, trip[t])
        /\ \A t \in Trips \ {c} : Books(driverPay, tripMoney, tripSoiled, t, trip[t])
        /\ Books(driverPay, tripMoney, tripSoiled, c, Want(trip[c], c, "weight", m))
    BY <1>2, <1>5, ChargingFinds
  <2>3. PICK x, old : old = trip[c] /\ x = [old EXCEPT !.fee = m.fee, !.delayTx = m.row.delayTx]
    OBVIOUS
  <2>4. old \in TripRow /\ x.weightTx = old.weightTx /\ old.weightTx = m.row.weightTx
    BY <1>2, <2>2, <2>3 DEF Knows, TripRow
  <2>5. /\ m.row \in TripRow /\ m.fee \in Nat
    BY <1>2, <1>5, ChargingFinds
  <2>6. x \in TripRow
    <3>1. m.row.delayTx \in Nat \cup {None}
      BY <2>5 DEF TripRow
    <3> QED BY <2>3, <2>4, <2>5, <3>1 DEF TripRow
  <2>7. Want(old, c, "weight", m) = x
    BY <1>2, <2>3, <2>4, NotNone DEF Want
  <2>8. ~Right(driverPay, tripMoney, c, x)
    <3>1. x # None /\ Ptr(x, "weight") = m.row.weightTx /\ "weight" \in ChargeKinds
      BY <2>4, <2>6, NotNone DEF Ptr, ChargeKinds
    <3> QED BY <2>1, <3>1 DEF Right
  <2>9. c \in tripSoiled
    BY <2>2, <2>3, <2>7, <2>8 DEF Books
  <2>10. Books(driverPay, tripMoney, tripSoiled, c, trip[c])
    BY <2>2, <2>9 DEF Books
  <2> QED BY <2>2, <2>10 DEF Now, Settled
<1>6. ASSUME tripPc[r] \in {"arrive", "writeWeight", "mirrorWeight"} PROVE Now
  <2>1. tripPc[r] \in {"arrive", "writeWeight"} /\ trip[c] = None
    BY <1>1, <1>2, <1>6 DEF TripRefused, IsTrip
  <2> QED BY <1>2, <1>3, <2>1 DEF Knows, WithTrip, Charging
<1>7. Now
  BY <1>4, <1>5, <1>6 DEF Writing
<1>8. Now'
  BY <1>1, <1>7 DEF Now
<1> QED BY <1>1, <1>8, EndsHere

LEMMA CutOffHere ==
  ASSUME IInv, NEW r \in Requests, Here(r), TripCutOff(r)
  PROVE  Here(r)'
<1>1. /\ tripSoiled' = tripSoiled \cup {t \in Trips : IsTrip(t)} /\ TripEnd(r) /\ LocalsOK
      /\ UNCHANGED <<trip, driverPay, tripMoney>>
  BY DEF TripCutOff, tripRows, IInv
<1>2. PICK m, l : m = tripMem[r] /\ l = tripPc[r]
  OBVIOUS
<1>3. \A t \in Trips : /\ Own(driverPay, tripMoney, t, trip[t])
                       /\ Books(driverPay, tripMoney, tripSoiled, t, Want(trip[t], t, l, m))
  BY <1>2 DEF Here, At
<1>4. ASSUME NEW t \in Trips, t \notin tripSoiled' PROVE Right(driverPay, tripMoney, t, trip[t])
  <2>1. t \notin tripSoiled /\ trip[t] = None
    BY <1>1, <1>4 DEF IsTrip
  <2>2. Want(trip[t], t, l, m) = None
    BY <2>1 DEF Want
  <2> QED BY <1>3, <2>1, <2>2 DEF Books
<1>5. Now'
  BY <1>1, <1>3, <1>4 DEF Now, Settled, Books
<1> QED BY <1>1, <1>5, EndsHere


-----------------------------------------------------------------------------
(* The steps together.                                                     *)

LEMMA BeginHere ==
  ASSUME IInv, Now, NEW r \in Requests, tripPc[r] = "idle", BeginTrip(r)
  PROVE  Here(r)'
<1>1. ASSUME NEW t \in Trips,
             \/ \E agreed \in Freights, client \in BOOLEAN : UpdateTrip(r, t, agreed, client)
             \/ \E kind \in PayKinds, amount \in TripAmounts, source \in Sources,
                   bundled \in TripAmounts \cup {0} : BeginPayDriver(r, t, kind, amount, source, bundled)
             \/ \E late \in LateDays, weight \in TripAmounts \cup {0, None} : BeginArrival(r, t, late, weight)
             \/ \E amount \in TripAmounts \cup {0} : BeginWeight(r, t, amount)
             \/ BeginRemoveTrip(r, t)
             \/ UndoTrip(r, t)
      PROVE  Here(r)'
  BY <1>1, UpdateHere, BeginPayHere, BeginChargeHere, BeginRemoveHere, UndoTripHere
<1>2. ASSUME NEW t \in Trips, NEW agreed \in Freights, NEW client \in BOOLEAN,
             NEW first \in TripAmounts \cup {0}, NEW tea \in TripAmounts \cup {0},
             CreateTrip(r, t, agreed, client, first, tea, "cash")
      PROVE  Here(r)'
  BY <1>2, CreateHere
<1>3. ASSUME NEW n \in DOMAIN driverPay, BeginUnpay(r, n) PROVE Here(r)'
  BY <1>3, BeginUnpayHere
<1>4. ASSUME NEW e \in DOMAIN tripMoney,
             DropEntry(r, e) \/ \E amount \in TripAmounts : EditTripEntry(r, e, amount)
      PROVE  Here(r)'
  BY <1>4, DropHere, EditHere
<1> QED BY <1>1, <1>2, <1>3, <1>4 DEF BeginTrip

LEMMA StepHere ==
  ASSUME IInv, NEW r \in Requests, Here(r), StepTrip(r) \/ TripCutOff(r)
  PROVE  Here(r)'
<1>1. CASE StepTrip(r)
  BY <1>1, PayHere, UnpayHere, ChargeDelayHere, ChargeWeightHere, WriteHere, ReweighHere,
     RemoveEntryHere, RemoveTripHere, RefuseHere DEF StepTrip
<1>2. CASE TripCutOff(r)
  BY <1>2, CutOffHere
<1> QED BY <1>1, <1>2

\* A request begins where it may, goes on where it is, and leaves the others where they are.
LEMMA GoesTo ==
  ASSUME LocalsOK, NEW r \in Requests, NEW l, TripGoto(r, l)
  PROVE  \A q \in Requests \ {r} : tripPc'[q] = tripPc[q]
  BY DEF LocalsOK, TripGoto

Apart(r) == \A q \in Requests \ {r} : tripPc'[q] = tripPc[q]

LEMMA BeginApart ==
  ASSUME LocalsOK, NEW r \in Requests, BeginTrip(r)
  PROVE  Apart(r) /\ EnterTrip(r) /\ UNCHANGED tripOverlap
<1>1. ASSUME NEW l, TripGoto(r, l) PROVE Apart(r)
  BY <1>1, GoesTo DEF Apart
<1>2. ASSUME UNCHANGED tripPc PROVE Apart(r)
  BY <1>2 DEF Apart
<1>3. ASSUME NEW t \in Trips, NEW agreed, NEW client, NEW first, NEW tea,
             CreateTrip(r, t, agreed, client, first, tea, "cash")
      PROVE  Apart(r) /\ EnterTrip(r) /\ UNCHANGED tripOverlap
  BY <1>1, <1>3 DEF CreateTrip
<1>4. ASSUME NEW t \in Trips,
             \/ \E agreed \in Freights, client \in BOOLEAN : UpdateTrip(r, t, agreed, client)
             \/ UndoTrip(r, t)
      PROVE  Apart(r) /\ EnterTrip(r) /\ UNCHANGED tripOverlap
  BY <1>2, <1>4 DEF UpdateTrip, UndoTrip
<1>5. ASSUME NEW t \in Trips, NEW kind \in PayKinds, NEW amount, NEW source, NEW bundled,
             BeginPayDriver(r, t, kind, amount, source, bundled)
      PROVE  Apart(r) /\ EnterTrip(r) /\ UNCHANGED tripOverlap
  BY <1>1, <1>5 DEF BeginPayDriver
<1>6. ASSUME NEW t \in Trips,
             \/ \E late \in LateDays, weight \in TripAmounts \cup {0, None} : BeginArrival(r, t, late, weight)
             \/ \E amount \in TripAmounts \cup {0} : BeginWeight(r, t, amount)
             \/ BeginRemoveTrip(r, t)
      PROVE  Apart(r) /\ EnterTrip(r) /\ UNCHANGED tripOverlap
  BY <1>1, <1>6 DEF BeginArrival, BeginWeight, BeginRemoveTrip
<1>7. ASSUME NEW n, BeginUnpay(r, n)
      PROVE  Apart(r) /\ EnterTrip(r) /\ UNCHANGED tripOverlap
  BY <1>1, <1>7 DEF BeginUnpay
<1>8. ASSUME NEW e, DropEntry(r, e)
      PROVE  Apart(r) /\ EnterTrip(r) /\ UNCHANGED tripOverlap
  BY <1>2, <1>8 DEF DropEntry
<1>9. ASSUME NEW e, NEW amount, EditTripEntry(r, e, amount)
      PROVE  Apart(r) /\ EnterTrip(r) /\ UNCHANGED tripOverlap
  <2>1. /\ EnterTrip(r) /\ UNCHANGED tripOverlap
        /\ TripGoto(r, "mirrorWeight") \/ UNCHANGED tripPc
    BY <1>9 DEF EditTripEntry
  <2> QED BY <1>1, <1>2, <2>1
<1> QED BY <1>3, <1>4, <1>5, <1>6, <1>7, <1>8, <1>9 DEF BeginTrip

LEMMA StepApart ==
  ASSUME LocalsOK, NEW r \in Requests, StepTrip(r) \/ TripCutOff(r)
  PROVE  Apart(r) /\ tripPc[r] # "idle" /\ UNCHANGED tripOverlap
<1>1. ASSUME NEW l, TripGoto(r, l) PROVE Apart(r)
  BY <1>1, GoesTo DEF Apart
<1>2. ASSUME UNCHANGED tripPc PROVE Apart(r)
  BY <1>2 DEF Apart
<1>3. ASSUME TripEnd(r) PROVE Apart(r)
  BY <1>1, <1>3 DEF TripEnd
<1>4. CASE PayFirst(r) \/ PayTea(r) \/ PayDriver(r) \/ PayBundled(r) \/ Unpay(r)
  BY <1>1, <1>3, <1>4 DEF PayFirst, PayTea, PayDriver, PayBundled, Unpay
<1>5. CASE ChargeDelay(r) \/ ChargeWeight(r) \/ Reweigh(r)
  BY <1>1, <1>5 DEF ChargeDelay, ChargeWeight, Reweigh, Charged
<1>6. CASE WriteArrival(r) \/ WriteWeight(r) \/ RemoveTrip(r) \/ TripCutOff(r)
  BY <1>3, <1>6 DEF WriteArrival, WriteWeight, RemoveTrip, TripCutOff
<1>7. CASE MirrorWeight(r)
  BY <1>3, <1>7 DEF MirrorWeight
<1>8. ASSUME NEW e, RemoveEntryOf(r, e)
      PROVE  Apart(r) /\ tripPc[r] # "idle" /\ UNCHANGED tripOverlap
  BY <1>2, <1>8 DEF RemoveEntryOf
<1>9. CASE TripRefuse(r)
  BY <1>3, <1>9 DEF TripRefuse, TripRefused
<1> QED BY <1>4, <1>5, <1>6, <1>7, <1>8, <1>9 DEF StepTrip

-----------------------------------------------------------------------------
(* The invariant, and what follows from it.                                *)

LEMMA OneAtTimeInit == TripInit => OneAtTime
<1> SUFFICES ASSUME TripInit PROVE OneAtTime
  OBVIOUS
<1>1. /\ trip = [t \in Trips |-> None] /\ driverPay = << >> /\ tripMoney = << >>
      /\ tripPc = [r \in Requests |-> "idle"]
  BY DEF TripInit
<1>2. DOMAIN driverPay = {} /\ DOMAIN tripMoney = {} /\ \A t \in Trips : trip[t] = None
  BY <1>1
<1>3. \A t \in Trips : Own(driverPay, tripMoney, t, trip[t]) /\ Right(driverPay, tripMoney, t, trip[t])
  BY <1>2 DEF Own, Right
<1>4. Settled(trip, driverPay, tripMoney, tripSoiled)
  BY <1>3 DEF Settled, Books
<1>5. At(trip, driverPay, tripMoney, tripSoiled, "idle", TripBlank)
  BY <1>4, IdleAt
<1> QED BY <1>1, <1>5 DEF OneAtTime

\* One step of the request r, the only one under way.
LEMMA OneAtTimeMove ==
  ASSUME NEW r \in Requests, UNCHANGED tripOverlap,
         ~tripOverlap => /\ \A q \in Requests \ {r} : tripPc'[q] = "idle"
                         /\ Here(r)'
  PROVE  OneAtTime'
<1> SUFFICES ASSUME ~tripOverlap'
             PROVE  /\ \A q, p \in Requests : tripPc'[q] # "idle" /\ tripPc'[p] # "idle" => q = p
                    /\ \A q \in Requests : tripPc'[q] # "idle" =>
                          At(trip', driverPay', tripMoney', tripSoiled', tripPc'[q], tripMem'[q])
                    /\ TripsIdle' => At(trip', driverPay', tripMoney', tripSoiled', "idle", TripBlank)
  BY DEF OneAtTime
<1>1. /\ \A q \in Requests \ {r} : tripPc'[q] = "idle"
      /\ At(trip', driverPay', tripMoney', tripSoiled', tripPc'[r], tripMem'[r])
  BY DEF Here
<1>2. ASSUME TripsIdle'
      PROVE  At(trip', driverPay', tripMoney', tripSoiled', "idle", TripBlank)
  <2>1. tripPc'[r] = "idle"
    BY <1>2 DEF TripsIdle
  <2>2. At(trip', driverPay', tripMoney', tripSoiled', "idle", tripMem'[r])
    BY <1>1, <2>1
  <2> QED BY <2>2, IdleAt
<1> QED BY <1>1, <1>2

LEMMA OneAtTimeNext == IInv /\ OneAtTime /\ [TripNext]_tripVars => OneAtTime'
<1> SUFFICES ASSUME IInv, OneAtTime, [TripNext]_tripVars PROVE OneAtTime'
  OBVIOUS
<1>1. CASE UNCHANGED tripVars
  BY <1>1 DEF tripVars, OneAtTime, TripsIdle
<1>2. ASSUME NEW r \in Requests, BeginTrip(r) PROVE OneAtTime'
  <2>1. Apart(r) /\ EnterTrip(r) /\ UNCHANGED tripOverlap
    BY <1>2, BeginApart DEF IInv
  <2>2. ASSUME ~tripOverlap PROVE (\A q \in Requests \ {r} : tripPc'[q] = "idle") /\ Here(r)'
    <3>1. TripsIdle /\ tripPc[r] = "idle"
      BY <2>1, <2>2 DEF EnterTrip
    <3>2. At(trip, driverPay, tripMoney, tripSoiled, "idle", TripBlank)
      BY <2>2, <3>1 DEF OneAtTime
    <3>3. Now
      BY <3>2, IdleAt DEF Now
    <3>4. Here(r)'
      BY <1>2, <3>1, <3>3, BeginHere
    <3> QED BY <2>1, <3>1, <3>4 DEF Apart, TripsIdle
  <2> QED BY <2>1, <2>2, OneAtTimeMove
<1>3. ASSUME NEW r \in Requests, StepTrip(r) \/ TripCutOff(r) PROVE OneAtTime'
  <2>1. Apart(r) /\ tripPc[r] # "idle" /\ UNCHANGED tripOverlap
    BY <1>3, StepApart DEF IInv
  <2>2. ASSUME ~tripOverlap PROVE (\A q \in Requests \ {r} : tripPc'[q] = "idle") /\ Here(r)'
    <3>1. Here(r) /\ \A q \in Requests \ {r} : tripPc[q] = "idle"
      BY <2>1, <2>2 DEF OneAtTime, Here
    <3>2. Here(r)'
      BY <1>3, <3>1, StepHere
    <3> QED BY <2>1, <3>1, <3>2 DEF Apart
  <2> QED BY <2>1, <2>2, OneAtTimeMove
<1> QED BY <1>1, <1>2, <1>3 DEF TripNext

\* Of requests one at a time, the books of a trip agree with the money log: each charge with
\* its entry and its amount, each entry with the payment or the charge it stands for, the
\* freight paid with the freight agreed (driver-trips.service.ts, transaction-cascade.ts).
THEOREM TripBooksAlwaysAgree == TripSpec => []TripBooksAgree
<1>1. ASSUME IInv, OneAtTime, TripsCalm PROVE ChargesAgree /\ EntriesOwned /\ FreightWithinAgreed
  <2>1. At(trip, driverPay, tripMoney, tripSoiled, "idle", TripBlank)
    BY <1>1 DEF OneAtTime, TripsCalm
  <2>2. Settled(trip, driverPay, tripMoney, tripSoiled)
    BY <2>1, IdleAt
  <2>3. /\ \A t \in Trips \ tripSoiled : Right(driverPay, tripMoney, t, trip[t])
        /\ DOMAIN tripMoney = EntryNo /\ tripsMade \subseteq Trips
    BY <1>1, <2>2, Columns DEF Settled, Books, IInv
  <2>4. ChargesAgree
    <3> SUFFICES ASSUME NEW t \in Trips \ tripSoiled, trip[t] # None
                 PROVE  /\ trip[t].delayTx # None =>
                              /\ tripMoney[trip[t].delayTx] # None
                              /\ tripMoney[trip[t].delayTx].amount = trip[t].fee
                        /\ trip[t].weightTx # None =>
                              /\ tripMoney[trip[t].weightTx] # None
                              /\ tripMoney[trip[t].weightTx].amount = trip[t].weight
      BY DEF ChargesAgree, IsTrip
    <3>1. \A k \in ChargeKinds : Ptr(trip[t], k) # None =>
              tripMoney[Ptr(trip[t], k)] # None /\ tripMoney[Ptr(trip[t], k)].amount = Due(trip[t], k)
      BY <2>3 DEF Right
    <3>2. /\ Ptr(trip[t], "delay") = trip[t].delayTx /\ Due(trip[t], "delay") = trip[t].fee
          /\ Ptr(trip[t], "weight") = trip[t].weightTx /\ Due(trip[t], "weight") = trip[t].weight
      BY DEF Ptr, Due
    <3> QED BY <3>1, <3>2 DEF ChargeKinds
  <2>5. EntriesOwned
    <3> SUFFICES ASSUME NEW e \in EntryNo, tripMoney[e] # None,
                        NEW t, t = tripMoney[e].trip, t \notin tripSoiled
                 PROVE  /\ IsTrip(t)
                        /\ CASE tripMoney[e].kind = "delay" -> trip[t].delayTx = e
                             [] tripMoney[e].kind = "weight" -> trip[t].weightTx = e
                             [] OTHER -> \E n \in PaysOf(t) : /\ driverPay[n].tx = e
                                                              /\ driverPay[n].amount = tripMoney[e].amount
      BY DEF EntriesOwned
    <3>1. t \in Trips
      BY <1>1, <2>3 DEF IInv, Rows, EntriesKnown
    <3>2. /\ trip[t] # None
          /\ tripMoney[e].kind \in ChargeKinds => Ptr(trip[t], tripMoney[e].kind) = e
          /\ tripMoney[e].kind \notin ChargeKinds =>
                \E n \in DOMAIN driverPay : /\ driverPay[n] # None /\ driverPay[n].trip = t
                                            /\ driverPay[n].tx = e /\ driverPay[n].amount = tripMoney[e].amount
      BY <2>3, <3>1 DEF Right
    <3> QED BY <3>2 DEF IsTrip, ChargeKinds, Ptr, PaysOf
  <2>6. FreightWithinAgreed
    BY <2>3, PaidToIs DEF FreightWithinAgreed, Right, IsTrip
  <2> QED BY <2>4, <2>5, <2>6
<1>2. IInv /\ OneAtTime => TripBooksAgree
  BY <1>1 DEF TripBooksAgree
<1> QED BY <1>2, InitInv, NextInv, OneAtTimeInit, OneAtTimeNext, PTL DEF TripSpec

-----------------------------------------------------------------------------
(* ManifestTrips.                                                          *)

Helpers == {"syncRides", "pairSheet", "pairRide", "copyUp", "copyDown", "syncDoc"}
CallRow == [f : Helpers, id : Sheets \cup Rides, prev : OrNone(Docs)]

\* A call is about a row that is there.
Known(c) == IF c.f \in {"syncRides", "pairSheet", "copyUp"}
            THEN c.id \in Sheets /\ IsSheet(c.id) ELSE c.id \in Rides /\ IsRide(c.id)

PairRows ==
    /\ sheet \in [Sheets -> OrNone(SheetRow)] /\ sheetsMade \in Nat
    /\ ride \in [Rides -> OrNone(RideRow)] /\ ridesMade \in Nat
    /\ \A s \in Sheets : IsSheet(s) => s <= sheetsMade
    /\ \A t \in Rides : IsRide(t) => t <= ridesMade
    /\ \A t \in Rides : IsRide(t) /\ ride[t].sheet # None => IsSheet(ride[t].sheet)

PairLeft == calls \in Seq(CallRow) /\ \A c \in Range(calls) : Known(c)
PairCounts == pairSoiled \subseteq Sheets /\ pairBegun \in Nat /\ pairCuts \in Nat

PhonesTheirs == PhonesEntered =>
    \A s \in Sheets : IsSheet(s) => sheet[s].phone \in {None, sheet[s].driver}

OneHolder == \A t, u \in Rides :
    IsRide(t) /\ IsRide(u) /\ ride[t].doc # None /\ ride[t].doc = ride[u].doc => t = u

\* What a sheet and its only ride must agree on, or what the request will still do for it.
Given(d) == d = None \/ \E u \in Rides : Holds(u, d)
Likeness(s, t) ==
    /\ sheet[s].driver \in {None, ride[t].driver}
    /\ sheet[s].car # None /\ ride[t].car # None => sheet[s].car = ride[t].car
WillGive(s, t, c) ==
    \/ c.f = "syncRides" /\ c.id = s
    \/ c.f = "syncDoc" /\ c.id = t /\ c.prev = sheet[s].doc
WillCopy(s, t, c) ==
    \/ c.f = "copyUp" /\ c.id = s
    \/ c.f = "copyDown" /\ c.id = t

DocMet(s, t) == Given(sheet[s].doc) \/ \E c \in Range(calls) : WillGive(s, t, c)
CopyMet(s, t) == Likeness(s, t) \/ \E c \in Range(calls) : WillCopy(s, t, c)

PairMet(s, t) == Ours(s) /\ RidesOf(s) = {t} => DocMet(s, t) /\ CopyMet(s, t)
PairsMeet == \A s \in Sheets \ pairSoiled, t \in Rides : PairMet(s, t)

PairTypes == PairRows /\ PairLeft /\ OneHolder
PairIInv == PairTypes /\ PairCounts /\ PhonesTheirs /\ PairsMeet

LEMMA PairNone == None \notin SheetRow /\ None \notin RideRow /\ None \notin Sheets /\ None \notin Rides
  BY PairAssumption

LEMMA SheetTyped ==
  ASSUME PairRows, NEW s \in Sheets
  PROVE  IsSheet(s) <=> sheet[s] \in SheetRow
  BY PairNone DEF PairRows, IsSheet, OrNone

LEMMA RideTyped ==
  ASSUME PairRows, NEW t \in Rides
  PROVE  IsRide(t) <=> ride[t] \in RideRow
  BY PairNone DEF PairRows, IsRide, OrNone

\* The ride that a sheet names is there, and so is the sheet that a ride names.
LEMMA RideNames ==
  ASSUME PairRows, NEW t \in Rides, IsRide(t)
  PROVE  /\ ride[t].sheet \in OrNone(Sheets) /\ ride[t].doc \in OrNone(Docs)
         /\ ride[t].sheet # None => IsSheet(ride[t].sheet)
  BY RideTyped DEF PairRows, RideRow

LEMMA RideOfMember ==
  ASSUME NEW s, NEW t
  PROVE  t \in RidesOf(s) <=> t \in Rides /\ IsRide(t) /\ ride[t].sheet = s
  BY DEF RidesOf

LEMMA LeastRide ==
  ASSUME NEW S, S \subseteq Rides, S # {}
  PROVE  Min(S) \in S
<1>1. S \subseteq Nat
  BY DEF Rides
<1>2. \E x \in S : \A y \in S : x <= y
  BY <1>1, LeastOf
<1> QED BY <1>2 DEF Min

-----------------------------------------------------------------------------
(* An edit leaves a row of its kind.                                       *)

LEMMA SheetEdited ==
  ASSUME NEW edit \in SheetEdits, NEW row \in SheetRow
  PROVE  /\ Edited(row, edit) \in SheetRow
         /\ "doc" \notin DOMAIN edit => Edited(row, edit).doc = row.doc
         /\ "driver" \notin DOMAIN edit => Edited(row, edit).driver = row.driver
         /\ "car" \notin DOMAIN edit => Edited(row, edit).car = row.car
         /\ PhonesEntered /\ row.phone \in {None, row.driver} =>
               Edited(row, edit).phone \in {None, Edited(row, edit).driver}
<1>1. DOMAIN row = DOMAIN SheetColumns
  BY DEF SheetRow, SheetColumns
<1>2. Touches(edit, SheetColumns)
  BY PairAssumption
<1>3. DOMAIN (Edited(row, edit)) = DOMAIN SheetColumns
  BY <1>1 DEF Edited
<1>4. \A x \in DOMAIN SheetColumns : row[x] \in SheetColumns[x]
  BY DEF SheetRow, SheetColumns
<1>5. \A x \in DOMAIN SheetColumns : (Edited(row, edit))[x] \in SheetColumns[x]
  BY <1>1, <1>2, <1>4 DEF Touches, Edited
<1>6. PICK new : new = Edited(row, edit)
  OBVIOUS
<1>7. new = [x \in DOMAIN SheetColumns |-> new[x]]
  BY <1>1, <1>2, <1>3, <1>6 DEF Touches, Edited
<1>8. new \in SheetRow
  BY <1>3, <1>5, <1>6, <1>7 DEF SheetRow, SheetColumns
<1>9. \A x \in {"doc", "driver", "car", "phone"} :
         new[x] = IF x \in DOMAIN edit THEN edit[x] ELSE row[x]
  BY <1>1, <1>6 DEF Edited, SheetColumns
<1>10. ASSUME PhonesEntered, row.phone \in {None, row.driver}
       PROVE  new.phone \in {None, new.driver}
  BY <1>9, <1>10 DEF PhonesEntered
<1> QED BY <1>6, <1>8, <1>9, <1>10

LEMMA RideEdited ==
  ASSUME NEW edit \in RideEdits, NEW row \in RideRow
  PROVE  /\ Edited(row, edit) \in RideRow
         /\ Edited(row, edit).doc = row.doc /\ Edited(row, edit).sheet = row.sheet
         /\ "driver" \notin DOMAIN edit => Edited(row, edit).driver = row.driver
         /\ "car" \notin DOMAIN edit => Edited(row, edit).car = row.car
<1>1. DOMAIN row = {"client", "date", "driver", "car", "doc", "sheet"}
  BY DEF RideRow
<1>2. Touches(edit, RideColumns)
  BY PairAssumption
<1>3. DOMAIN edit \subseteq {"client", "date", "driver", "car"}
  BY <1>2 DEF Touches, RideColumns
<1>4. PICK new : new = Edited(row, edit)
  OBVIOUS
<1>5. new = [x \in DOMAIN row |-> new[x]] /\ DOMAIN new = DOMAIN row
  BY <1>4 DEF Edited
<1>6. \A x \in DOMAIN row : new[x] = IF x \in DOMAIN edit THEN edit[x] ELSE row[x]
  BY <1>4 DEF Edited
<1>7. \A x \in {"client", "date", "driver", "car"} : x \in DOMAIN edit => edit[x] \in RideColumns[x]
  BY <1>2 DEF Touches
<1>8. \A x \in {"client", "date", "driver", "car"} : row[x] \in RideColumns[x]
  BY DEF RideRow, RideColumns
<1>9. \A x \in {"client", "date", "driver", "car"} : new[x] \in RideColumns[x]
  BY <1>1, <1>6, <1>7, <1>8
<1>10. new["doc"] = row["doc"] /\ new["sheet"] = row["sheet"]
  BY <1>1, <1>3, <1>6
<1>11. new \in RideRow
  BY <1>1, <1>5, <1>9, <1>10 DEF RideRow, RideColumns
<1>12. \A x \in {"driver", "car"} : x \notin DOMAIN edit => new[x] = row[x]
  BY <1>1, <1>6
<1> QED BY <1>4, <1>10, <1>11, <1>12

-----------------------------------------------------------------------------
(* What is left of a request.                                              *)

LEMMA CallMade ==
  ASSUME NEW f \in Helpers, NEW id \in Sheets \cup Rides, NEW prev \in OrNone(Docs)
  PROVE  /\ Call(f, id, prev) \in CallRow
         /\ Call(f, id, prev).f = f /\ Call(f, id, prev).id = id /\ Call(f, id, prev).prev = prev
  BY DEF Call, CallRow

LEMMA RangeJoins ==
  ASSUME NEW C, NEW p \in Seq(C), NEW q \in Seq(C)
  PROVE  p \o q \in Seq(C) /\ Range(p \o q) = Range(p) \cup Range(q)
<1>1. p \o q \in Seq(C) /\ Len(p \o q) = Len(p) + Len(q) /\ Len(p) \in Nat /\ Len(q) \in Nat
  OBVIOUS
<1>2. \A i \in 1 .. Len(p) + Len(q) :
         (p \o q)[i] = IF i <= Len(p) THEN p[i] ELSE q[i - Len(p)]
  OBVIOUS
<1>3. DOMAIN p = 1 .. Len(p) /\ DOMAIN q = 1 .. Len(q) /\ DOMAIN (p \o q) = 1 .. Len(p) + Len(q)
  BY <1>1
<1>4. ASSUME NEW i \in 1 .. Len(p) PROVE p[i] \in Range(p \o q)
  <2>1. i \in 1 .. Len(p) + Len(q) /\ (p \o q)[i] = p[i]
    BY <1>1, <1>2
  <2> QED BY <2>1, <1>3 DEF Range
<1>5. ASSUME NEW i \in 1 .. Len(q) PROVE q[i] \in Range(p \o q)
  <2>1. i + Len(p) \in 1 .. Len(p) + Len(q) /\ ~(i + Len(p) <= Len(p)) /\ i + Len(p) - Len(p) = i
    BY <1>1
  <2>2. (p \o q)[i + Len(p)] = q[i]
    BY <2>1, <1>2
  <2> QED BY <2>1, <2>2, <1>3 DEF Range
<1>6. ASSUME NEW i \in 1 .. Len(p) + Len(q) PROVE (p \o q)[i] \in Range(p) \cup Range(q)
  <2>1. CASE i <= Len(p)
    BY <2>1, <1>1, <1>2, <1>3 DEF Range
  <2>2. CASE ~(i <= Len(p))
    <3>1. i - Len(p) \in 1 .. Len(q)
      BY <2>2, <1>1
    <3> QED BY <3>1, <2>2, <1>2, <1>3 DEF Range
  <2> QED BY <2>1, <2>2
<1> QED BY <1>1, <1>3, <1>4, <1>5, <1>6 DEF Range

LEMMA RangeOne ==
  ASSUME NEW C, NEW c \in C
  PROVE  <<c>> \in Seq(C) /\ Range(<<c>>) = {c}
  BY DEF Range

LEMMA RangeTwo ==
  ASSUME NEW C, NEW c \in C, NEW d \in C
  PROVE  <<c, d>> \in Seq(C) /\ Range(<<c, d>>) = {c, d}
<1>1. <<c, d>> \in Seq(C) /\ DOMAIN <<c, d>> = 1 .. 2 /\ <<c, d>>[1] = c /\ <<c, d>>[2] = d
  OBVIOUS
<1>2. 1 .. 2 = {1, 2}
  OBVIOUS
<1> QED BY <1>1, <1>2 DEF Range

LEMMA RangeThree ==
  ASSUME NEW C, NEW c \in C, NEW d \in C, NEW e \in C
  PROVE  <<c, d, e>> \in Seq(C) /\ Range(<<c, d, e>>) = {c, d, e}
<1>1. /\ <<c, d, e>> \in Seq(C) /\ DOMAIN <<c, d, e>> = 1 .. 3
      /\ <<c, d, e>>[1] = c /\ <<c, d, e>>[2] = d /\ <<c, d, e>>[3] = e
  OBVIOUS
<1>2. 1 .. 3 = {1, 2, 3}
  OBVIOUS
<1> QED BY <1>1, <1>2 DEF Range

LEMMA RangeNone == \A C : <<>> \in Seq(C) /\ Range(<<>>) = {}
  BY DEF Range

LEMMA HeadTail ==
  ASSUME NEW C, NEW q \in Seq(C), q # <<>>
  PROVE  /\ Head(q) \in Range(q) /\ Head(q) \in C
         /\ Tail(q) \in Seq(C) /\ Range(q) = {Head(q)} \cup Range(Tail(q))
<1>1. Len(q) \in Nat \ {0} /\ DOMAIN q = 1 .. Len(q) /\ Head(q) = q[1] /\ q[1] \in C
  OBVIOUS
<1>2. /\ Tail(q) \in Seq(C) /\ DOMAIN Tail(q) = 1 .. Len(q) - 1
      /\ \A i \in 1 .. Len(q) - 1 : Tail(q)[i] = q[i + 1]
  OBVIOUS
<1>3. ASSUME NEW i \in 1 .. Len(q) PROVE q[i] \in {Head(q)} \cup Range(Tail(q))
  <2>1. CASE i = 1
    BY <2>1, <1>1
  <2>2. CASE i # 1
    <3>1. i - 1 \in 1 .. Len(q) - 1 /\ i - 1 + 1 = i
      BY <2>2, <1>1
    <3>2. Tail(q)[i - 1] = q[i]
      BY <3>1, <1>2
    <3> QED BY <3>1, <3>2, <1>2 DEF Range
  <2> QED BY <2>1, <2>2
<1>4. ASSUME NEW i \in 1 .. Len(q) - 1 PROVE Tail(q)[i] \in Range(q)
  <2>1. i + 1 \in 1 .. Len(q) /\ Tail(q)[i] = q[i + 1]
    BY <1>1, <1>2
  <2> QED BY <2>1, <1>1 DEF Range
<1>5. Head(q) \in Range(q)
  BY <1>1 DEF Range
<1> QED BY <1>1, <1>2, <1>3, <1>4, <1>5 DEF Range

\* A helper has run: it is done, what it wants done comes first, and the rest waits.
LEMMA HelperRan ==
  ASSUME PairLeft, NEW f \in Helpers, NEW more \in Seq(CallRow), Serving(f), Then(more)
  PROVE  /\ calls' \in Seq(CallRow)
         /\ Head(calls) \in Range(calls) /\ Head(calls) \in CallRow /\ Head(calls).f = f
         /\ Known(Head(calls))
         /\ \A c \in Range(calls) : c = Head(calls) \/ c \in Range(calls')
         /\ \A c \in Range(more) : c \in Range(calls')
         /\ \A c \in Range(calls') : c \in Range(more) \/ c \in Range(calls)
<1>1. calls \in Seq(CallRow) /\ calls # <<>> /\ Head(calls).f = f /\ calls' = more \o Tail(calls)
  BY DEF PairLeft, Serving, Then
<1>2. PICK q : q = calls
  OBVIOUS
<1>3. PICK l : l = Tail(q)
  OBVIOUS
<1>4. /\ Head(q) \in Range(q) /\ Head(q) \in CallRow /\ l \in Seq(CallRow)
      /\ Range(q) = {Head(q)} \cup Range(l)
  BY <1>1, <1>2, <1>3, HeadTail
<1>5. more \o l \in Seq(CallRow) /\ Range(more \o l) = Range(more) \cup Range(l)
  BY <1>4, RangeJoins
<1>6. Known(Head(calls))
  BY <1>2, <1>4 DEF PairLeft
<1>7. calls' = more \o l
  BY <1>1, <1>2, <1>3
<1> QED BY <1>1, <1>2, <1>4, <1>5, <1>6, <1>7

\* A step takes away no row that a call is about.
KnownKept == \A c : Known(c) => Known(c)'

LEMMA LeftAfter ==
  ASSUME PairLeft, NEW f \in Helpers, NEW more \in Seq(CallRow), Serving(f), Then(more),
         KnownKept, \A c \in Range(more) : Known(c)'
  PROVE  PairLeft'
  BY HelperRan DEF PairLeft, KnownKept

-----------------------------------------------------------------------------
(* A row changes.                                                          *)

LEMMA RideChanged ==
  ASSUME PairRows, OneHolder, PhonesTheirs, NEW t \in Rides, IsRide(t), NEW row \in RideRow,
         ride' = [ride EXCEPT ![t] = row], UNCHANGED <<sheet, sheetsMade, ridesMade>>,
         row.sheet # None => IsSheet(row.sheet),
         row.doc = ride[t].doc \/ \A u \in Rides \ {t} : ~Holds(u, row.doc)
  PROVE  /\ PairRows' /\ OneHolder' /\ PhonesTheirs' /\ KnownKept
         /\ ride'[t] = row /\ \A u \in Rides \ {t} : ride'[u] = ride[u]
<1>1. ride'[t] = row /\ \A u \in Rides \ {t} : ride'[u] = ride[u]
  BY DEF PairRows
<1>2. row # None
  BY PairNone
<1>3. ride' \in [Rides -> OrNone(RideRow)]
  BY DEF PairRows, OrNone
<1>4. \A u \in Rides : IsRide(u)' <=> IsRide(u)
  BY <1>1, <1>2 DEF IsRide
<1>5. \A s : IsSheet(s)' <=> IsSheet(s)
  BY DEF IsSheet
<1>6. \A u \in Rides : IsRide(u)' /\ ride'[u].sheet # None => IsSheet(ride'[u].sheet)
  BY <1>1, <1>4 DEF PairRows
<1>7. PairRows'
  BY <1>3, <1>4, <1>5, <1>6 DEF PairRows, IsSheet
<1>8. OneHolder'
  BY <1>1, <1>2, <1>4 DEF OneHolder, Holds, IsRide
<1>9. PhonesTheirs'
  BY <1>5 DEF PhonesTheirs
<1>10. KnownKept
  BY <1>4, <1>5 DEF KnownKept, Known
<1> QED BY <1>1, <1>7, <1>8, <1>9, <1>10

LEMMA SheetChanged ==
  ASSUME PairRows, OneHolder, PhonesTheirs, NEW s \in Sheets, IsSheet(s), NEW row \in SheetRow,
         sheet' = [sheet EXCEPT ![s] = row], UNCHANGED <<sheetsMade, ride, ridesMade>>,
         PhonesEntered => row.phone \in {None, row.driver}
  PROVE  /\ PairRows' /\ OneHolder' /\ PhonesTheirs' /\ KnownKept
         /\ sheet'[s] = row /\ \A u \in Sheets \ {s} : sheet'[u] = sheet[u]
<1>1. sheet'[s] = row /\ \A u \in Sheets \ {s} : sheet'[u] = sheet[u]
  BY DEF PairRows
<1>2. row # None
  BY PairNone
<1>3. sheet' \in [Sheets -> OrNone(SheetRow)]
  BY DEF PairRows, OrNone
<1>4. \A u \in Sheets : IsSheet(u)' <=> IsSheet(u)
  BY <1>1, <1>2 DEF IsSheet
<1>5. \A t \in Rides : IsRide(t)' <=> IsRide(t)
  BY DEF IsRide
<1>6. \A t \in Rides : IsRide(t) /\ ride[t].sheet # None => ride[t].sheet \in Sheets
  BY RideNames DEF OrNone
<1>7. \A t \in Rides : IsRide(t) /\ ride[t].sheet # None => sheet'[ride[t].sheet] # None
  BY <1>4, <1>6 DEF PairRows, IsSheet
<1>8. PairRows'
  BY <1>3, <1>4, <1>5, <1>7 DEF PairRows, IsRide, IsSheet
<1>9. OneHolder'
  BY <1>5 DEF OneHolder
<1>10. PhonesTheirs'
  BY <1>1, <1>4 DEF PhonesTheirs
<1>11. KnownKept
  BY <1>4, <1>5 DEF KnownKept, Known
<1> QED BY <1>1, <1>8, <1>9, <1>10, <1>11

LEMMA RowsStay ==
  ASSUME PairRows, OneHolder, PhonesTheirs, UNCHANGED pairRows
  PROVE  PairRows' /\ OneHolder' /\ PhonesTheirs' /\ KnownKept
<1>1. \A s : IsSheet(s)' <=> IsSheet(s)
  BY DEF IsSheet, pairRows
<1>2. \A t : IsRide(t)' <=> IsRide(t)
  BY DEF IsRide, pairRows
<1> QED BY <1>1, <1>2 DEF PairRows, OneHolder, PhonesTheirs, KnownKept, Known, pairRows

-----------------------------------------------------------------------------
(* A sheet that has one ride and has not parted from it.                   *)

Staying(s, t) == s \notin pairSoiled /\ ~Parted(s) /\ Ours(s)' /\ RidesOf(s)' = {t}

LEMMA MeetAgain ==
  ASSUME pairSoiled' = {s \in Sheets : (s \in pairSoiled \/ Parted(s))
                                     /\ \E t \in Rides : ride'[t] # None /\ ride'[t].sheet = s},
         \A s \in Sheets, t \in Rides : Staying(s, t) => DocMet(s, t)' /\ CopyMet(s, t)'
  PROVE  PairsMeet'
<1> SUFFICES ASSUME NEW s \in Sheets \ pairSoiled', NEW t \in Rides,
                    Ours(s)', RidesOf(s)' = {t}
             PROVE  DocMet(s, t)' /\ CopyMet(s, t)'
  BY DEF PairsMeet, PairMet
<1>1. ride'[t] # None /\ ride'[t].sheet = s
  BY DEF RidesOf, IsRide
<1>2. s \notin pairSoiled /\ ~Parted(s)
  BY <1>1
<1> QED BY <1>2 DEF Staying

LEMMA Stays ==
  ASSUME PairRows, NEW s \in Sheets, NEW t \in Rides, Staying(s, t)
  PROVE  /\ ride'[t] # None /\ ride'[t].sheet = s
         /\ sheet'[s] # None /\ sheet'[s].ours = TRUE /\ pairCuts' = pairCuts
         /\ RidesOf(s) \subseteq {t}
         /\ IsSheet(s) => Ours(s)
         /\ t \in RidesOf(s) => IsSheet(s) /\ IsRide(t) /\ RidesOf(s) = {t}
         /\ \A u \in Rides : IsSheet(s) /\ Holds(u, sheet[s].doc) /\ u \notin RidesOf(s)
               => ride'[u] # None /\ ride'[u].doc = sheet[s].doc
<1>1. ride'[t] # None /\ ride'[t].sheet = s
  BY DEF Staying, RidesOf, IsRide
<1>2. sheet'[s] # None /\ sheet'[s].ours /\ sheet'[s].ours \in BOOLEAN
  BY DEF Staying, Ours, IsSheet
<1>3. ASSUME NEW u \in RidesOf(s) PROVE u = t
  <2>1. u \in Rides /\ ride'[u] # None /\ ride'[u].sheet = s
    BY DEF Staying, Parted, RidesOf
  <2>2. u \in RidesOf(s)'
    BY <2>1 DEF RidesOf, IsRide
  <2> QED BY <2>2 DEF Staying
<1>4. IsSheet(s) => Ours(s)
  BY <1>2 DEF Staying, Parted, Ours
<1>5. t \in RidesOf(s) => IsSheet(s) /\ IsRide(t)
  BY PairNone DEF RidesOf, PairRows
<1>6. pairCuts' = pairCuts
  BY DEF Staying, Parted
<1>7. \A u \in Rides : IsSheet(s) /\ Holds(u, sheet[s].doc) /\ u \notin RidesOf(s)
               => ride'[u] # None /\ ride'[u].doc = sheet[s].doc
  BY DEF Staying, Parted
<1> QED BY <1>1, <1>2, <1>3, <1>4, <1>5, <1>6, <1>7

LEMMA DocKept ==
  ASSUME PairIInv, NEW s \in Sheets, NEW t \in Rides, Staying(s, t), t \in RidesOf(s),
         sheet'[s].doc = sheet[s].doc,
         Holds(t, sheet[s].doc) => ride'[t].doc = sheet[s].doc,
         \A c \in Range(calls) : WillGive(s, t, c) => c \in Range(calls')
  PROVE  DocMet(s, t)'
<1>1. PairRows
  BY DEF PairIInv, PairTypes
<1>2. Ours(s) /\ IsSheet(s) /\ RidesOf(s) = {t} /\ s \notin pairSoiled
  BY <1>1, Stays DEF Staying
<1>3. DocMet(s, t)
  BY <1>2 DEF PairIInv, PairsMeet, PairMet
<1>4. CASE sheet[s].doc = None
  BY <1>4 DEF DocMet, Given
<1>5. ASSUME NEW u \in Rides, Holds(u, sheet[s].doc) PROVE DocMet(s, t)'
  <2>1. ride'[u] # None /\ ride'[u].doc = sheet[s].doc /\ sheet[s].doc # None
    <3>1. CASE u = t
      BY <1>1, <1>5, <3>1, Stays DEF Holds
    <3>2. CASE u # t
      <4>1. u \notin RidesOf(s)
        BY <1>2, <3>2
      <4>2. ride'[u] # None /\ ride'[u].doc = sheet[s].doc
        BY <1>1, <1>2, <1>5, <4>1, Stays
      <4> QED BY <1>5, <4>2 DEF Holds
    <3> QED BY <3>1, <3>2
  <2> QED BY <2>1 DEF DocMet, Given, Holds, IsRide
<1>6. ASSUME NEW c \in Range(calls), WillGive(s, t, c) PROVE DocMet(s, t)'
  <2>1. c \in Range(calls') /\ WillGive(s, t, c)'
    BY <1>6 DEF WillGive
  <2> QED BY <2>1 DEF DocMet
<1> QED BY <1>3, <1>4, <1>5, <1>6 DEF DocMet, Given

LEMMA CopyKept ==
  ASSUME PairIInv, NEW s \in Sheets, NEW t \in Rides, Staying(s, t), t \in RidesOf(s),
         sheet'[s].driver = sheet[s].driver, sheet'[s].car = sheet[s].car,
         ride'[t].driver = ride[t].driver, ride'[t].car = ride[t].car,
         \A c \in Range(calls) : WillCopy(s, t, c) => c \in Range(calls')
  PROVE  CopyMet(s, t)'
<1>1. PairRows
  BY DEF PairIInv, PairTypes
<1>2. Ours(s) /\ RidesOf(s) = {t} /\ s \notin pairSoiled
  BY <1>1, Stays DEF Staying
<1>3. CopyMet(s, t)
  BY <1>2 DEF PairIInv, PairsMeet, PairMet
<1>4. CASE Likeness(s, t)
  BY <1>4 DEF CopyMet, Likeness
<1>5. ASSUME NEW c \in Range(calls), WillCopy(s, t, c) PROVE CopyMet(s, t)'
  <2>1. c \in Range(calls') /\ WillCopy(s, t, c)'
    BY <1>5 DEF WillCopy
  <2> QED BY <2>1 DEF CopyMet
<1> QED BY <1>3, <1>4, <1>5 DEF CopyMet

\* Every step keeps the types and leaves a sheet and its ride agreeing, or something to do.
Goes ==
    /\ PairTypes' /\ PhonesTheirs'
    /\ \A s \in Sheets, t \in Rides : Staying(s, t) => DocMet(s, t)' /\ CopyMet(s, t)'

LEMMA NothingLeft == calls = <<>> => Range(calls) = {}
  BY DEF Range

\* A call that is left is enough.
LEMMA DocLeft ==
  ASSUME NEW s, NEW t, NEW c \in Range(calls'), WillGive(s, t, c)'
  PROVE  DocMet(s, t)'
  BY DEF DocMet

LEMMA CopyLeft ==
  ASSUME NEW s, NEW t, NEW c \in Range(calls'), WillCopy(s, t, c)'
  PROVE  CopyMet(s, t)'
  BY DEF CopyMet

\* A sheet and its ride that the step does not touch.
LEMMA BothStay ==
  ASSUME PairIInv, NEW s \in Sheets, NEW t \in Rides, Staying(s, t),
         sheet'[s] = sheet[s], ride'[t] = ride[t],
         \A c \in Range(calls) : WillGive(s, t, c) \/ WillCopy(s, t, c) => c \in Range(calls')
  PROVE  DocMet(s, t)' /\ CopyMet(s, t)'
<1>1. PairRows
  BY DEF PairIInv, PairTypes
<1>2. ride'[t] # None /\ ride'[t].sheet = s
  BY <1>1, Stays
<1>3. t \in RidesOf(s)
  BY <1>2, RideOfMember DEF IsRide
<1>4. DocMet(s, t)'
  BY <1>3, DocKept DEF Holds
<1>5. CopyMet(s, t)'
  BY <1>3, CopyKept
<1> QED BY <1>4, <1>5

\* A ride comes to a sheet or leaves it.
LEMMA Paired ==
  ASSUME PairRows, OneHolder, PhonesTheirs, NEW t \in Rides, IsRide(t),
         NEW s \in OrNone(Sheets), s # None => IsSheet(s), Pair(s, t),
         UNCHANGED <<sheet, sheetsMade, ridesMade>>
  PROVE  /\ PairRows' /\ OneHolder' /\ PhonesTheirs' /\ KnownKept
         /\ ride'[t] # None /\ ride'[t].sheet = s /\ ride'[t].doc = ride[t].doc
         /\ \A u \in Rides \ {t} : ride'[u] = ride[u]
<1>a. PICK row : row = [ride[t] EXCEPT !.sheet = s]
  OBVIOUS
<1>1. ride[t] \in RideRow
  BY RideTyped
<1>2. row \in RideRow /\ row.sheet = s /\ row.doc = ride[t].doc /\ row # None
  BY <1>a, <1>1, PairNone DEF RideRow, OrNone
<1>3. ride' = [ride EXCEPT ![t] = row]
  BY <1>a DEF Pair, PairRows
<1>4. row.sheet # None => IsSheet(row.sheet)
  BY <1>2
<1>5. /\ PairRows' /\ OneHolder' /\ PhonesTheirs' /\ KnownKept
      /\ ride'[t] = row /\ \A u \in Rides \ {t} : ride'[u] = ride[u]
  BY <1>2, <1>3, <1>4, RideChanged
<1> QED BY <1>2, <1>5

-----------------------------------------------------------------------------
(* Requests.                                                               *)

LEMMA CreateSheetGoes ==
  ASSUME PairIInv, calls = <<>>, NEW form \in SheetForms, CreateSheet(form)
  PROVE  Goes
<1>a. PICK s0 : s0 = sheetsMade + 1
  OBVIOUS
<1>b. PICK h0 : h0 = Call("pairSheet", s0, None)
  OBVIOUS
<1>1. PairRows /\ PairLeft /\ OneHolder /\ PhonesTheirs
  BY DEF PairIInv, PairTypes
<1>2. /\ s0 \in Sheets /\ sheetsMade' = s0 /\ sheet' = [sheet EXCEPT ![s0] = form]
      /\ calls' = <<h0>> /\ UNCHANGED <<ride, ridesMade, pairCuts>>
  BY <1>a, <1>b DEF CreateSheet
<1>3. form \in SheetRow /\ form # None /\ (PhonesEntered => form.phone \in {None, form.driver})
  BY PairAssumption, PairNone DEF PhonesEntered
<1>4. sheetsMade \in Nat /\ ~IsSheet(s0)
  BY <1>1, <1>2, <1>a DEF PairRows
<1>5. sheet'[s0] = form /\ \A s \in Sheets \ {s0} : sheet'[s] = sheet[s]
  BY <1>1, <1>2 DEF PairRows
<1>6. sheet' \in [Sheets -> OrNone(SheetRow)]
  BY <1>1, <1>2, <1>3 DEF PairRows, OrNone
<1>7. h0 \in CallRow /\ h0.f = "pairSheet" /\ h0.id = s0
  BY <1>2, <1>b, CallMade DEF Helpers, OrNone
<1>8. calls' \in Seq(CallRow) /\ Range(calls') = {h0}
  BY <1>2, <1>7, RangeOne
<1>9. IsSheet(s0)'
  BY <1>3, <1>5, PairNone, <1>2 DEF IsSheet
<1>10. PairLeft'
  BY <1>2, <1>7, <1>8, <1>9 DEF PairLeft, Known
<1>11. \A s \in Sheets : IsSheet(s)' <=> IsSheet(s) \/ s = s0
  BY <1>5, <1>9 DEF IsSheet
<1>12. \A t \in Rides : IsRide(t)' <=> IsRide(t)
  BY <1>2 DEF IsRide
<1>13. \A s \in Sheets : IsSheet(s)' => s <= sheetsMade'
  <2> SUFFICES ASSUME NEW s \in Sheets, IsSheet(s)' PROVE s <= sheetsMade'
    OBVIOUS
  <2>1. s \in Nat
    BY DEF Sheets
  <2> QED BY <1>1, <1>2, <1>4, <1>11, <1>a, <2>1 DEF PairRows
<1>14. \A t \in Rides : IsRide(t) /\ ride[t].sheet # None => ride[t].sheet \in Sheets /\ IsSheet(ride[t].sheet)
  BY <1>1, RideNames DEF OrNone
<1>15. \A t \in Rides : IsRide(t) /\ ride[t].sheet # None => sheet'[ride[t].sheet] # None
  BY <1>3, <1>5, <1>14 DEF IsSheet
<1>16. PairRows'
  BY <1>1, <1>2, <1>4, <1>6, <1>12, <1>13, <1>15, <1>a DEF PairRows, IsSheet
<1>17. OneHolder'
  BY <1>1, <1>2, <1>12 DEF OneHolder
<1>18. PhonesTheirs'
  BY <1>1, <1>3, <1>5, <1>11 DEF PhonesTheirs
<1>19. ASSUME NEW s \in Sheets, NEW t \in Rides, Staying(s, t)
       PROVE  DocMet(s, t)' /\ CopyMet(s, t)'
  <2>1. t \in RidesOf(s)
    <3>1. ride'[t] # None /\ ride'[t].sheet = s
      BY <1>1, <1>19, Stays
    <3> QED BY <1>2, <3>1, RideOfMember DEF IsRide
  <2>2. s # s0
    BY <1>1, <1>4, <1>19, <2>1, Stays
  <2>3. sheet'[s] = sheet[s] /\ ride'[t] = ride[t]
    BY <1>2, <1>5, <2>2
  <2>4. Range(calls) = {}
    BY NothingLeft
  <2> QED BY <1>19, <2>1, <2>3, <2>4, DocKept, CopyKept DEF Holds
<1> QED BY <1>10, <1>16, <1>17, <1>18, <1>19 DEF Goes, PairTypes

LEMMA RemoveSheetGoes ==
  ASSUME PairIInv, calls = <<>>, NEW s0 \in Sheets, RemoveSheet(s0)
  PROVE  Goes
<1>1. PairRows /\ PairLeft /\ OneHolder /\ PhonesTheirs
  BY DEF PairIInv, PairTypes
<1>2. /\ IsSheet(s0) /\ sheet' = [sheet EXCEPT ![s0] = None]
      /\ ride' = [t \in Rides |-> IF t \in RidesOf(s0) THEN [ride[t] EXCEPT !.sheet = None] ELSE ride[t]]
      /\ UNCHANGED <<sheetsMade, ridesMade, calls, pairCuts>>
  BY DEF RemoveSheet
<1>3. sheet'[s0] = None /\ \A s \in Sheets \ {s0} : sheet'[s] = sheet[s]
  BY <1>1, <1>2 DEF PairRows
<1>4. \A t \in Rides : ride'[t] = IF t \in RidesOf(s0) THEN [ride[t] EXCEPT !.sheet = None] ELSE ride[t]
  BY <1>2
<1>5. ASSUME NEW t \in Rides
      PROVE  /\ ride'[t] \in OrNone(RideRow) /\ (ride'[t] # None <=> ride[t] # None)
             /\ IsRide(t) => /\ ride'[t].doc = ride[t].doc
                             /\ ride'[t].sheet = IF ride[t].sheet = s0 THEN None ELSE ride[t].sheet
  <2>1. CASE t \in RidesOf(s0)
    <3>1. IsRide(t) /\ ride[t].sheet = s0
      BY <2>1 DEF RidesOf
    <3>2. ride[t] \in RideRow /\ ride'[t] = [ride[t] EXCEPT !.sheet = None]
      BY <1>1, <1>4, <2>1, <3>1, RideTyped
    <3>3. ride'[t] \in RideRow /\ ride'[t].doc = ride[t].doc /\ ride'[t].sheet = None
      BY <3>2 DEF RideRow, OrNone
    <3> QED BY <3>1, <3>3, PairNone DEF OrNone, IsRide
  <2>2. CASE t \notin RidesOf(s0)
    BY <1>1, <1>4, <2>2 DEF PairRows, RidesOf
  <2> QED BY <2>1, <2>2
<1>6. \A s \in Sheets : IsSheet(s)' <=> IsSheet(s) /\ s # s0
  BY <1>3 DEF IsSheet
<1>7. \A t \in Rides : IsRide(t)' <=> IsRide(t)
  BY <1>5 DEF IsRide
<1>8. \A t \in Rides : IsRide(t) /\ ride'[t].sheet # None => sheet'[ride'[t].sheet] # None
  <2> SUFFICES ASSUME NEW t \in Rides, IsRide(t), ride'[t].sheet # None
               PROVE  sheet'[ride'[t].sheet] # None
    OBVIOUS
  <2>1. ride'[t].sheet = ride[t].sheet /\ ride[t].sheet # s0
    BY <1>5
  <2>2. ride[t].sheet \in Sheets /\ IsSheet(ride[t].sheet)
    BY <1>1, <2>1, RideNames DEF OrNone
  <2> QED BY <1>3, <2>1, <2>2 DEF IsSheet
<1>9. ride' \in [Rides -> OrNone(RideRow)]
  BY <1>2, <1>5
<1>10. sheet' \in [Sheets -> OrNone(SheetRow)]
  BY <1>1, <1>2 DEF PairRows, OrNone
<1>11. PairRows'
  BY <1>1, <1>2, <1>6, <1>7, <1>8, <1>9, <1>10 DEF PairRows, IsSheet
<1>12. PairLeft'
  BY <1>1, <1>2, NothingLeft DEF PairLeft
<1>13. OneHolder'
  BY <1>1, <1>5, <1>7 DEF OneHolder
<1>14. PhonesTheirs'
  BY <1>1, <1>3, <1>6 DEF PhonesTheirs
<1>15. ASSUME NEW s \in Sheets, NEW t \in Rides, Staying(s, t)
       PROVE  DocMet(s, t)' /\ CopyMet(s, t)'
  <2>1. s # s0 /\ ride'[t] # None /\ ride'[t].sheet = s
    BY <1>1, <1>3, <1>15, Stays
  <2>2. IsRide(t) /\ ride[t].sheet = s
    BY <1>5, <2>1, PairNone DEF IsRide
  <2>3. t \in RidesOf(s) /\ t \notin RidesOf(s0)
    BY <2>1, <2>2, RideOfMember
  <2>4. sheet'[s] = sheet[s] /\ ride'[t] = ride[t]
    BY <1>3, <1>4, <2>1, <2>3
  <2>5. Range(calls) = {}
    BY NothingLeft
  <2> QED BY <1>15, <2>3, <2>4, <2>5, DocKept, CopyKept DEF Holds
<1> QED BY <1>11, <1>12, <1>13, <1>14, <1>15 DEF Goes, PairTypes

LEMMA UpdateSheetGoes ==
  ASSUME PairIInv, calls = <<>>, NEW s0 \in Sheets, NEW edit \in SheetEdits, UpdateSheet(s0, edit)
  PROVE  Goes
<1>a. PICK row : row = Edited(sheet[s0], edit)
  OBVIOUS
<1>b. PICK p : p = IF {"doc"} \cap DOMAIN edit # {} THEN <<Call("syncRides", s0, sheet[s0].doc)>> ELSE <<>>
  OBVIOUS
<1>c. PICK q : q = IF {"driver", "car"} \cap DOMAIN edit # {} THEN <<Call("copyUp", s0, None)>> ELSE <<>>
  OBVIOUS
<1>d. PICK r : r = <<Call("pairSheet", s0, None)>>
  OBVIOUS
<1>1. PairRows /\ PairLeft /\ OneHolder /\ PhonesTheirs
  BY DEF PairIInv, PairTypes
<1>2. /\ IsSheet(s0) /\ sheet' = [sheet EXCEPT ![s0] = row] /\ calls' = p \o q \o r
      /\ UNCHANGED <<sheetsMade, ride, ridesMade, pairCuts>>
  BY <1>a, <1>b, <1>c, <1>d DEF UpdateSheet
<1>3. sheet[s0] \in SheetRow /\ sheet[s0].doc \in OrNone(Docs)
  BY <1>1, <1>2, SheetTyped DEF SheetRow
<1>4. /\ row \in SheetRow
      /\ "doc" \notin DOMAIN edit => row.doc = sheet[s0].doc
      /\ "driver" \notin DOMAIN edit => row.driver = sheet[s0].driver
      /\ "car" \notin DOMAIN edit => row.car = sheet[s0].car
      /\ PhonesEntered => row.phone \in {None, row.driver}
  BY <1>1, <1>2, <1>3, <1>a, SheetEdited DEF PhonesTheirs
<1>5. /\ PairRows' /\ OneHolder' /\ PhonesTheirs' /\ KnownKept
      /\ sheet'[s0] = row /\ \A u \in Sheets \ {s0} : sheet'[u] = sheet[u]
  BY <1>1, <1>2, <1>4, SheetChanged
<1>6. /\ p \in Seq(CallRow) /\ \A c \in Range(p) : c.f = "syncRides" /\ c.id = s0
      /\ "doc" \in DOMAIN edit => \E c \in Range(p) : c.f = "syncRides" /\ c.id = s0
  <2>1. PICK c : c = Call("syncRides", s0, sheet[s0].doc)
    OBVIOUS
  <2>2. c \in CallRow /\ c.f = "syncRides" /\ c.id = s0
    BY <2>1, <1>3, CallMade DEF Helpers
  <2>3. <<c>> \in Seq(CallRow) /\ Range(<<c>>) = {c}
    BY <2>2, RangeOne
  <2>4. CASE {"doc"} \cap DOMAIN edit # {}
    BY <1>b, <2>1, <2>2, <2>3, <2>4
  <2>5. CASE {"doc"} \cap DOMAIN edit = {}
    <3>1. p = <<>> /\ "doc" \notin DOMAIN edit
      BY <1>b, <2>5
    <3> QED BY <3>1, RangeNone
  <2> QED BY <2>4, <2>5
<1>7. /\ q \in Seq(CallRow) /\ \A c \in Range(q) : c.f = "copyUp" /\ c.id = s0
      /\ "driver" \in DOMAIN edit \/ "car" \in DOMAIN edit =>
            \E c \in Range(q) : c.f = "copyUp" /\ c.id = s0
  <2>1. PICK c : c = Call("copyUp", s0, None)
    OBVIOUS
  <2>2. c \in CallRow /\ c.f = "copyUp" /\ c.id = s0
    BY <2>1, CallMade DEF Helpers, OrNone
  <2>3. <<c>> \in Seq(CallRow) /\ Range(<<c>>) = {c}
    BY <2>2, RangeOne
  <2>4. CASE {"driver", "car"} \cap DOMAIN edit # {}
    BY <1>c, <2>1, <2>2, <2>3, <2>4
  <2>5. CASE {"driver", "car"} \cap DOMAIN edit = {}
    <3>1. q = <<>> /\ "driver" \notin DOMAIN edit /\ "car" \notin DOMAIN edit
      BY <1>c, <2>5
    <3> QED BY <3>1, RangeNone
  <2> QED BY <2>4, <2>5
<1>8. r \in Seq(CallRow) /\ \A c \in Range(r) : c.f = "pairSheet" /\ c.id = s0
  <2>1. PICK c : c = Call("pairSheet", s0, None)
    OBVIOUS
  <2>2. c \in CallRow /\ c.f = "pairSheet" /\ c.id = s0
    BY <2>1, CallMade DEF Helpers, OrNone
  <2> QED BY <1>d, <2>1, <2>2, RangeOne
<1>9. p \o q \in Seq(CallRow) /\ Range(p \o q) = Range(p) \cup Range(q)
  BY <1>6, <1>7, RangeJoins
<1>10. PICK l : l = p \o q
  OBVIOUS
<1>11. calls' \in Seq(CallRow) /\ Range(calls') = Range(p) \cup Range(q) \cup Range(r)
  <2>1. l \in Seq(CallRow) /\ calls' = l \o r
    BY <1>2, <1>9, <1>10
  <2>2. l \o r \in Seq(CallRow) /\ Range(l \o r) = Range(l) \cup Range(r)
    BY <1>8, <2>1, RangeJoins
  <2> QED BY <1>9, <1>10, <2>1, <2>2
<1>12. IsSheet(s0)'
  BY <1>4, <1>5, <1>2, PairNone DEF IsSheet
<1>13. PairLeft'
  <2> SUFFICES ASSUME NEW c \in Range(calls') PROVE Known(c)'
    BY <1>11 DEF PairLeft
  <2> QED BY <1>6, <1>7, <1>8, <1>11, <1>12 DEF Known
<1>14. ASSUME NEW s \in Sheets, NEW t \in Rides, Staying(s, t)
       PROVE  DocMet(s, t)' /\ CopyMet(s, t)'
  <2>1. ride'[t] # None /\ ride'[t].sheet = s
    BY <1>1, <1>14, Stays
  <2>2. t \in RidesOf(s) /\ ride'[t] = ride[t]
    BY <1>2, <2>1, RideOfMember DEF IsRide
  <2>3. Range(calls) = {}
    BY NothingLeft
  <2>4. DocMet(s, t)'
    <3>1. CASE s = s0 /\ "doc" \in DOMAIN edit
      <4>1. PICK c \in Range(p) : c.f = "syncRides" /\ c.id = s0
        BY <1>6, <3>1
      <4>2. c \in Range(calls') /\ WillGive(s, t, c)'
        BY <1>11, <3>1, <4>1 DEF WillGive
      <4> QED BY <4>2, DocLeft
    <3>2. CASE ~(s = s0 /\ "doc" \in DOMAIN edit)
      <4>1. sheet'[s].doc = sheet[s].doc
        BY <1>4, <1>5, <3>2
      <4> QED BY <1>14, <2>2, <2>3, <4>1, DocKept DEF Holds
    <3> QED BY <3>1, <3>2
  <2>5. CopyMet(s, t)'
    <3>1. CASE s = s0 /\ ("driver" \in DOMAIN edit \/ "car" \in DOMAIN edit)
      <4>1. PICK c \in Range(q) : c.f = "copyUp" /\ c.id = s0
        BY <1>7, <3>1
      <4>2. c \in Range(calls') /\ WillCopy(s, t, c)'
        BY <1>11, <3>1, <4>1 DEF WillCopy
      <4> QED BY <4>2, CopyLeft
    <3>2. CASE ~(s = s0 /\ ("driver" \in DOMAIN edit \/ "car" \in DOMAIN edit))
      <4>1. sheet'[s].driver = sheet[s].driver /\ sheet'[s].car = sheet[s].car
        BY <1>4, <1>5, <3>2
      <4> QED BY <1>14, <2>2, <2>3, <4>1, CopyKept
    <3> QED BY <3>1, <3>2
  <2> QED BY <2>4, <2>5
<1> QED BY <1>5, <1>13, <1>14 DEF Goes, PairTypes

LEMMA CreateRideGoes ==
  ASSUME PairIInv, calls = <<>>, NEW form \in RideForms, NEW s0 \in Sheets \cup {None},
         CreateRide(form, s0)
  PROVE  Goes
<1>a. PICK t0 : t0 = ridesMade + 1
  OBVIOUS
<1>b. PICK row : row = [client |-> form.client, date |-> form.date, driver |-> form.driver,
                        car |-> form.car, doc |-> None, sheet |-> s0]
  OBVIOUS
<1>c. PICK h0 : h0 = Call("pairRide", t0, None)
  OBVIOUS
<1>d. PICK h1 : h1 = Call("syncRides", s0, None)
  OBVIOUS
<1>e. PICK h2 : h2 = Call("copyDown", t0, None)
  OBVIOUS
<1>1. PairRows /\ PairLeft /\ OneHolder /\ PhonesTheirs
  BY DEF PairIInv, PairTypes
<1>2. /\ t0 \in Rides /\ ridesMade' = t0 /\ ride' = [ride EXCEPT ![t0] = row]
      /\ s0 # None => IsSheet(s0)
      /\ calls' = IF s0 = None THEN <<h0>> ELSE <<h1, h2>>
      /\ UNCHANGED <<sheet, sheetsMade, pairCuts>>
  BY <1>a, <1>b, <1>c, <1>d, <1>e DEF CreateRide
<1>3. form \in RideForm
  BY PairAssumption
<1>4. row \in RideRow /\ row # None /\ row.sheet = s0 /\ row.doc = None
  BY <1>3, <1>b, PairNone DEF RideForm, RideRow, OrNone
<1>5. ridesMade \in Nat /\ ~IsRide(t0)
  BY <1>1, <1>2, <1>a DEF PairRows
<1>6. ride'[t0] = row /\ \A t \in Rides \ {t0} : ride'[t] = ride[t]
  BY <1>1, <1>2 DEF PairRows
<1>7. ride' \in [Rides -> OrNone(RideRow)]
  BY <1>1, <1>2, <1>4 DEF PairRows, OrNone
<1>8. \A t \in Rides : IsRide(t)' <=> IsRide(t) \/ t = t0
  BY <1>4, <1>6 DEF IsRide
<1>9. \A s : IsSheet(s)' <=> IsSheet(s)
  BY <1>2 DEF IsSheet
<1>10. \A t \in Rides : IsRide(t)' => t <= ridesMade'
  <2> SUFFICES ASSUME NEW t \in Rides, IsRide(t)' PROVE t <= ridesMade'
    OBVIOUS
  <2>1. t \in Nat
    BY DEF Rides
  <2> QED BY <1>1, <1>2, <1>5, <1>8, <1>a, <2>1 DEF PairRows
<1>11. \A t \in Rides : IsRide(t)' /\ ride'[t].sheet # None => IsSheet(ride'[t].sheet)
  BY <1>1, <1>2, <1>4, <1>6, <1>8 DEF PairRows
<1>12. PairRows'
  <2>1. ridesMade' \in Nat /\ sheet' = sheet /\ sheetsMade' = sheetsMade
    BY <1>2, <1>5, <1>a
  <2>2. \A t \in Rides : IsRide(t)' /\ ride'[t].sheet # None => sheet'[ride'[t].sheet] # None
    BY <1>11, <2>1 DEF IsSheet
  <2>3. \A s \in Sheets : IsSheet(s)' => s <= sheetsMade'
    BY <1>1, <1>9, <2>1 DEF PairRows
  <2> QED BY <1>1, <1>7, <1>10, <2>1, <2>2, <2>3 DEF PairRows, IsSheet
<1>13. OneHolder'
  BY <1>1, <1>4, <1>6, <1>8 DEF OneHolder
<1>14. PhonesTheirs'
  BY <1>1, <1>2, <1>9 DEF PhonesTheirs
<1>15. h0 \in CallRow /\ h0.f = "pairRide" /\ h0.id = t0
  BY <1>2, <1>c, CallMade DEF Helpers, OrNone
<1>16. h2 \in CallRow /\ h2.f = "copyDown" /\ h2.id = t0
  BY <1>2, <1>e, CallMade DEF Helpers, OrNone
<1>17. s0 # None => h1 \in CallRow /\ h1.f = "syncRides" /\ h1.id = s0
  BY <1>d, CallMade DEF Helpers, OrNone
<1>18. /\ calls' \in Seq(CallRow)
       /\ Range(calls') = IF s0 = None THEN {h0} ELSE {h1, h2}
  <2>1. CASE s0 = None
    BY <1>2, <1>15, <2>1, RangeOne
  <2>2. CASE s0 # None
    BY <1>2, <1>16, <1>17, <2>2, RangeTwo
  <2> QED BY <2>1, <2>2
<1>19. PairLeft'
  <2> SUFFICES ASSUME NEW c \in Range(calls') PROVE Known(c)'
    BY <1>18 DEF PairLeft
  <2> QED BY <1>2, <1>8, <1>9, <1>15, <1>16, <1>17, <1>18 DEF Known
<1>20. ASSUME NEW s \in Sheets, NEW t \in Rides, Staying(s, t)
       PROVE  DocMet(s, t)' /\ CopyMet(s, t)'
  <2>1. ride'[t] # None /\ ride'[t].sheet = s
    BY <1>1, <1>20, Stays
  <2>2. Range(calls) = {}
    BY NothingLeft
  <2>3. CASE t = t0
    <3>1. s0 = s /\ s0 # None
      BY <1>4, <1>6, <2>1, <2>3, PairNone
    <3>2. h1 \in Range(calls') /\ WillGive(s, t, h1)'
      BY <1>17, <1>18, <3>1 DEF WillGive
    <3>3. h2 \in Range(calls') /\ WillCopy(s, t, h2)'
      BY <1>16, <1>18, <2>3, <3>1 DEF WillCopy
    <3> QED BY <3>2, <3>3, DocLeft, CopyLeft
  <2>4. CASE t # t0
    <3>1. ride'[t] = ride[t] /\ sheet' = sheet
      BY <1>2, <1>6, <2>4
    <3>2. t \in RidesOf(s)
      BY <2>1, <3>1, RideOfMember DEF IsRide
    <3> QED BY <1>20, <2>2, <3>1, <3>2, DocKept, CopyKept DEF Holds
  <2> QED BY <2>3, <2>4
<1> QED BY <1>12, <1>13, <1>14, <1>19, <1>20 DEF Goes, PairTypes

LEMMA UpdateRideGoes ==
  ASSUME PairIInv, calls = <<>>, NEW t0 \in Rides, NEW edit \in RideEdits, UpdateRide(t0, edit)
  PROVE  Goes
<1>a. PICK row : row = Edited(ride[t0], edit)
  OBVIOUS
<1>b. PICK p : p = <<Call("pairRide", t0, None)>>
  OBVIOUS
<1>c. PICK q : q = IF {"driver", "car"} \cap DOMAIN edit # {} THEN <<Call("copyDown", t0, None)>> ELSE <<>>
  OBVIOUS
<1>1. PairRows /\ PairLeft /\ OneHolder /\ PhonesTheirs
  BY DEF PairIInv, PairTypes
<1>2. /\ IsRide(t0) /\ ride' = [ride EXCEPT ![t0] = row] /\ calls' = p \o q
      /\ UNCHANGED <<sheet, sheetsMade, ridesMade, pairCuts>>
  BY <1>a, <1>b, <1>c DEF UpdateRide
<1>3. ride[t0] \in RideRow
  BY <1>1, <1>2, RideTyped
<1>4. /\ row \in RideRow /\ row.doc = ride[t0].doc /\ row.sheet = ride[t0].sheet
      /\ "driver" \notin DOMAIN edit => row.driver = ride[t0].driver
      /\ "car" \notin DOMAIN edit => row.car = ride[t0].car
  BY <1>3, <1>a, RideEdited
<1>5. row.sheet # None => IsSheet(row.sheet)
  BY <1>1, <1>2, <1>4 DEF PairRows
<1>6. /\ PairRows' /\ OneHolder' /\ PhonesTheirs' /\ KnownKept
      /\ ride'[t0] = row /\ \A u \in Rides \ {t0} : ride'[u] = ride[u]
  BY <1>1, <1>2, <1>4, <1>5, RideChanged
<1>7. p \in Seq(CallRow) /\ \A c \in Range(p) : c.f = "pairRide" /\ c.id = t0
  <2>1. PICK c : c = Call("pairRide", t0, None)
    OBVIOUS
  <2>2. c \in CallRow /\ c.f = "pairRide" /\ c.id = t0
    BY <2>1, CallMade DEF Helpers, OrNone
  <2> QED BY <1>b, <2>1, <2>2, RangeOne
<1>8. /\ q \in Seq(CallRow) /\ \A c \in Range(q) : c.f = "copyDown" /\ c.id = t0
      /\ "driver" \in DOMAIN edit \/ "car" \in DOMAIN edit =>
            \E c \in Range(q) : c.f = "copyDown" /\ c.id = t0
  <2>1. PICK c : c = Call("copyDown", t0, None)
    OBVIOUS
  <2>2. c \in CallRow /\ c.f = "copyDown" /\ c.id = t0
    BY <2>1, CallMade DEF Helpers, OrNone
  <2>3. <<c>> \in Seq(CallRow) /\ Range(<<c>>) = {c}
    BY <2>2, RangeOne
  <2>4. CASE {"driver", "car"} \cap DOMAIN edit # {}
    BY <1>c, <2>1, <2>2, <2>3, <2>4
  <2>5. CASE {"driver", "car"} \cap DOMAIN edit = {}
    <3>1. q = <<>> /\ "driver" \notin DOMAIN edit /\ "car" \notin DOMAIN edit
      BY <1>c, <2>5
    <3> QED BY <3>1, RangeNone
  <2> QED BY <2>4, <2>5
<1>9. p \o q \in Seq(CallRow) /\ Range(p \o q) = Range(p) \cup Range(q)
  BY <1>7, <1>8, RangeJoins
<1>10. IsRide(t0)'
  BY <1>4, <1>6, PairNone DEF IsRide
<1>11. PairLeft'
  <2> SUFFICES ASSUME NEW c \in Range(calls') PROVE Known(c)'
    BY <1>2, <1>9 DEF PairLeft
  <2>1. c \in Range(p) \cup Range(q)
    BY <1>2, <1>9
  <2> QED BY <1>7, <1>8, <1>10, <2>1 DEF Known
<1>12. ASSUME NEW s \in Sheets, NEW t \in Rides, Staying(s, t)
       PROVE  DocMet(s, t)' /\ CopyMet(s, t)'
  <2>1. ride'[t] # None /\ ride'[t].sheet = s /\ sheet'[s] = sheet[s]
    <3>1. ride'[t] # None /\ ride'[t].sheet = s
      BY <1>1, <1>12, Stays
    <3> QED BY <1>2, <3>1
  <2>2. Range(calls) = {}
    BY NothingLeft
  <2>3. CASE t # t0
    <3>1. ride'[t] = ride[t]
      BY <1>6, <2>3
    <3> QED BY <1>12, <2>1, <2>2, <3>1, BothStay
  <2>4. CASE t = t0
    <3>1. t \in RidesOf(s)
      BY <1>2, <1>4, <1>6, <2>1, <2>4, RideOfMember
    <3>2. DocMet(s, t)'
      <4>1. ride'[t].doc = ride[t].doc
        BY <1>4, <1>6, <2>4
      <4> QED BY <1>12, <2>1, <2>2, <3>1, <4>1, DocKept DEF Holds
    <3>3. CopyMet(s, t)'
      <4>1. CASE "driver" \in DOMAIN edit \/ "car" \in DOMAIN edit
        <5>1. PICK c \in Range(q) : c.f = "copyDown" /\ c.id = t0
          BY <1>8, <4>1
        <5>2. c \in Range(calls') /\ WillCopy(s, t, c)'
          BY <1>2, <1>9, <2>4, <5>1 DEF WillCopy
        <5> QED BY <5>2, CopyLeft
      <4>2. CASE ~("driver" \in DOMAIN edit \/ "car" \in DOMAIN edit)
        <5>1. ride'[t].driver = ride[t].driver /\ ride'[t].car = ride[t].car
          BY <1>4, <1>6, <2>4, <4>2
        <5> QED BY <1>12, <2>1, <2>2, <3>1, <5>1, CopyKept
      <4> QED BY <4>1, <4>2
    <3> QED BY <3>2, <3>3
  <2> QED BY <2>3, <2>4
<1> QED BY <1>6, <1>11, <1>12 DEF Goes, PairTypes

LEMMA MoveRideGoes ==
  ASSUME PairIInv, calls = <<>>, NEW t0 \in Rides, NEW s0 \in Sheets, MoveRide(t0, s0)
  PROVE  Goes
<1>a. PICK h1 : h1 = Call("syncRides", s0, None)
  OBVIOUS
<1>b. PICK h2 : h2 = Call("syncDoc", t0, None)
  OBVIOUS
<1>c. PICK h3 : h3 = Call("copyDown", t0, None)
  OBVIOUS
<1>1. PairRows /\ PairLeft /\ OneHolder /\ PhonesTheirs
  BY DEF PairIInv, PairTypes
<1>2. /\ IsRide(t0) /\ IsSheet(s0) /\ s0 # None /\ Pair(s0, t0) /\ calls' = <<h1, h2, h3>>
      /\ UNCHANGED <<sheet, sheetsMade, ridesMade, pairCuts>>
  BY <1>a, <1>b, <1>c DEF MoveRide, Ours, IsSheet
<1>3. s0 \in OrNone(Sheets)
  BY DEF OrNone
<1>4. /\ PairRows' /\ OneHolder' /\ PhonesTheirs' /\ KnownKept
      /\ ride'[t0] # None /\ ride'[t0].sheet = s0 /\ ride'[t0].doc = ride[t0].doc
      /\ \A u \in Rides \ {t0} : ride'[u] = ride[u]
  BY <1>1, <1>2, <1>3, Paired
<1>5. /\ h1 \in CallRow /\ h1.f = "syncRides" /\ h1.id = s0
      /\ h2 \in CallRow /\ h2.f = "syncDoc" /\ h2.id = t0
      /\ h3 \in CallRow /\ h3.f = "copyDown" /\ h3.id = t0
  BY <1>a, <1>b, <1>c, CallMade DEF Helpers, OrNone
<1>6. calls' \in Seq(CallRow) /\ Range(calls') = {h1, h2, h3}
  BY <1>2, <1>5, RangeThree
<1>7. IsSheet(s0)' /\ IsRide(t0)'
  BY <1>2, <1>4 DEF IsSheet, IsRide
<1>8. PairLeft'
  <2> SUFFICES ASSUME NEW c \in Range(calls') PROVE Known(c)'
    BY <1>6 DEF PairLeft
  <2> QED BY <1>5, <1>6, <1>7 DEF Known
<1>9. ASSUME NEW s \in Sheets, NEW t \in Rides, Staying(s, t)
      PROVE  DocMet(s, t)' /\ CopyMet(s, t)'
  <2>1. ride'[t] # None /\ ride'[t].sheet = s /\ sheet'[s] = sheet[s]
    <3>1. ride'[t] # None /\ ride'[t].sheet = s
      BY <1>1, <1>9, Stays
    <3> QED BY <1>2, <3>1
  <2>2. Range(calls) = {}
    BY NothingLeft
  <2>3. CASE t # t0
    <3>1. ride'[t] = ride[t]
      BY <1>4, <2>3
    <3> QED BY <1>9, <2>1, <2>2, <3>1, BothStay
  <2>4. CASE t = t0
    <3>1. s = s0
      BY <1>4, <2>1, <2>4
    <3>2. h1 \in Range(calls') /\ WillGive(s, t, h1)'
      BY <1>5, <1>6, <3>1 DEF WillGive
    <3>3. h3 \in Range(calls') /\ WillCopy(s, t, h3)'
      BY <1>5, <1>6, <2>4 DEF WillCopy
    <3> QED BY <3>2, <3>3, DocLeft, CopyLeft
  <2> QED BY <2>3, <2>4
<1> QED BY <1>4, <1>8, <1>9 DEF Goes, PairTypes

LEMMA DetachRideGoes ==
  ASSUME PairIInv, calls = <<>>, NEW t0 \in Rides, DetachRide(t0)
  PROVE  Goes
<1>1. PairRows /\ PairLeft /\ OneHolder /\ PhonesTheirs
  BY DEF PairIInv, PairTypes
<1>2. IsRide(t0) /\ Pair(None, t0) /\ UNCHANGED <<sheet, sheetsMade, ridesMade, calls, pairCuts>>
  BY DEF DetachRide
<1>3. None \in OrNone(Sheets)
  BY DEF OrNone
<1>4. /\ PairRows' /\ OneHolder' /\ PhonesTheirs' /\ KnownKept
      /\ ride'[t0] # None /\ ride'[t0].sheet = None /\ ride'[t0].doc = ride[t0].doc
      /\ \A u \in Rides \ {t0} : ride'[u] = ride[u]
  BY <1>1, <1>2, <1>3, Paired
<1>5. PairLeft'
  BY <1>1, <1>2, <1>4 DEF PairLeft, KnownKept
<1>6. ASSUME NEW s \in Sheets, NEW t \in Rides, Staying(s, t)
      PROVE  DocMet(s, t)' /\ CopyMet(s, t)'
  <2>1. ride'[t] # None /\ ride'[t].sheet = s /\ sheet'[s] = sheet[s]
    <3>1. ride'[t] # None /\ ride'[t].sheet = s
      BY <1>1, <1>6, Stays
    <3> QED BY <1>2, <3>1
  <2>2. Range(calls) = {}
    BY NothingLeft
  <2>3. t # t0
    BY <1>4, <2>1, PairNone
  <2>4. ride'[t] = ride[t]
    BY <1>4, <2>3
  <2> QED BY <1>6, <2>1, <2>2, <2>4, BothStay
<1> QED BY <1>4, <1>5, <1>6 DEF Goes, PairTypes

LEMMA LinkDocGoes ==
  ASSUME PairIInv, calls = <<>>, NEW t0 \in Rides, NEW d \in Docs \cup {None}, LinkDoc(t0, d)
  PROVE  Goes
<1>a. PICK row : row = [ride[t0] EXCEPT !.doc = d]
  OBVIOUS
<1>b. PICK h0 : h0 = Call("syncDoc", t0, ride[t0].doc)
  OBVIOUS
<1>1. PairRows /\ PairLeft /\ OneHolder /\ PhonesTheirs
  BY DEF PairIInv, PairTypes
<1>2. /\ IsRide(t0) /\ \A u \in Rides \ {t0} : ~Holds(u, d)
      /\ calls' = <<h0>> /\ UNCHANGED <<sheet, sheetsMade, ridesMade, pairCuts>>
  BY <1>b DEF LinkDoc
<1>3. ride[t0] \in RideRow /\ ride[t0].doc \in OrNone(Docs)
  BY <1>1, <1>2, RideTyped DEF RideRow
<1>4. /\ row \in RideRow /\ row.sheet = ride[t0].sheet /\ row.doc = d
      /\ row.driver = ride[t0].driver /\ row.car = ride[t0].car
  BY <1>a, <1>3 DEF RideRow, OrNone
<1>5. ride' = [ride EXCEPT ![t0] = row]
  BY <1>1, <1>a DEF LinkDoc, PairRows
<1>6. row.sheet # None => IsSheet(row.sheet)
  BY <1>1, <1>2, <1>4 DEF PairRows
<1>7. /\ PairRows' /\ OneHolder' /\ PhonesTheirs' /\ KnownKept
      /\ ride'[t0] = row /\ \A u \in Rides \ {t0} : ride'[u] = ride[u]
  BY <1>1, <1>2, <1>4, <1>5, <1>6, RideChanged
<1>8. h0 \in CallRow /\ h0.f = "syncDoc" /\ h0.id = t0 /\ h0.prev = ride[t0].doc
  BY <1>b, <1>3, CallMade DEF Helpers
<1>9. calls' \in Seq(CallRow) /\ Range(calls') = {h0}
  BY <1>2, <1>8, RangeOne
<1>10. IsRide(t0)'
  BY <1>4, <1>7, PairNone DEF IsRide
<1>11. PairLeft'
  BY <1>8, <1>9, <1>10 DEF PairLeft, Known
<1>12. ASSUME NEW s \in Sheets, NEW t \in Rides, Staying(s, t)
       PROVE  DocMet(s, t)' /\ CopyMet(s, t)'
  <2>1. ride'[t] # None /\ ride'[t].sheet = s /\ sheet'[s] = sheet[s]
    <3>1. ride'[t] # None /\ ride'[t].sheet = s
      BY <1>1, <1>12, Stays
    <3> QED BY <1>2, <3>1
  <2>2. Range(calls) = {}
    BY NothingLeft
  <2>3. CASE t # t0
    <3>1. ride'[t] = ride[t]
      BY <1>7, <2>3
    <3> QED BY <1>12, <2>1, <2>2, <3>1, BothStay
  <2>4. CASE t = t0
    <3>1. t \in RidesOf(s)
      BY <1>2, <1>4, <1>7, <2>1, <2>4, RideOfMember
    <3>2. ride'[t].driver = ride[t].driver /\ ride'[t].car = ride[t].car
      BY <1>4, <1>7, <2>4
    <3>3. CopyMet(s, t)'
      BY <1>12, <2>1, <2>2, <3>1, <3>2, CopyKept
    <3>4. CASE Holds(t, sheet[s].doc)
      <4>1. h0 \in Range(calls') /\ WillGive(s, t, h0)'
        BY <1>8, <1>9, <2>1, <2>4, <3>4 DEF WillGive, Holds
      <4> QED BY <3>3, <4>1, DocLeft
    <3>5. CASE ~Holds(t, sheet[s].doc)
      BY <1>12, <2>1, <2>2, <3>1, <3>3, <3>5, DocKept
    <3> QED BY <3>4, <3>5
  <2> QED BY <2>3, <2>4
<1> QED BY <1>7, <1>11, <1>12 DEF Goes, PairTypes

LEMMA RemoveRideGoes ==
  ASSUME PairIInv, calls = <<>>, NEW t0 \in Rides, RemoveRide(t0)
  PROVE  Goes
<1>1. PairRows /\ PairLeft /\ OneHolder /\ PhonesTheirs
  BY DEF PairIInv, PairTypes
<1>2. ride' = [ride EXCEPT ![t0] = None] /\ UNCHANGED <<sheet, sheetsMade, ridesMade, calls, pairCuts>>
  BY DEF RemoveRide
<1>3. ride'[t0] = None /\ \A t \in Rides \ {t0} : ride'[t] = ride[t]
  BY <1>1, <1>2 DEF PairRows
<1>4. ride' \in [Rides -> OrNone(RideRow)]
  BY <1>1, <1>2 DEF PairRows, OrNone
<1>5. \A t \in Rides : IsRide(t)' <=> IsRide(t) /\ t # t0
  BY <1>3 DEF IsRide
<1>6. \A s : IsSheet(s)' <=> IsSheet(s)
  BY <1>2 DEF IsSheet
<1>7. \A t \in Rides : IsRide(t)' /\ ride'[t].sheet # None => sheet'[ride'[t].sheet] # None
  BY <1>1, <1>2, <1>3, <1>5 DEF PairRows, IsSheet
<1>8. \A t \in Rides : IsRide(t)' => t <= ridesMade'
  BY <1>1, <1>2, <1>5 DEF PairRows
<1>9. PairRows'
  BY <1>1, <1>2, <1>4, <1>7, <1>8 DEF PairRows, IsSheet
<1>10. OneHolder'
  BY <1>1, <1>3, <1>5 DEF OneHolder
<1>11. PhonesTheirs'
  BY <1>1, <1>2, <1>6 DEF PhonesTheirs
<1>12. PairLeft'
  BY <1>1, <1>2, NothingLeft DEF PairLeft
<1>13. ASSUME NEW s \in Sheets, NEW t \in Rides, Staying(s, t)
       PROVE  DocMet(s, t)' /\ CopyMet(s, t)'
  <2>1. ride'[t] # None /\ sheet'[s] = sheet[s]
    <3>1. ride'[t] # None /\ ride'[t].sheet = s
      BY <1>1, <1>13, Stays
    <3> QED BY <1>2, <3>1
  <2>2. ride'[t] = ride[t]
    BY <1>3, <2>1
  <2>3. Range(calls) = {}
    BY NothingLeft
  <2> QED BY <1>13, <2>1, <2>2, <2>3, BothStay
<1> QED BY <1>9, <1>10, <1>11, <1>12, <1>13 DEF Goes, PairTypes

LEMMA RemoveDocGoes ==
  ASSUME PairIInv, calls = <<>>, NEW d \in Docs, RemoveDoc(d)
  PROVE  Goes
<1> DEFINE Without(row) == IF row # None /\ row.doc = d THEN [row EXCEPT !.doc = None] ELSE row
<1>1. PairRows /\ PairLeft /\ OneHolder /\ PhonesTheirs
  BY DEF PairIInv, PairTypes
<1>2. /\ sheet' = [s \in Sheets |-> Without(sheet[s])] /\ ride' = [t \in Rides |-> Without(ride[t])]
      /\ UNCHANGED <<sheetsMade, ridesMade, calls, pairCuts>>
  BY DEF RemoveDoc
<1>3. ASSUME NEW row \in SheetRow
      PROVE  /\ Without(row) \in SheetRow /\ Without(row).doc = IF row.doc = d THEN None ELSE row.doc
             /\ Without(row).driver = row.driver /\ Without(row).car = row.car
             /\ Without(row).phone = row.phone
  <2>1. row # None
    BY PairNone
  <2>2. CASE row.doc = d
    <3>1. Without(row) = [row EXCEPT !.doc = None]
      BY <2>1, <2>2
    <3> HIDE DEF Without
    <3> QED BY <2>2, <3>1 DEF SheetRow, OrNone
  <2>3. CASE row.doc # d
    BY <2>3
  <2> QED BY <2>2, <2>3
<1>4. ASSUME NEW row \in RideRow
      PROVE  /\ Without(row) \in RideRow /\ Without(row).doc = IF row.doc = d THEN None ELSE row.doc
             /\ Without(row).driver = row.driver /\ Without(row).car = row.car
             /\ Without(row).sheet = row.sheet
  <2>1. row # None
    BY PairNone
  <2>2. CASE row.doc = d
    <3>1. Without(row) = [row EXCEPT !.doc = None]
      BY <2>1, <2>2
    <3> HIDE DEF Without
    <3> QED BY <2>2, <3>1 DEF RideRow, OrNone
  <2>3. CASE row.doc # d
    BY <2>3
  <2> QED BY <2>2, <2>3
<1>5. Without(None) = None
  OBVIOUS
<1>6. (\A s \in Sheets : sheet'[s] = Without(sheet[s])) /\ \A t \in Rides : ride'[t] = Without(ride[t])
  BY <1>2
<1> HIDE DEF Without
<1>7. ASSUME NEW s \in Sheets
      PROVE  /\ sheet'[s] \in OrNone(SheetRow) /\ (IsSheet(s)' <=> IsSheet(s))
             /\ IsSheet(s) => /\ sheet'[s].doc = IF sheet[s].doc = d THEN None ELSE sheet[s].doc
                              /\ sheet'[s].driver = sheet[s].driver /\ sheet'[s].car = sheet[s].car
                              /\ sheet'[s].phone = sheet[s].phone
  <2>1. CASE IsSheet(s)
    <3>1. sheet[s] \in SheetRow
      BY <1>1, <2>1, SheetTyped
    <3> QED BY <1>3, <1>6, <2>1, <3>1, PairNone DEF OrNone, IsSheet
  <2>2. CASE ~IsSheet(s)
    <3>1. sheet[s] = None
      BY <2>2, PairNone DEF IsSheet
    <3> QED BY <1>5, <1>6, <3>1 DEF OrNone, IsSheet
  <2> QED BY <2>1, <2>2
<1>8. ASSUME NEW t \in Rides
      PROVE  /\ ride'[t] \in OrNone(RideRow) /\ (IsRide(t)' <=> IsRide(t))
             /\ IsRide(t) => /\ ride'[t].doc = IF ride[t].doc = d THEN None ELSE ride[t].doc
                             /\ ride'[t].driver = ride[t].driver /\ ride'[t].car = ride[t].car
                             /\ ride'[t].sheet = ride[t].sheet
  <2>1. CASE IsRide(t)
    <3>1. ride[t] \in RideRow
      BY <1>1, <2>1, RideTyped
    <3> QED BY <1>4, <1>6, <2>1, <3>1, PairNone DEF OrNone, IsRide
  <2>2. CASE ~IsRide(t)
    <3>1. ride[t] = None
      BY <2>2 DEF IsRide
    <3> QED BY <1>5, <1>6, <3>1 DEF OrNone, IsRide
  <2> QED BY <2>1, <2>2
<1>9. sheet' \in [Sheets -> OrNone(SheetRow)] /\ ride' \in [Rides -> OrNone(RideRow)]
  BY <1>2, <1>7, <1>8
<1>10. \A t \in Rides : IsRide(t) /\ ride'[t].sheet # None => sheet'[ride'[t].sheet] # None
  <2> SUFFICES ASSUME NEW t \in Rides, IsRide(t), ride'[t].sheet # None
               PROVE  sheet'[ride'[t].sheet] # None
    OBVIOUS
  <2>1. ride'[t].sheet = ride[t].sheet
    BY <1>8
  <2>2. ride[t].sheet \in Sheets /\ IsSheet(ride[t].sheet)
    BY <1>1, <2>1, RideNames DEF OrNone
  <2> QED BY <1>7, <2>1, <2>2 DEF IsSheet
<1>11. (\A s \in Sheets : IsSheet(s)' => s <= sheetsMade') /\ \A t \in Rides : IsRide(t)' => t <= ridesMade'
  BY <1>1, <1>2, <1>7, <1>8 DEF PairRows
<1>12. PairRows'
  BY <1>1, <1>2, <1>8, <1>9, <1>10, <1>11 DEF PairRows, IsSheet
<1>13. OneHolder'
  BY <1>1, <1>8 DEF OneHolder
<1>14. PhonesTheirs'
  BY <1>1, <1>7 DEF PhonesTheirs
<1>15. PairLeft'
  BY <1>1, <1>2, NothingLeft DEF PairLeft
<1>16. ASSUME NEW s \in Sheets, NEW t \in Rides, Staying(s, t)
       PROVE  DocMet(s, t)' /\ CopyMet(s, t)'
  <2>1. ride'[t] # None /\ ride'[t].sheet = s
    BY <1>1, <1>16, Stays
  <2>2. IsRide(t)
    BY <1>8, <2>1 DEF IsRide
  <2>3. t \in RidesOf(s) /\ IsSheet(s)
    BY <1>1, <1>8, <1>16, <2>1, <2>2, Stays, RideOfMember
  <2>4. Range(calls) = {}
    BY NothingLeft
  <2>5. CopyMet(s, t)'
    BY <1>7, <1>8, <1>16, <2>2, <2>3, <2>4, CopyKept
  <2>6. CASE sheet[s].doc = d
    <3>1. sheet'[s].doc = None
      BY <1>7, <2>3, <2>6
    <3> QED BY <2>5, <3>1 DEF DocMet, Given
  <2>7. CASE sheet[s].doc # d
    <3>1. sheet'[s].doc = sheet[s].doc
      BY <1>7, <2>3, <2>7
    <3>2. Holds(t, sheet[s].doc) => ride'[t].doc = sheet[s].doc
      BY <1>8, <2>2, <2>7 DEF Holds
    <3> QED BY <1>16, <2>3, <2>4, <2>5, <3>1, <3>2, DocKept
  <2> QED BY <2>6, <2>7
<1> QED BY <1>12, <1>13, <1>14, <1>15, <1>16 DEF Goes, PairTypes
-----------------------------------------------------------------------------
(* Helpers.                                                                *)

LEMMA SyncedRows ==
  ASSUME PairRows, OneHolder, PhonesTheirs, NEW s0 \in Sheets, NEW p \in OrNone(Docs),
         ride' = Synced(s0, p), UNCHANGED <<sheet, sheetsMade, ridesMade>>
  PROVE  /\ PairRows' /\ OneHolder' /\ PhonesTheirs' /\ KnownKept
         /\ \A u \in Rides : u \notin RidesOf(s0) => ride'[u] = ride[u]
         /\ \A u \in Rides : /\ IsRide(u)' <=> IsRide(u)
                             /\ IsRide(u) => /\ ride'[u].sheet = ride[u].sheet
                                             /\ ride'[u].driver = ride[u].driver
                                             /\ ride'[u].car = ride[u].car
         /\ Ours(s0) /\ RidesOf(s0) # {} => Given(sheet[s0].doc)'
<1> DEFINE free == {t \in RidesOf(s0) : ride[t].doc = None \/ Holds(t, p)}
           Freed(t) == IF t \in RidesOf(s0) /\ Holds(t, p) THEN [ride[t] EXCEPT !.doc = None] ELSE ride[t]
           chosen == Min(IF free # {} THEN free ELSE RidesOf(s0))
<1>1. CASE ride' = ride /\ (Ours(s0) /\ RidesOf(s0) # {} => Given(sheet[s0].doc))
  <2>1. UNCHANGED pairRows
    BY <1>1 DEF pairRows
  <2>2. Given(sheet[s0].doc) => Given(sheet[s0].doc)'
    BY <1>1 DEF Given, Holds, IsRide
  <2> QED BY <1>1, <2>1, <2>2, RowsStay DEF IsRide
<1>2. CASE /\ Ours(s0) /\ RidesOf(s0) # {} /\ sheet[s0].doc = None
           /\ ride' = [t \in Rides |-> Freed(t)]
  <2>1. \A t \in Rides : ride'[t] = Freed(t)
    BY <1>2
  <2>2. ASSUME NEW t \in Rides
        PROVE  /\ ride'[t] \in OrNone(RideRow) /\ (IsRide(t)' <=> IsRide(t))
               /\ t \notin RidesOf(s0) => ride'[t] = ride[t]
               /\ IsRide(t) => /\ ride'[t].doc \in {ride[t].doc, None}
                               /\ ride'[t].driver = ride[t].driver /\ ride'[t].car = ride[t].car
                               /\ ride'[t].sheet = ride[t].sheet
    <3>1. CASE t \in RidesOf(s0) /\ Holds(t, p)
      <4>1. ride'[t] = [ride[t] EXCEPT !.doc = None]
        BY <2>1, <3>1
      <4>2. IsRide(t) /\ ride[t] \in RideRow
        BY <3>1, RideTyped DEF Holds
      <4>3. /\ ride'[t] \in RideRow /\ ride'[t].doc = None /\ ride'[t].driver = ride[t].driver
            /\ ride'[t].car = ride[t].car /\ ride'[t].sheet = ride[t].sheet
        BY <4>1, <4>2 DEF RideRow, OrNone
      <4> QED BY <3>1, <4>2, <4>3, PairNone DEF OrNone, IsRide
    <3>2. CASE ~(t \in RidesOf(s0) /\ Holds(t, p))
      <4>1. ride'[t] = ride[t]
        BY <2>1, <3>2
      <4> QED BY <4>1 DEF PairRows, IsRide
    <3> QED BY <3>1, <3>2
  <2>3. ride' \in [Rides -> OrNone(RideRow)]
    BY <1>2, <2>2
  <2> HIDE DEF Freed, free, chosen
  <2>4. \A s : IsSheet(s)' <=> IsSheet(s)
    BY DEF IsSheet
  <2>5. \A t \in Rides : IsRide(t) /\ ride'[t].sheet # None => sheet'[ride'[t].sheet] # None
    BY <2>2 DEF PairRows, IsSheet
  <2>6. \A t \in Rides : IsRide(t)' => t <= ridesMade'
    BY <2>2 DEF PairRows
  <2>7. PairRows'
    BY <2>2, <2>3, <2>5, <2>6 DEF PairRows, IsSheet
  <2>8. OneHolder'
    BY <2>2 DEF OneHolder
  <2>9. PhonesTheirs' /\ KnownKept
    BY <2>2, <2>4 DEF PhonesTheirs, KnownKept, Known
  <2>10. Given(sheet[s0].doc)'
    BY <1>2 DEF Given
  <2> QED BY <2>2, <2>7, <2>8, <2>9, <2>10
<1>3. CASE /\ Ours(s0) /\ RidesOf(s0) # {} /\ sheet[s0].doc # None
           /\ ~\E t \in Rides : Holds(t, sheet[s0].doc)
           /\ ride' = [ride EXCEPT ![chosen].doc = sheet[s0].doc]
  <2>1. PICK t0 : t0 = chosen
    OBVIOUS
  <2>2. t0 \in RidesOf(s0)
    <3>1. PICK S : S = IF free # {} THEN free ELSE RidesOf(s0)
      OBVIOUS
    <3>2. S \subseteq RidesOf(s0) /\ S # {}
      BY <1>3, <3>1
    <3>3. S \subseteq Rides
      BY <3>2 DEF RidesOf
    <3> QED BY <2>1, <3>1, <3>2, <3>3, LeastRide
  <2> HIDE DEF Freed, free, chosen
  <2>3. t0 \in Rides /\ IsRide(t0) /\ ride[t0].sheet = s0
    BY <2>2 DEF RidesOf
  <2>4. PICK row : row = [ride[t0] EXCEPT !.doc = sheet[s0].doc]
    OBVIOUS
  <2>5. sheet[s0].doc \in OrNone(Docs)
    BY <1>3, SheetTyped DEF Ours, SheetRow
  <2>6. /\ row \in RideRow /\ row.doc = sheet[s0].doc /\ row.driver = ride[t0].driver
        /\ row.car = ride[t0].car /\ row.sheet = ride[t0].sheet
    BY <2>3, <2>4, <2>5, RideTyped DEF RideRow
  <2>7. ride' = [ride EXCEPT ![t0] = row]
    BY <1>3, <2>1, <2>4 DEF PairRows
  <2>8. row.sheet # None => IsSheet(row.sheet)
    BY <2>3, <2>6, RideNames
  <2>9. \A u \in Rides \ {t0} : ~Holds(u, row.doc)
    BY <1>3, <2>6
  <2>10. /\ PairRows' /\ OneHolder' /\ PhonesTheirs' /\ KnownKept
         /\ ride'[t0] = row /\ \A u \in Rides \ {t0} : ride'[u] = ride[u]
    BY <2>3, <2>6, <2>7, <2>8, <2>9, RideChanged
  <2>11. row # None
    BY <2>6, PairNone
  <2>12. Given(sheet[s0].doc)'
    BY <1>3, <2>3, <2>6, <2>10, <2>11 DEF Given, Holds, IsRide
  <2>13. \A u \in Rides : u \notin RidesOf(s0) => ride'[u] = ride[u]
    BY <2>2, <2>10
  <2>14. \A u \in Rides : /\ IsRide(u)' <=> IsRide(u)
                          /\ IsRide(u) => /\ ride'[u].sheet = ride[u].sheet
                                          /\ ride'[u].driver = ride[u].driver
                                          /\ ride'[u].car = ride[u].car
    BY <2>3, <2>6, <2>10, <2>11 DEF IsRide
  <2> QED BY <2>10, <2>12, <2>13, <2>14
<1>4. CASE ~Ours(s0) \/ RidesOf(s0) = {}
  <2>1. ride' = ride
    BY <1>4 DEF Synced
  <2> QED BY <1>1, <1>4, <2>1
<1>5. CASE Ours(s0) /\ RidesOf(s0) # {} /\ sheet[s0].doc = None
  <2>1. ride' = [t \in Rides |-> Freed(t)]
    BY <1>5 DEF Synced
  <2> QED BY <1>2, <1>5, <2>1
<1>6. CASE /\ Ours(s0) /\ RidesOf(s0) # {} /\ sheet[s0].doc # None
           /\ \E t \in Rides : Holds(t, sheet[s0].doc)
  <2>1. ride' = ride
    BY <1>6 DEF Synced
  <2> QED BY <1>1, <1>6, <2>1 DEF Given
<1>7. CASE /\ Ours(s0) /\ RidesOf(s0) # {} /\ sheet[s0].doc # None
           /\ ~\E t \in Rides : Holds(t, sheet[s0].doc)
  <2>1. ride' = [ride EXCEPT ![chosen].doc = sheet[s0].doc]
    BY <1>7 DEF Synced
  <2> QED BY <1>3, <1>7, <2>1
<1> QED BY <1>4, <1>5, <1>6, <1>7

LEMMA SyncManifestTripsGoes ==
  ASSUME PairIInv, SyncManifestTrips
  PROVE  Goes
<1>a. PICK h : h = Head(calls)
  OBVIOUS
<1>b. PICK s0 : s0 = h.id
  OBVIOUS
<1>c. PICK none : none = <<>>
  OBVIOUS
<1>1. PairRows /\ PairLeft /\ OneHolder /\ PhonesTheirs
  BY DEF PairIInv, PairTypes
<1>2. /\ Serving("syncRides") /\ ride' = Synced(s0, h.prev) /\ Then(none)
      /\ UNCHANGED <<sheet, sheetsMade, ridesMade, pairCuts>>
  BY <1>a, <1>b, <1>c DEF SyncManifestTrips
<1>3. none \in Seq(CallRow) /\ Range(none) = {}
  BY <1>c, RangeNone
<1>4. "syncRides" \in Helpers
  BY DEF Helpers
<1>5. /\ calls' \in Seq(CallRow) /\ h \in CallRow /\ h.f = "syncRides" /\ Known(h)
      /\ \A c \in Range(calls) : c = h \/ c \in Range(calls')
  BY <1>1, <1>2, <1>3, <1>4, <1>a, HelperRan
<1>6. s0 \in Sheets /\ h.prev \in OrNone(Docs)
  BY <1>5, <1>b DEF Known, CallRow
<1>7. /\ PairRows' /\ OneHolder' /\ PhonesTheirs' /\ KnownKept
      /\ \A u \in Rides : u \notin RidesOf(s0) => ride'[u] = ride[u]
      /\ \A u \in Rides : /\ IsRide(u)' <=> IsRide(u)
                          /\ IsRide(u) => /\ ride'[u].sheet = ride[u].sheet
                                          /\ ride'[u].driver = ride[u].driver
                                          /\ ride'[u].car = ride[u].car
      /\ Ours(s0) /\ RidesOf(s0) # {} => Given(sheet[s0].doc)'
  BY <1>1, <1>2, <1>6, SyncedRows
<1>8. PairLeft'
  BY <1>1, <1>2, <1>3, <1>4, <1>7, LeftAfter
<1>9. ASSUME NEW s \in Sheets, NEW t \in Rides, Staying(s, t)
      PROVE  DocMet(s, t)' /\ CopyMet(s, t)'
  <2>1. ride'[t] # None /\ ride'[t].sheet = s /\ sheet'[s] = sheet[s]
    <3>1. ride'[t] # None /\ ride'[t].sheet = s
      BY <1>1, <1>9, Stays
    <3> QED BY <1>2, <3>1
  <2>2. IsRide(t) /\ t \in RidesOf(s)
    BY <1>7, <2>1, RideOfMember DEF IsRide
  <2>3. CASE s # s0
    <3>1. ride'[t] = ride[t]
      BY <1>7, <2>2, <2>3, RideOfMember
    <3>2. \A c \in Range(calls) : WillGive(s, t, c) \/ WillCopy(s, t, c) => c \in Range(calls')
      BY <1>5, <1>b, <2>3 DEF WillGive, WillCopy
    <3> QED BY <1>9, <2>1, <3>1, <3>2, BothStay
  <2>4. CASE s = s0
    <3>1. Ours(s)
      BY <1>1, <1>9, <2>2, Stays
    <3>2. Given(sheet[s].doc)'
      BY <1>7, <2>2, <2>4, <3>1
    <3>3. DocMet(s, t)'
      BY <3>2 DEF DocMet
    <3>4. \A c \in Range(calls) : WillCopy(s, t, c) => c \in Range(calls')
      BY <1>5 DEF WillCopy
    <3>5. ride'[t].driver = ride[t].driver /\ ride'[t].car = ride[t].car
      BY <1>7, <2>2
    <3>6. CopyMet(s, t)'
      BY <1>9, <2>1, <2>2, <3>4, <3>5, CopyKept
    <3> QED BY <3>3, <3>6
  <2> QED BY <2>3, <2>4
<1> QED BY <1>7, <1>8, <1>9 DEF Goes, PairTypes

\* Nothing to pair.
LEMMA NothingPaired ==
  ASSUME PairIInv, NEW f \in {"pairSheet", "pairRide"}, Serving(f), Then(<<>>), UNCHANGED pairRows
  PROVE  Goes
<1>a. PICK none : none = <<>>
  OBVIOUS
<1>1. PairRows /\ PairLeft /\ OneHolder /\ PhonesTheirs
  BY DEF PairIInv, PairTypes
<1>2. PairRows' /\ OneHolder' /\ PhonesTheirs' /\ KnownKept
  BY <1>1, RowsStay
<1>3. none \in Seq(CallRow) /\ Range(none) = {} /\ f \in Helpers /\ Then(none)
  BY <1>a, RangeNone DEF Helpers
<1>4. PairLeft'
  BY <1>1, <1>2, <1>3, LeftAfter
<1>5. /\ Head(calls).f = f
      /\ \A c \in Range(calls) : c = Head(calls) \/ c \in Range(calls')
  BY <1>1, <1>3, HelperRan
<1>6. ASSUME NEW s \in Sheets, NEW t \in Rides, Staying(s, t)
      PROVE  DocMet(s, t)' /\ CopyMet(s, t)'
  <2>1. sheet'[s] = sheet[s] /\ ride'[t] = ride[t]
    BY DEF pairRows
  <2>2. \A c \in Range(calls) : WillGive(s, t, c) \/ WillCopy(s, t, c) => c \in Range(calls')
    BY <1>5 DEF WillGive, WillCopy
  <2> QED BY <1>6, <2>1, <2>2, BothStay
<1> QED BY <1>2, <1>4, <1>6 DEF Goes, PairTypes

\* A lone sheet and a lone ride that have one document, or are akin, become a pair.
LEMMA TwoPaired ==
  ASSUME PairIInv, NEW f \in {"pairSheet", "pairRide"}, Serving(f),
         NEW s0 \in LoneSheets, NEW t0 \in Unpaired, Pair(s0, t0),
         UNCHANGED <<sheet, sheetsMade, ridesMade>>, NEW more, Then(more),
         \/ Holds(t0, sheet[s0].doc) /\ more = <<Call("copyDown", t0, None)>>
         \/ more = <<Call("syncRides", s0, None), Call("copyDown", t0, None)>>
  PROVE  Goes
<1>a. PICK h1 : h1 = Call("syncRides", s0, None)
  OBVIOUS
<1>b. PICK h2 : h2 = Call("copyDown", t0, None)
  OBVIOUS
<1>1. PairRows /\ PairLeft /\ OneHolder /\ PhonesTheirs
  BY DEF PairIInv, PairTypes
<1>2. s0 \in Sheets /\ s0 # None /\ IsSheet(s0) /\ t0 \in Rides /\ IsRide(t0)
  BY DEF LoneSheets, Unpaired, Ours, IsSheet
<1>3. s0 \in OrNone(Sheets)
  BY <1>2 DEF OrNone
<1>4. /\ PairRows' /\ OneHolder' /\ PhonesTheirs' /\ KnownKept
      /\ ride'[t0] # None /\ ride'[t0].sheet = s0 /\ ride'[t0].doc = ride[t0].doc
      /\ \A u \in Rides \ {t0} : ride'[u] = ride[u]
  BY <1>1, <1>2, <1>3, Paired
<1>5. /\ h1 \in CallRow /\ h1.f = "syncRides" /\ h1.id = s0
      /\ h2 \in CallRow /\ h2.f = "copyDown" /\ h2.id = t0
  BY <1>2, <1>a, <1>b, CallMade DEF Helpers, OrNone
<1>6. more \in Seq(CallRow) /\ \/ Holds(t0, sheet[s0].doc) /\ Range(more) = {h2}
                               \/ Range(more) = {h1, h2}
  <2>1. CASE Holds(t0, sheet[s0].doc) /\ more = <<Call("copyDown", t0, None)>>
    BY <1>5, <1>b, <2>1, RangeOne
  <2>2. CASE more = <<Call("syncRides", s0, None), Call("copyDown", t0, None)>>
    BY <1>5, <1>a, <1>b, <2>2, RangeTwo
  <2> QED BY <2>1, <2>2
<1>7. IsSheet(s0)' /\ IsRide(t0)'
  BY <1>2, <1>4 DEF IsSheet, IsRide
<1>8. \A c \in Range(more) : Known(c)'
  BY <1>2, <1>5, <1>6, <1>7 DEF Known
<1>9. f \in Helpers
  BY DEF Helpers
<1>10. PairLeft'
  BY <1>1, <1>4, <1>6, <1>8, <1>9, LeftAfter
<1>11. /\ Head(calls).f = f
       /\ \A c \in Range(calls) : c = Head(calls) \/ c \in Range(calls')
       /\ \A c \in Range(more) : c \in Range(calls')
  BY <1>1, <1>6, <1>9, HelperRan
<1>12. ASSUME NEW s \in Sheets, NEW t \in Rides, Staying(s, t)
       PROVE  DocMet(s, t)' /\ CopyMet(s, t)'
  <2>1. ride'[t] # None /\ ride'[t].sheet = s /\ sheet'[s] = sheet[s]
    <3>1. ride'[t] # None /\ ride'[t].sheet = s
      BY <1>1, <1>12, Stays
    <3> QED BY <3>1
  <2>2. CASE t # t0
    <3>1. ride'[t] = ride[t]
      BY <1>4, <2>2
    <3>2. \A c \in Range(calls) : WillGive(s, t, c) \/ WillCopy(s, t, c) => c \in Range(calls')
      BY <1>11 DEF WillGive, WillCopy
    <3> QED BY <1>12, <2>1, <3>1, <3>2, BothStay
  <2>3. CASE t = t0
    <3>1. s = s0
      BY <1>4, <2>1, <2>3
    <3>2. h2 \in Range(calls') /\ WillCopy(s, t, h2)'
      BY <1>5, <1>6, <1>11, <2>3 DEF WillCopy
    <3>3. CopyMet(s, t)'
      BY <3>2, CopyLeft
    <3>4. CASE Holds(t0, sheet[s0].doc)
      <4>1. Given(sheet[s].doc)'
        BY <1>2, <1>4, <2>1, <3>1, <3>4 DEF Given, Holds, IsRide
      <4> QED BY <3>3, <4>1 DEF DocMet
    <3>5. CASE ~Holds(t0, sheet[s0].doc)
      <4>1. h1 \in Range(calls') /\ WillGive(s, t, h1)'
        BY <1>5, <1>6, <1>11, <3>1, <3>5 DEF WillGive
      <4> QED BY <3>3, <4>1, DocLeft
    <3> QED BY <3>4, <3>5
  <2> QED BY <2>2, <2>3
<1> QED BY <1>4, <1>10, <1>12 DEF Goes, PairTypes


LEMMA AutoPairManifestGoes ==
  ASSUME PairIInv, AutoPairManifest
  PROVE  Goes
<1>a. PICK s : s = Head(calls).id
  OBVIOUS
<1> DEFINE byDoc == {t \in Unpaired : Holds(t, sheet[s].doc)}
           akin == {t \in Unpaired : Akin(s, t)}
<1>1. /\ Serving("pairSheet") /\ UNCHANGED <<sheet, sheetsMade, ridesMade, pairCuts>>
      /\ \/ Then(<<>>) /\ UNCHANGED ride
         \/ s \in LoneSheets /\ \E t \in byDoc : Pair(s, t) /\ Then(<<Call("copyDown", t, None)>>)
         \/ s \in LoneSheets /\ \E t \in akin :
               Pair(s, t) /\ Then(<<Call("syncRides", s, None), Call("copyDown", t, None)>>)
  BY <1>a DEF AutoPairManifest, Nearest
<1>2. CASE Then(<<>>) /\ UNCHANGED ride
  <2>1. UNCHANGED pairRows
    BY <1>1, <1>2 DEF pairRows
  <2> QED BY <1>1, <1>2, <2>1, NothingPaired
<1>3. ASSUME s \in LoneSheets, NEW t \in byDoc, Pair(s, t), Then(<<Call("copyDown", t, None)>>)
      PROVE  Goes
  <2>1. t \in Unpaired /\ Holds(t, sheet[s].doc)
    OBVIOUS
  <2>2. PICK more : more = <<Call("copyDown", t, None)>>
    OBVIOUS
  <2>3. Then(more)
    BY <1>3, <2>2
  <2> QED BY <1>1, <1>3, <2>1, <2>2, <2>3, TwoPaired
<1>4. ASSUME s \in LoneSheets, NEW t \in akin, Pair(s, t),
             Then(<<Call("syncRides", s, None), Call("copyDown", t, None)>>)
      PROVE  Goes
  <2>1. t \in Unpaired
    OBVIOUS
  <2>2. PICK more : more = <<Call("syncRides", s, None), Call("copyDown", t, None)>>
    OBVIOUS
  <2>3. Then(more)
    BY <1>4, <2>2
  <2> QED BY <1>1, <1>4, <2>1, <2>2, <2>3, TwoPaired
<1> QED BY <1>1, <1>2, <1>3, <1>4

LEMMA AutoPairTripGoes ==
  ASSUME PairIInv, AutoPairTrip
  PROVE  Goes
<1>a. PICK t : t = Head(calls).id
  OBVIOUS
<1> DEFINE byDoc == {s \in LoneSheets : Holds(t, sheet[s].doc)}
           akin == {s \in LoneSheets : Akin(s, t)}
<1>1. /\ Serving("pairRide") /\ UNCHANGED <<sheet, sheetsMade, ridesMade, pairCuts>>
      /\ \/ Then(<<>>) /\ UNCHANGED ride
         \/ t \in Unpaired /\ \E s \in byDoc :
               Pair(s, t) /\ Then(<<Call("copyDown", t, None)>>)
         \/ t \in Unpaired /\ \E s \in akin :
               Pair(s, t) /\ Then(<<Call("syncRides", s, None), Call("copyDown", t, None)>>)
  BY <1>a DEF AutoPairTrip, Nearest
<1>2. CASE Then(<<>>) /\ UNCHANGED ride
  <2>1. UNCHANGED pairRows
    BY <1>1, <1>2 DEF pairRows
  <2> QED BY <1>1, <1>2, <2>1, NothingPaired
<1>3. ASSUME t \in Unpaired, NEW s \in byDoc, Pair(s, t),
             Then(<<Call("copyDown", t, None)>>)
      PROVE  Goes
  <2>1. s \in LoneSheets /\ Holds(t, sheet[s].doc)
    OBVIOUS
  <2>2. PICK more : more = <<Call("copyDown", t, None)>>
    OBVIOUS
  <2>3. Then(more)
    BY <1>3, <2>2
  <2> QED BY <1>1, <1>3, <2>1, <2>2, <2>3, TwoPaired
<1>4. ASSUME t \in Unpaired, NEW s \in akin, Pair(s, t),
             Then(<<Call("syncRides", s, None), Call("copyDown", t, None)>>)
      PROVE  Goes
  <2>1. s \in LoneSheets
    OBVIOUS
  <2>2. PICK more : more = <<Call("syncRides", s, None), Call("copyDown", t, None)>>
    OBVIOUS
  <2>3. Then(more)
    BY <1>4, <2>2
  <2> QED BY <1>1, <1>4, <2>1, <2>2, <2>3, TwoPaired
<1> QED BY <1>1, <1>2, <1>3, <1>4

LEMMA CopyTripToManifestGoes ==
  ASSUME PairIInv, CopyTripToManifest
  PROVE  Goes
<1>a. PICK h : h = Head(calls)
  OBVIOUS
<1>b. PICK t0 : t0 = h.id
  OBVIOUS
<1>c. PICK s0 : s0 = ride[t0].sheet
  OBVIOUS
<1>d. PICK none : none = <<>>
  OBVIOUS
<1>e. PICK row : row = [sheet[s0] EXCEPT !.driver = ride[t0].driver,
                          !.car = Filled(ride[t0].car, sheet[s0].car),
                          !.phone = PhoneOf(s0, ride[t0].driver)]
  OBVIOUS
<1>1. PairRows /\ PairLeft /\ OneHolder /\ PhonesTheirs
  BY DEF PairIInv, PairTypes
<1>2. /\ Serving("copyDown") /\ Then(none)
      /\ UNCHANGED <<sheetsMade, ride, ridesMade, pairCuts>>
  BY <1>d DEF CopyTripToManifest
<1>3. none \in Seq(CallRow) /\ Range(none) = {} /\ "copyDown" \in Helpers
  BY <1>d, RangeNone DEF Helpers
<1>4. /\ h.f = "copyDown" /\ Known(h)
      /\ \A c \in Range(calls) : c = h \/ c \in Range(calls')
  BY <1>1, <1>2, <1>3, <1>a, HelperRan
<1>5. t0 \in Rides /\ IsRide(t0) /\ ride[t0] \in RideRow
  BY <1>1, <1>4, <1>b, RideTyped DEF Known
<1>6. CASE ~Ours(s0)
  <2>1. sheet' = sheet
    BY <1>6, <1>a, <1>b, <1>c DEF CopyTripToManifest
  <2>2. UNCHANGED pairRows
    BY <1>2, <2>1 DEF pairRows
  <2>3. PairRows' /\ OneHolder' /\ PhonesTheirs' /\ KnownKept
    BY <1>1, <2>2, RowsStay
  <2>4. PairLeft'
    BY <1>1, <1>2, <1>3, <2>3, LeftAfter
  <2>5. ASSUME NEW s \in Sheets, NEW t \in Rides, Staying(s, t)
        PROVE  DocMet(s, t)' /\ CopyMet(s, t)'
    <3>1. ride'[t] # None /\ ride'[t].sheet = s
      BY <1>1, <2>5, Stays
    <3>2. sheet'[s] = sheet[s] /\ ride'[t] = ride[t]
      BY <1>2, <2>1
    <3>3. t \in RidesOf(s)
      BY <3>1, <3>2, RideOfMember DEF IsRide
    <3>4. Ours(s)
      BY <1>1, <2>5, <3>3, Stays
    <3>5. t # t0
      BY <1>6, <1>c, <3>1, <3>2, <3>4
    <3>6. \A c \in Range(calls) : WillGive(s, t, c) \/ WillCopy(s, t, c) => c \in Range(calls')
      BY <1>4, <1>b, <3>5 DEF WillGive, WillCopy
    <3> QED BY <2>5, <3>2, <3>6, BothStay
  <2> QED BY <2>3, <2>4, <2>5 DEF Goes, PairTypes
<1>7. CASE Ours(s0)
  <2>1. IsSheet(s0) /\ s0 \in Sheets
    BY <1>1, <1>5, <1>7, <1>c, RideNames DEF Ours, IsSheet, OrNone
  <2>2. sheet[s0] \in SheetRow
    BY <1>1, <2>1, SheetTyped
  <2>3. sheet' = [sheet EXCEPT ![s0] = row]
    BY <1>1, <1>7, <1>a, <1>b, <1>c, <1>e DEF CopyTripToManifest, PairRows
  <2>4. PICK n : n = ride[t0].driver
    OBVIOUS
  <2>5. PICK x : x = Filled(ride[t0].car, sheet[s0].car)
    OBVIOUS
  <2>6. PICK y : y = PhoneOf(s0, n)
    OBVIOUS
  <2>7. n \in Drivers
    BY <1>5, <2>4 DEF RideRow
  <2>8. x \in OrNone(Cars) /\ (ride[t0].car # None => x = ride[t0].car)
    BY <1>5, <2>2, <2>5 DEF Filled, RideRow, SheetRow
  <2>9. y \in OrNone(Drivers)
    BY <2>2, <2>6, PairAssumption DEF PhoneOf, SheetRow, OrNone
  <2>10. PhonesEntered => y \in {None, n}
    BY <1>1, <2>1, <2>6 DEF PhoneOf, PhonesTheirs
  <2>11. row = [sheet[s0] EXCEPT !.driver = n, !.car = x, !.phone = y]
    BY <1>e, <2>4, <2>5, <2>6
  <2>12. /\ row \in SheetRow /\ row.driver = n /\ row.car = x /\ row.phone = y
         /\ row.doc = sheet[s0].doc
    BY <2>2, <2>7, <2>8, <2>9, <2>11 DEF SheetRow, OrNone
  <2>13. PhonesEntered => row.phone \in {None, row.driver}
    BY <2>10, <2>12
  <2>14. /\ PairRows' /\ OneHolder' /\ PhonesTheirs' /\ KnownKept
         /\ sheet'[s0] = row /\ \A u \in Sheets \ {s0} : sheet'[u] = sheet[u]
    BY <1>1, <1>2, <2>1, <2>3, <2>12, <2>13, SheetChanged
  <2>15. PairLeft'
    BY <1>1, <1>2, <1>3, <2>14, LeftAfter
  <2>16. ASSUME NEW s \in Sheets, NEW t \in Rides, Staying(s, t)
         PROVE  DocMet(s, t)' /\ CopyMet(s, t)'
    <3>1. ride'[t] # None /\ ride'[t].sheet = s
      BY <1>1, <2>16, Stays
    <3>2. ride'[t] = ride[t]
      BY <1>2
    <3>3. t \in RidesOf(s) /\ IsRide(t) /\ ride[t].sheet = s
      BY <3>1, <3>2, RideOfMember DEF IsRide
    <3>4. CASE s # s0
      <4>1. t # t0 /\ sheet'[s] = sheet[s]
        BY <1>c, <2>14, <3>3, <3>4
      <4>2. \A c \in Range(calls) : WillGive(s, t, c) \/ WillCopy(s, t, c) => c \in Range(calls')
        BY <1>4, <1>b, <4>1 DEF WillGive, WillCopy
      <4> QED BY <2>16, <3>2, <4>1, <4>2, BothStay
    <3>5. CASE s = s0
      <4>1. t0 \in RidesOf(s)
        BY <1>5, <1>c, <3>5, RideOfMember
      <4>2. t = t0
        <5>1. RidesOf(s) \subseteq {t}
          BY <1>1, <2>16, Stays
        <5> QED BY <4>1, <5>1
      <4>3. \A c \in Range(calls) : WillGive(s, t, c) => c \in Range(calls')
        BY <1>4 DEF WillGive
      <4>4. sheet'[s].doc = sheet[s].doc
        BY <2>12, <2>14, <3>5
      <4>5. DocMet(s, t)'
        BY <2>16, <3>2, <3>3, <4>3, <4>4, DocKept DEF Holds
      <4>6. Likeness(s, t)'
        BY <2>4, <2>8, <2>12, <2>14, <3>2, <3>5, <4>2 DEF Likeness
      <4> QED BY <4>5, <4>6 DEF CopyMet
    <3> QED BY <3>4, <3>5
  <2> QED BY <2>14, <2>15, <2>16 DEF Goes, PairTypes
<1> QED BY <1>6, <1>7

LEMMA CopyManifestToTripGoes ==
  ASSUME PairIInv, CopyManifestToTrip
  PROVE  Goes
<1>a. PICK h : h = Head(calls)
  OBVIOUS
<1>b. PICK s0 : s0 = h.id
  OBVIOUS
<1>c. PICK t0 : t0 = Min(RidesOf(s0))
  OBVIOUS
<1>d. PICK none : none = <<>>
  OBVIOUS
<1>e. PICK row : row = [ride[t0] EXCEPT !.driver = Filled(sheet[s0].driver, ride[t0].driver),
                                        !.car = Filled(sheet[s0].car, ride[t0].car)]
  OBVIOUS
<1>1. PairRows /\ PairLeft /\ OneHolder /\ PhonesTheirs
  BY DEF PairIInv, PairTypes
<1>2. /\ Serving("copyUp") /\ Then(none)
      /\ UNCHANGED <<sheet, sheetsMade, ridesMade, pairCuts>>
  BY <1>d DEF CopyManifestToTrip
<1>3. none \in Seq(CallRow) /\ Range(none) = {} /\ "copyUp" \in Helpers
  BY <1>d, RangeNone DEF Helpers
<1>4. /\ h.f = "copyUp" /\ Known(h)
      /\ \A c \in Range(calls) : c = h \/ c \in Range(calls')
  BY <1>1, <1>2, <1>3, <1>a, HelperRan
<1>5. s0 \in Sheets /\ IsSheet(s0) /\ sheet[s0] \in SheetRow
  BY <1>1, <1>4, <1>b, SheetTyped DEF Known
<1>6. CASE ~Ours(s0) \/ RidesOf(s0) = {}
  <2>1. ride' = ride
    BY <1>6, <1>a, <1>b DEF CopyManifestToTrip
  <2>2. UNCHANGED pairRows
    BY <1>2, <2>1 DEF pairRows
  <2>3. PairRows' /\ OneHolder' /\ PhonesTheirs' /\ KnownKept
    BY <1>1, <2>2, RowsStay
  <2>4. PairLeft'
    BY <1>1, <1>2, <1>3, <2>3, LeftAfter
  <2>5. ASSUME NEW s \in Sheets, NEW t \in Rides, Staying(s, t)
        PROVE  DocMet(s, t)' /\ CopyMet(s, t)'
    <3>1. ride'[t] # None /\ ride'[t].sheet = s
      BY <1>1, <2>5, Stays
    <3>2. sheet'[s] = sheet[s] /\ ride'[t] = ride[t]
      BY <1>2, <2>1
    <3>3. t \in RidesOf(s)
      BY <3>1, <3>2, RideOfMember DEF IsRide
    <3>4. Ours(s)
      BY <1>1, <2>5, <3>3, Stays
    <3>5. s # s0
      BY <1>6, <3>3, <3>4
    <3>6. \A c \in Range(calls) : WillGive(s, t, c) \/ WillCopy(s, t, c) => c \in Range(calls')
      BY <1>4, <1>b, <3>5 DEF WillGive, WillCopy
    <3> QED BY <2>5, <3>2, <3>6, BothStay
  <2> QED BY <2>3, <2>4, <2>5 DEF Goes, PairTypes
<1>7. CASE Ours(s0) /\ RidesOf(s0) # {}
  <2>1. t0 \in RidesOf(s0)
    <3>1. RidesOf(s0) \subseteq Rides
      BY DEF RidesOf
    <3> QED BY <1>7, <1>c, <3>1, LeastRide
  <2>2. t0 \in Rides /\ IsRide(t0) /\ ride[t0].sheet = s0 /\ ride[t0] \in RideRow
    BY <1>1, <2>1, RideOfMember, RideTyped
  <2>3. ride' = [ride EXCEPT ![t0] = row]
    BY <1>1, <1>7, <1>a, <1>b, <1>c, <1>e DEF CopyManifestToTrip, PairRows
  <2>4. PICK n : n = Filled(sheet[s0].driver, ride[t0].driver)
    OBVIOUS
  <2>5. PICK x : x = Filled(sheet[s0].car, ride[t0].car)
    OBVIOUS
  <2>6. n \in Drivers /\ sheet[s0].driver \in {None, n}
    BY <1>5, <2>2, <2>4 DEF Filled, RideRow, SheetRow, OrNone
  <2>7. x \in OrNone(Cars) /\ (sheet[s0].car # None => x = sheet[s0].car)
    BY <1>5, <2>2, <2>5 DEF Filled, RideRow, SheetRow
  <2>8. row = [ride[t0] EXCEPT !.driver = n, !.car = x]
    BY <1>e, <2>4, <2>5
  <2>9. /\ row \in RideRow /\ row.driver = n /\ row.car = x
        /\ row.doc = ride[t0].doc /\ row.sheet = s0
    BY <2>2, <2>6, <2>7, <2>8 DEF RideRow, OrNone
  <2>10. row.sheet # None => IsSheet(row.sheet)
    BY <1>5, <2>9
  <2>11. /\ PairRows' /\ OneHolder' /\ PhonesTheirs' /\ KnownKept
         /\ ride'[t0] = row /\ \A u \in Rides \ {t0} : ride'[u] = ride[u]
    BY <1>1, <1>2, <2>2, <2>3, <2>9, <2>10, RideChanged
  <2>12. PairLeft'
    BY <1>1, <1>2, <1>3, <2>11, LeftAfter
  <2>13. ASSUME NEW s \in Sheets, NEW t \in Rides, Staying(s, t)
         PROVE  DocMet(s, t)' /\ CopyMet(s, t)'
    <3>1. ride'[t] # None /\ ride'[t].sheet = s
      BY <1>1, <2>13, Stays
    <3>2. sheet'[s] = sheet[s]
      BY <1>2
    <3>3. CASE t # t0
      <4>1. ride'[t] = ride[t]
        BY <2>11, <3>3
      <4>2. t \in RidesOf(s)
        BY <3>1, <4>1, RideOfMember DEF IsRide
      <4>3. t0 \notin RidesOf(s)
        BY <1>1, <2>13, <3>3, Stays
      <4>4. s # s0
        BY <2>1, <4>3
      <4>5. \A c \in Range(calls) : WillGive(s, t, c) \/ WillCopy(s, t, c) => c \in Range(calls')
        BY <1>4, <1>b, <4>4 DEF WillGive, WillCopy
      <4> QED BY <2>13, <3>2, <4>1, <4>5, BothStay
    <3>4. CASE t = t0
      <4>1. s = s0
        BY <2>9, <2>11, <3>1, <3>4
      <4>2. t \in RidesOf(s) /\ ride'[t].doc = ride[t].doc
        BY <2>1, <2>9, <2>11, <3>4, <4>1
      <4>3. \A c \in Range(calls) : WillGive(s, t, c) => c \in Range(calls')
        BY <1>4 DEF WillGive
      <4>4. DocMet(s, t)'
        BY <2>13, <3>2, <4>2, <4>3, DocKept DEF Holds
      <4>5. Likeness(s, t)'
        BY <2>6, <2>7, <2>9, <2>11, <3>2, <3>4, <4>1 DEF Likeness
      <4> QED BY <4>4, <4>5 DEF CopyMet
    <3> QED BY <3>3, <3>4
  <2> QED BY <2>11, <2>12, <2>13 DEF Goes, PairTypes
<1> QED BY <1>6, <1>7

LEMMA SyncTripDocToManifestGoes ==
  ASSUME PairIInv, SyncTripDocToManifest
  PROVE  Goes
<1>a. PICK h : h = Head(calls)
  OBVIOUS
<1>b. PICK t0 : t0 = h.id
  OBVIOUS
<1>c. PICK s0 : s0 = ride[t0].sheet
  OBVIOUS
<1>d. PICK none : none = <<>>
  OBVIOUS
<1>e. PICK h0 : h0 = Call("pairRide", t0, None)
  OBVIOUS
<1>f. PICK row : row = [sheet[s0] EXCEPT !.doc = DocTaken(s0, t0, h.prev)]
  OBVIOUS
<1>1. PairRows /\ PairLeft /\ OneHolder /\ PhonesTheirs
  BY DEF PairIInv, PairTypes
<1>2. /\ Serving("syncDoc") /\ UNCHANGED <<sheetsMade, ride, ridesMade, pairCuts>>
      /\ IF s0 = None THEN Then(<<h0>>) /\ UNCHANGED sheet
         ELSE Then(none) /\ sheet' = IF Ours(s0)
              THEN [sheet EXCEPT ![s0].doc = DocTaken(s0, t0, h.prev)] ELSE sheet
  BY <1>a, <1>b, <1>c, <1>d, <1>e DEF SyncTripDocToManifest
<1>3. "syncDoc" \in Helpers
  BY DEF Helpers
<1>4. PICK more : more = IF s0 = None THEN <<h0>> ELSE none
  OBVIOUS
<1>5. Then(more)
  BY <1>2, <1>4
<1>6. calls # <<>> /\ h \in Range(calls) /\ h \in CallRow /\ h.f = "syncDoc" /\ Known(h)
  <2>1. calls \in Seq(CallRow) /\ calls # <<>> /\ h.f = "syncDoc"
    BY <1>1, <1>2, <1>a DEF PairLeft, Serving
  <2>2. h \in Range(calls) /\ h \in CallRow
    BY <1>a, <2>1, HeadTail
  <2> QED BY <1>1, <2>1, <2>2 DEF PairLeft
<1>7. t0 \in Rides /\ IsRide(t0) /\ ride[t0] \in RideRow
  BY <1>1, <1>6, <1>b, RideTyped DEF Known
<1>8. h0 \in CallRow /\ h0.f = "pairRide" /\ h0.id = t0
  BY <1>7, <1>e, CallMade DEF Helpers, OrNone
<1>9. more \in Seq(CallRow) /\ \A c \in Range(more) : c = h0
  <2>1. <<h0>> \in Seq(CallRow) /\ Range(<<h0>>) = {h0}
    BY <1>8, RangeOne
  <2>2. none \in Seq(CallRow) /\ Range(none) = {}
    BY <1>d, RangeNone
  <2> QED BY <1>4, <2>1, <2>2
<1>10. \A c \in Range(calls) : c = h \/ c \in Range(calls')
  BY <1>1, <1>2, <1>3, <1>5, <1>9, <1>a, HelperRan
<1>11. \A c \in Range(more) : Known(c)'
  <2>1. IsRide(t0)'
    BY <1>2, <1>7 DEF IsRide
  <2> QED BY <1>7, <1>8, <1>9, <2>1 DEF Known
<1>12. CASE ~Ours(s0)
  <2>1. sheet' = sheet
    BY <1>2, <1>12
  <2>2. UNCHANGED pairRows
    BY <1>2, <2>1 DEF pairRows
  <2>3. PairRows' /\ OneHolder' /\ PhonesTheirs' /\ KnownKept
    BY <1>1, <2>2, RowsStay
  <2>4. PairLeft'
    BY <1>1, <1>2, <1>3, <1>5, <1>9, <1>11, <2>3, LeftAfter
  <2>5. ASSUME NEW s \in Sheets, NEW t \in Rides, Staying(s, t)
        PROVE  DocMet(s, t)' /\ CopyMet(s, t)'
    <3>1. ride'[t] # None /\ ride'[t].sheet = s
      BY <1>1, <2>5, Stays
    <3>2. sheet'[s] = sheet[s] /\ ride'[t] = ride[t]
      BY <1>2, <2>1
    <3>3. t \in RidesOf(s)
      BY <3>1, <3>2, RideOfMember DEF IsRide
    <3>4. Ours(s)
      BY <1>1, <2>5, <3>3, Stays
    <3>5. t # t0
      BY <1>12, <1>c, <3>1, <3>2, <3>4
    <3>6. \A c \in Range(calls) : WillGive(s, t, c) \/ WillCopy(s, t, c) => c \in Range(calls')
      BY <1>6, <1>10, <1>b, <3>5 DEF WillGive, WillCopy
    <3> QED BY <2>5, <3>2, <3>6, BothStay
  <2> QED BY <2>3, <2>4, <2>5 DEF Goes, PairTypes
<1>13. CASE Ours(s0)
  <2>1. IsSheet(s0) /\ s0 \in Sheets /\ s0 # None
    BY <1>1, <1>7, <1>13, <1>c, RideNames DEF Ours, IsSheet, OrNone
  <2>2. sheet[s0] \in SheetRow
    BY <1>1, <2>1, SheetTyped
  <2>3. sheet' = [sheet EXCEPT ![s0] = row]
    BY <1>1, <1>2, <1>13, <1>f, <2>1 DEF PairRows
  <2>4. PICK d : d = DocTaken(s0, t0, h.prev)
    OBVIOUS
  <2>5. /\ d = ride[t0].doc \/ d = sheet[s0].doc
        /\ (sheet[s0].doc = None \/ sheet[s0].doc = h.prev) => d = ride[t0].doc
    BY <2>4 DEF DocTaken
  <2>6. d \in OrNone(Docs)
    BY <1>7, <2>2, <2>5 DEF RideRow, SheetRow
  <2>7. /\ row \in SheetRow /\ row.doc = d /\ row.driver = sheet[s0].driver
        /\ row.car = sheet[s0].car /\ row.phone = sheet[s0].phone
    BY <1>f, <2>2, <2>4, <2>6 DEF SheetRow
  <2>8. PhonesEntered => row.phone \in {None, row.driver}
    BY <1>1, <2>1, <2>7 DEF PhonesTheirs
  <2>9. /\ PairRows' /\ OneHolder' /\ PhonesTheirs' /\ KnownKept
        /\ sheet'[s0] = row /\ \A u \in Sheets \ {s0} : sheet'[u] = sheet[u]
    BY <1>1, <1>2, <2>1, <2>3, <2>7, <2>8, SheetChanged
  <2>10. PairLeft'
    BY <1>1, <1>2, <1>3, <1>5, <1>9, <1>11, <2>9, LeftAfter
  <2>11. ASSUME NEW s \in Sheets, NEW t \in Rides, Staying(s, t)
         PROVE  DocMet(s, t)' /\ CopyMet(s, t)'
    <3>1. ride'[t] # None /\ ride'[t].sheet = s
      BY <1>1, <2>11, Stays
    <3>2. ride'[t] = ride[t]
      BY <1>2
    <3>3. t \in RidesOf(s) /\ IsRide(t) /\ ride[t].sheet = s
      BY <3>1, <3>2, RideOfMember DEF IsRide
    <3>4. CASE s # s0
      <4>1. t # t0 /\ sheet'[s] = sheet[s]
        BY <1>c, <2>9, <3>3, <3>4
      <4>2. \A c \in Range(calls) : WillGive(s, t, c) \/ WillCopy(s, t, c) => c \in Range(calls')
        BY <1>6, <1>10, <1>b, <4>1 DEF WillGive, WillCopy
      <4> QED BY <2>11, <3>2, <4>1, <4>2, BothStay
    <3>5. CASE s = s0
      <4>1. t0 \in RidesOf(s)
        BY <1>7, <1>c, <3>5, RideOfMember
      <4>2. t = t0
        <5>1. RidesOf(s) \subseteq {t}
          BY <1>1, <2>11, Stays
        <5> QED BY <4>1, <5>1
      <4>3. sheet'[s].driver = sheet[s].driver /\ sheet'[s].car = sheet[s].car /\ sheet'[s].doc = d
        BY <2>7, <2>9, <3>5
      <4>4. \A c \in Range(calls) : WillCopy(s, t, c) => c \in Range(calls')
        BY <1>6, <1>10 DEF WillCopy
      <4>5. CopyMet(s, t)'
        BY <2>11, <3>2, <3>3, <4>3, <4>4, CopyKept
      <4>6. CASE d = ride[t0].doc
        <5>1. Given(sheet[s].doc)'
          BY <1>7, <3>2, <3>3, <4>2, <4>3, <4>6 DEF Given, Holds, IsRide
        <5> QED BY <4>5, <5>1 DEF DocMet
      <4>7. CASE d # ride[t0].doc
        <5>1. d = sheet[s].doc /\ ~(sheet[s].doc = h.prev)
          BY <2>5, <3>5, <4>7
        <5>2. \A c \in Range(calls) : WillGive(s, t, c) => c \in Range(calls')
          BY <1>6, <1>10, <5>1 DEF WillGive
        <5>3. DocMet(s, t)'
          BY <2>11, <3>2, <3>3, <4>3, <5>1, <5>2, DocKept DEF Holds
        <5> QED BY <4>5, <5>3
      <4> QED BY <4>6, <4>7
    <3> QED BY <3>4, <3>5
  <2> QED BY <2>9, <2>10, <2>11 DEF Goes, PairTypes
<1> QED BY <1>12, <1>13

-----------------------------------------------------------------------------
LEMMA CutPairingGoes ==
  ASSUME PairIInv, CutPairing
  PROVE  Goes
<1>1. PairRows /\ PairLeft /\ OneHolder /\ PhonesTheirs /\ pairCuts \in Nat
  BY DEF PairIInv, PairTypes, PairCounts
<1>2. UNCHANGED pairRows /\ calls' = <<>> /\ pairCuts' = pairCuts + 1
  BY DEF CutPairing
<1>3. PairRows' /\ OneHolder' /\ PhonesTheirs' /\ KnownKept
  BY <1>1, <1>2, RowsStay
<1>4. PairLeft'
  BY <1>2, RangeNone DEF PairLeft
<1>5. \A s \in Sheets, t \in Rides : ~Staying(s, t)
  BY <1>1, <1>2 DEF Staying, Parted
<1> QED BY <1>3, <1>4, <1>5 DEF Goes, PairTypes

LEMMA PairRequestGoes ==
  ASSUME PairIInv, PairRequest
  PROVE  Goes
<1>1. calls = <<>>
  BY DEF PairRequest
<1>2. CASE \E form \in SheetForms : CreateSheet(form)
  BY <1>1, <1>2, CreateSheetGoes
<1>3. CASE \E s \in Sheets : RemoveSheet(s) \/ \E edit \in SheetEdits : UpdateSheet(s, edit)
  BY <1>1, <1>3, RemoveSheetGoes, UpdateSheetGoes
<1>4. CASE \E form \in RideForms, s \in Sheets \cup {None} : CreateRide(form, s)
  BY <1>1, <1>4, CreateRideGoes
<1>5. CASE \E t \in Rides, edit \in RideEdits : UpdateRide(t, edit)
  BY <1>1, <1>5, UpdateRideGoes
<1>6. CASE \E t \in Rides, s \in Sheets : MoveRide(t, s)
  BY <1>1, <1>6, MoveRideGoes
<1>7. CASE \E t \in Rides, d \in Docs \cup {None} : LinkDoc(t, d)
  BY <1>1, <1>7, LinkDocGoes
<1>8. CASE \E t \in Rides : DetachRide(t) \/ RemoveRide(t)
  BY <1>1, <1>8, DetachRideGoes, RemoveRideGoes
<1>9. CASE \E d \in Docs : RemoveDoc(d)
  BY <1>1, <1>9, RemoveDocGoes
<1> QED BY <1>2, <1>3, <1>4, <1>5, <1>6, <1>7, <1>8, <1>9 DEF PairRequest

LEMMA PairNextGoes ==
  ASSUME PairIInv, PairNext
  PROVE  Goes
<1>1. CASE PairRequest
  BY <1>1, PairRequestGoes
<1>2. CASE PairStep
  BY <1>2, SyncManifestTripsGoes, AutoPairManifestGoes, AutoPairTripGoes, CopyTripToManifestGoes,
     CopyManifestToTripGoes, SyncTripDocToManifestGoes DEF PairStep
<1>3. CASE CutPairing
  BY <1>3, CutPairingGoes
<1> QED BY <1>1, <1>2, <1>3 DEF PairNext

LEMMA PairCountsKept ==
  ASSUME PairIInv, PairNext
  PROVE  PairCounts'
<1>1. pairBegun \in Nat /\ pairCuts \in Nat
  BY DEF PairIInv, PairCounts
<1>2. pairSoiled' \subseteq Sheets
  BY DEF PairNext
<1>3. pairBegun' \in Nat
  BY <1>1 DEF PairNext, PairRequest
<1>4. CASE PairRequest
  <2>1. UNCHANGED pairCuts
    BY <1>4 DEF PairRequest, CreateSheet, RemoveSheet, UpdateSheet, CreateRide, UpdateRide,
       MoveRide, LinkDoc, DetachRide, RemoveRide, RemoveDoc
  <2> QED BY <1>1, <1>2, <1>3, <2>1 DEF PairCounts
<1>5. CASE PairStep
  <2>1. UNCHANGED pairCuts
    BY <1>5 DEF PairStep, SyncManifestTrips, AutoPairManifest, AutoPairTrip,
       CopyTripToManifest, CopyManifestToTrip, SyncTripDocToManifest
  <2> QED BY <1>1, <1>2, <1>3, <2>1 DEF PairCounts
<1>6. CASE CutPairing
  BY <1>1, <1>2, <1>3, <1>6 DEF PairCounts, CutPairing
<1> QED BY <1>4, <1>5, <1>6 DEF PairNext

\* The inductive invariant of sheets and rides: a request in progress still has a call to
\* make for each document, driver or vehicle that is not where it should be.
THEOREM PairsInductive == PairSpec => []PairIInv
<1>1. PairInit => PairIInv
  <2> SUFFICES ASSUME PairInit PROVE PairIInv
    OBVIOUS
  <2>1. \A s \in Sheets : ~IsSheet(s)
    BY DEF PairInit, IsSheet
  <2>2. \A t \in Rides : ~IsRide(t)
    BY DEF PairInit, IsRide
  <2>3. PairRows
    BY <2>1, <2>2 DEF PairInit, PairRows, OrNone
  <2>4. PairLeft
    BY RangeNone DEF PairInit, PairLeft
  <2>5. OneHolder /\ PhonesTheirs /\ PairCounts
    BY <2>1, <2>2 DEF PairInit, OneHolder, PhonesTheirs, PairCounts
  <2>6. PairsMeet
    BY <2>1 DEF PairsMeet, PairMet, Ours
  <2> QED BY <2>3, <2>4, <2>5, <2>6 DEF PairIInv, PairTypes
<1>2. PairIInv /\ [PairNext]_pairVars => PairIInv'
  <2>1. ASSUME PairIInv, PairNext PROVE PairIInv'
    <3>1. Goes /\ PairCounts'
      BY <2>1, PairNextGoes, PairCountsKept
    <3>2. pairSoiled' = {s \in Sheets : (s \in pairSoiled \/ Parted(s))
                                     /\ \E t \in Rides : ride'[t] # None /\ ride'[t].sheet = s}
      BY <2>1 DEF PairNext
    <3>3. PairsMeet'
      BY <3>1, <3>2, MeetAgain DEF Goes
    <3> QED BY <3>1, <3>3 DEF Goes, PairIInv
  <2>2. ASSUME PairIInv, UNCHANGED pairVars PROVE PairIInv'
    <3>1. /\ sheet' = sheet /\ sheetsMade' = sheetsMade /\ ride' = ride /\ ridesMade' = ridesMade
          /\ calls' = calls /\ pairSoiled' = pairSoiled /\ pairBegun' = pairBegun /\ pairCuts' = pairCuts
      BY <2>2 DEF pairVars
    <3>2. UNCHANGED pairRows
      BY <3>1 DEF pairRows
    <3>3. PairRows' /\ OneHolder' /\ PhonesTheirs' /\ KnownKept
      BY <2>2, <3>2, RowsStay DEF PairIInv, PairTypes
    <3>4. PairLeft' /\ PairCounts'
      BY <2>2, <3>1, <3>3 DEF PairIInv, PairTypes, PairLeft, PairCounts, KnownKept
    <3>5. PairsMeet'
      BY <2>2, <3>1 DEF PairIInv, PairsMeet, PairMet, DocMet, CopyMet, WillGive, WillCopy, Given,
         Likeness, Ours, IsSheet, RidesOf, IsRide, Holds
    <3> QED BY <3>3, <3>4, <3>5 DEF PairIInv, PairTypes
  <2> QED BY <2>1, <2>2
<1> QED BY <1>1, <1>2, PTL DEF PairSpec

\* Every column of a sheet or a ride has its type, a ride names a sheet that is there, a call
\* is about a row that is there and no two rides have one document, in every behaviour.
THEOREM PairsTyped == PairSpec => []PairTypeOK
<1>1. PairIInv => PairTypeOK
  <2> SUFFICES ASSUME PairIInv PROVE PairTypeOK
    OBVIOUS
  <2>1. PairRows /\ PairLeft /\ OneHolder /\ PairCounts
    BY DEF PairIInv, PairTypes
  <2>2. \A t \in Rides : IsRide(t) => t <= ridesMade
                                     /\ (ride[t].sheet # None => IsSheet(ride[t].sheet))
    BY <2>1 DEF PairRows
  <2>3. \A i \in DOMAIN calls :
          IF calls[i].f \in {"syncRides", "pairSheet", "copyUp"} THEN IsSheet(calls[i].id)
                                                                ELSE IsRide(calls[i].id)
    <3> SUFFICES ASSUME NEW i \in DOMAIN calls
                 PROVE  IF calls[i].f \in {"syncRides", "pairSheet", "copyUp"}
                        THEN IsSheet(calls[i].id) ELSE IsRide(calls[i].id)
      OBVIOUS
    <3>1. calls[i] \in Range(calls)
      BY DEF Range
    <3> QED BY <2>1, <3>1 DEF PairLeft, Known
  <2>4. \A d \in Docs : Cardinality({t \in Rides : Holds(t, d)}) <= 1
    <3> SUFFICES ASSUME NEW d \in Docs PROVE Cardinality({t \in Rides : Holds(t, d)}) <= 1
      OBVIOUS
    <3>1. PICK T : T = {t \in Rides : Holds(t, d)}
      OBVIOUS
    <3>2. CASE T = {}
      BY <3>1, <3>2, FS_EmptySet
    <3>3. CASE T # {}
      <4>1. PICK t \in T : TRUE
        BY <3>3
      <4>2. \A u \in T : u = t
        BY <2>1, <3>1, <4>1 DEF OneHolder, Holds
      <4>3. T = {t}
        BY <4>1, <4>2
      <4> QED BY <3>1, <4>3, FS_Singleton
    <3> QED BY <3>2, <3>3
  <2>5. /\ sheet \in [Sheets -> OrNone(SheetRow)] /\ sheetsMade \in Nat
        /\ ride \in [Rides -> OrNone(RideRow)] /\ ridesMade \in Nat
        /\ \A s \in Sheets : IsSheet(s) => s <= sheetsMade
        /\ pairSoiled \subseteq Sheets /\ pairBegun \in Nat /\ pairCuts \in Nat
    BY <2>1 DEF PairRows, PairCounts
  <2> QED BY <2>2, <2>3, <2>4, <2>5 DEF PairTypeOK
<1> QED BY <1>1, PairsInductive, PTL

\* If the office enters drivers with their phones, then, when a request has ended, a sheet and
\* its only ride agree on document, driver and vehicle, and the phone is the driver's.
THEOREM PairsAlwaysAgree ==
  ASSUME PhonesEntered
  PROVE  PairSpec => []PairsAgree
<1>1. PairIInv => PairsAgree
  <2> SUFFICES ASSUME PairIInv, calls = <<>>, NEW s \in Sheets \ pairSoiled, NEW t \in Rides,
                      Ours(s), RidesOf(s) = {t}
               PROVE  /\ sheet[s].driver \in {None, ride[t].driver}
                      /\ sheet[s].car # None /\ ride[t].car # None => sheet[s].car = ride[t].car
                      /\ sheet[s].phone \in {None, sheet[s].driver}
                      /\ sheet[s].doc # None => \E u \in Rides : Holds(u, sheet[s].doc)
                      /\ sheet[s].doc # ride[t].doc =>
                            sheet[s].doc = None \/ \E u \in Rides \ {t} : Holds(u, sheet[s].doc)
    BY DEF PairsAgree
  <2>1. Range(calls) = {}
    BY NothingLeft
  <2>2. DocMet(s, t) /\ CopyMet(s, t)
    BY DEF PairIInv, PairsMeet, PairMet
  <2>3. Given(sheet[s].doc) /\ Likeness(s, t)
    BY <2>1, <2>2 DEF DocMet, CopyMet
  <2>4. sheet[s].phone \in {None, sheet[s].driver}
    BY DEF PairIInv, PhonesTheirs, Ours
  <2>5. sheet[s].doc # None => \E u \in Rides : Holds(u, sheet[s].doc)
    BY <2>3 DEF Given
  <2>6. sheet[s].doc # ride[t].doc =>
          sheet[s].doc = None \/ \E u \in Rides \ {t} : Holds(u, sheet[s].doc)
    BY <2>5 DEF Holds
  <2> QED BY <2>3, <2>4, <2>5, <2>6 DEF Likeness
<1> QED BY <1>1, PairsInductive, PTL

-----------------------------------------------------------------------------
(* Deals.  A delete statement takes rows of one deal only, and that of      *)
(* updateCommission only its commissions; so whatever commits in between,   *)
(* the rows of the last form committed are all there.                       *)

DealPlaces == {"idle", "number", "insert", "fee", "clear", "rebuild", "clearFees", "award"}
FeeKinds == {"dealFee", "itemFee"}

\* A request under way knows what its handler has looked up.
DealKnows(l, m) ==
    /\ l # "idle" => m.deal \in DealIds
    /\ l \in {"number", "insert", "fee", "clear", "rebuild"} => m.v \in DealForms

\* A row is taken by requests that are about to commit the change of its deal.
LegRightful(e) ==
    \A r \in e.takers :
        /\ dealPc[r] \in {"rebuild", "award"}
        /\ dealMem[r].deal = e.of
        /\ dealPc[r] = "award" => e.leg.kind \in FeeKinds

LegShown(d, l) == \E e \in leg : e.of = d /\ e.leg = l
DealFull(d) == Made(d) /\ d \notin dealStruck => \A l \in DealLegs(deal[d].v) : LegShown(d, l)

DealIInv ==
    /\ DealTypeOK
    /\ dealPc \in [Requests -> DealPlaces]
    /\ dealOverlap \in BOOLEAN
    /\ \A r \in Requests : DealKnows(dealPc[r], dealMem[r])
    /\ \A e \in leg : LegRightful(e)
    /\ \A d \in DealIds : DealFull(d)

-----------------------------------------------------------------------------
(* The rows of a form.                                                     *)

LEMMA DealLegsType ==
  ASSUME NEW v \in DealForms
  PROVE  /\ DealLegs(v) \subseteq LegType
         /\ \A l \in DealLegs(v) : l.kind \notin FeeKinds
<1>1. /\ v.client \in DealParties /\ v.supplier \in DealParties
      /\ {v.sell, v.buy, v.charges, v.freight, v.in, v.out, v.costs} \subseteq Nat
  BY DealAssumption DEF FormType
<1>2. \A k \in LegKinds, p \in DealParties \cup {None}, n \in Nat :
        Leg(k, p, n) \in LegType /\ Leg(k, p, n).kind = k
  BY DEF Leg, LegType
<1>3. ASSUME NEW l \in DealLegs(v)
      PROVE  \E k \in LegKinds \ FeeKinds, p \in DealParties \cup {None}, n \in Nat : l = Leg(k, p, n)
  <2>1. CASE l \in {Leg("sale", v.client, v.sell), Leg("purchase", v.supplier, v.buy)}
    BY <1>1, <2>1 DEF LegKinds, FeeKinds
  <2>2. CASE l \in {Leg("charges", v.client, v.charges), Leg("in", v.client, v.in),
                    Leg("out", v.supplier, v.out), Leg("freight", v.client, v.freight)}
    BY <1>1, <2>2 DEF LegKinds, FeeKinds
  <2>3. CASE l = Leg("costs", None, v.costs)
    BY <1>1, <2>3 DEF LegKinds, FeeKinds
  <2> QED BY <2>1, <2>2, <2>3 DEF DealLegs
<1> QED BY <1>2, <1>3

LEMMA DealFeesType ==
  ASSUME NEW p \in DealParties \cup {None}
  PROVE  /\ DealFee(p) \subseteq LegType /\ ItemFee(p) \subseteq LegType
         /\ \A l \in DealFee(p) : l.kind = "dealFee"
         /\ \A l \in ItemFee(p) : l.kind = "itemFee"
  BY DEF DealFee, ItemFee, Leg, LegType, LegKinds

LEMMA FormFeeType ==
  ASSUME NEW v \in DealForms
  PROVE  FormFee(v) \in DealParties \cup {None} /\ v.owner \in DealParties \cup {None}
  BY DealAssumption DEF FormFee, FormType

\* The rows that a commit posts.
LEMMA PostingIs ==
  ASSUME NEW d \in DealIds, NEW legs \in SUBSET LegType
  PROVE  /\ Posting(d, legs) \subseteq LegRow
         /\ \A e \in Posting(d, legs) : e.of = d /\ e.takers = {} /\ e.leg \in legs
         /\ \A l \in legs : \E e \in Posting(d, legs) : e.of = d /\ e.leg = l
<1> DEFINE Row(l) == [of |-> d, leg |-> l, takers |-> {}]
<1>1. \A l \in legs : Row(l) \in LegRow /\ Row(l).of = d /\ Row(l).takers = {} /\ Row(l).leg = l
  BY DEF LegRow
<1>2. Posting(d, legs) = {Row(l) : l \in legs}
  BY DEF Posting
<1> HIDE DEF Row
<1> QED BY <1>1, <1>2

\* Taking rows hides none.
LEMMA TakingIs ==
  ASSUME NEW r \in Requests, NEW rows \in SUBSET leg, leg \subseteq LegRow, Taking(r, rows)
  PROVE  /\ leg' \subseteq LegRow
         /\ \A f \in leg' : f \in leg \/ \E e \in rows :
                f.of = e.of /\ f.leg = e.leg /\ f.takers = e.takers \cup {r}
         /\ \A e \in rows : \E f \in leg' : f.of = e.of /\ f.leg = e.leg
         /\ leg \ rows \subseteq leg'
         /\ \A f \in leg' : r \in f.takers \/ f \in leg \ rows
<1>1. \A e \in leg :
        LET f == [e EXCEPT !.takers = @ \cup {r}] IN
        f \in LegRow /\ f.of = e.of /\ f.leg = e.leg /\ f.takers = e.takers \cup {r}
  BY DEF LegRow
<1>2. leg' = (leg \ rows) \cup {[e EXCEPT !.takers = @ \cup {r}] : e \in rows}
  BY DEF Taking
<1> QED BY <1>1, <1>2

\* Nor does giving them back.
LEMMA GivenBackIs ==
  ASSUME NEW r \in Requests, leg \subseteq LegRow, leg' = {[e EXCEPT !.takers = @ \ {r}] : e \in leg}
  PROVE  /\ leg' \subseteq LegRow
         /\ \A f \in leg' : \E e \in leg : f.of = e.of /\ f.leg = e.leg /\ f.takers = e.takers \ {r}
         /\ \A e \in leg : \E f \in leg' : f.of = e.of /\ f.leg = e.leg
<1>1. \A e \in leg :
        LET f == [e EXCEPT !.takers = @ \ {r}] IN
        f \in LegRow /\ f.of = e.of /\ f.leg = e.leg /\ f.takers = e.takers \ {r}
  BY DEF LegRow
<1> QED BY <1>1

-----------------------------------------------------------------------------
(* One request moves.                                                      *)

LEMMA DealBlankType == DealBlank \in DealLocal
  BY DEF DealBlank, DealLocal

LEMMA DealMoved ==
  ASSUME DealIInv, NEW r \in Requests, NEW l \in DealPlaces, NEW m \in DealLocal,
         DealGoto(r, l), DealRemember(r, m)
  PROVE  /\ dealPc' \in [Requests -> DealPlaces] /\ dealMem' \in [Requests -> DealLocal]
         /\ dealPc'[r] = l /\ dealMem'[r] = m
         /\ \A q \in Requests \ {r} : dealPc'[q] = dealPc[q] /\ dealMem'[q] = dealMem[q]
  BY DEF DealIInv, DealTypeOK, DealGoto, DealRemember

LEMMA LegRightfulKept ==
  ASSUME NEW r \in Requests, NEW e \in LegRow, LegRightful(e), r \notin e.takers,
         \A q \in Requests \ {r} : dealPc'[q] = dealPc[q] /\ dealMem'[q] = dealMem[q]
  PROVE  LegRightful(e)'
  BY DEF LegRightful, LegRow

LEMMA TakesNoLeg ==
  ASSUME DealIInv, NEW r \in Requests, dealPc[r] \notin {"rebuild", "award"}, NEW e \in leg
  PROVE  r \notin e.takers
  BY DEF DealIInv, LegRightful

\* Request r moves to l with m, and the rows are what they were, new ones, or ones that it
\* takes or gives back: what each action has to show is that every deal is full.
LEMMA DealMove ==
  ASSUME DealIInv, NEW r \in Requests, NEW l \in DealPlaces, NEW m \in DealLocal,
         DealGoto(r, l), DealRemember(r, m), DealKnows(l, m), dealOverlap' \in BOOLEAN,
         deal' \in [DealIds -> {None} \cup DealRow], leg' \subseteq LegRow,
         feeDue' \in [DealIds -> DealParties \cup {None}],
         dealsGiven' \subseteq DealIds, dealStruck' \subseteq DealIds,
         \A f \in leg' : \/ f \in leg /\ r \notin f.takers
                         \/ f.takers = {}
                         \/ \E e \in leg : f.of = e.of /\ f.leg = e.leg /\ f.takers = e.takers \ {r}
                         \/ /\ l \in {"rebuild", "award"} /\ f.of = m.deal
                            /\ l = "award" => f.leg.kind \in FeeKinds
                            /\ \E e \in leg : f.of = e.of /\ f.leg = e.leg /\ f.takers = e.takers \cup {r},
         \A d \in DealIds : DealFull(d)'
  PROVE  DealIInv'
<1>1. /\ dealPc' \in [Requests -> DealPlaces] /\ dealMem' \in [Requests -> DealLocal]
      /\ dealPc'[r] = l /\ dealMem'[r] = m
      /\ \A q \in Requests \ {r} : dealPc'[q] = dealPc[q] /\ dealMem'[q] = dealMem[q]
  BY DealMoved
<1>2. ASSUME NEW q \in Requests PROVE DealKnows(dealPc[q], dealMem[q])'
  <2>1. CASE q = r
    BY <1>1, <2>1 DEF DealKnows
  <2>2. CASE q # r
    BY <1>1, <2>2 DEF DealKnows, DealIInv
  <2> QED BY <2>1, <2>2
<1>3. ASSUME NEW f \in leg' PROVE LegRightful(f)'
  <2>0. \A e \in leg : LegRightful(e) /\ e \in LegRow
    BY DEF DealIInv, DealTypeOK
  <2>1. CASE f \in leg /\ r \notin f.takers
    BY <1>1, <2>0, <2>1, LegRightfulKept
  <2>2. CASE f.takers = {}
    BY <2>2 DEF LegRightful
  <2>3. ASSUME NEW e \in leg, f.of = e.of, f.leg = e.leg, f.takers = e.takers \ {r}
        PROVE  LegRightful(f)'
    BY <1>1, <2>0, <2>3 DEF LegRightful, LegRow
  <2>4. ASSUME l \in {"rebuild", "award"}, f.of = m.deal, l = "award" => f.leg.kind \in FeeKinds,
               NEW e \in leg, f.of = e.of, f.leg = e.leg, f.takers = e.takers \cup {r}
        PROVE  LegRightful(f)'
    <3>1. LegRightful(e) /\ e \in LegRow
      BY <2>0
    <3>2. ASSUME NEW q \in e.takers, q # r
          PROVE  /\ dealPc'[q] \in {"rebuild", "award"} /\ dealMem'[q].deal = f.of
                 /\ dealPc'[q] = "award" => f.leg.kind \in FeeKinds
      BY <1>1, <2>4, <3>1, <3>2 DEF LegRightful, LegRow
    <3>3. /\ dealPc'[r] \in {"rebuild", "award"} /\ dealMem'[r].deal = f.of
          /\ dealPc'[r] = "award" => f.leg.kind \in FeeKinds
      BY <1>1, <2>4
    <3> QED BY <2>4, <3>2, <3>3 DEF LegRightful
  <2> QED BY <1>3, <2>1, <2>2, <2>3, <2>4
<1> QED BY <1>1, <1>2, <1>3 DEF DealIInv, DealTypeOK

\* A request that has taken no row moves, and the data stay but for the ids given out.
LEMMA DealQuietMove ==
  ASSUME DealIInv, NEW r \in Requests, dealPc[r] \notin {"rebuild", "award"},
         NEW l \in DealPlaces, NEW m \in DealLocal, DealGoto(r, l), DealRemember(r, m),
         DealKnows(l, m), dealOverlap' \in BOOLEAN,
         UNCHANGED <<deal, leg, feeDue, dealStruck>>, dealsGiven' \subseteq DealIds
  PROVE  DealIInv'
<1>1. \A e \in leg : r \notin e.takers
  BY TakesNoLeg
<1>2. \A d \in DealIds : DealFull(d)'
  BY DEF DealIInv, DealFull, Made, LegShown
<1> QED BY <1>1, <1>2, DealMove DEF DealIInv, DealTypeOK

-----------------------------------------------------------------------------
(* The statements that write.                                              *)

LEMMA InsertDealFull ==
  ASSUME DealIInv, NEW r \in Requests, InsertDeal(r)
  PROVE  DealIInv'
<1> DEFINE m == dealMem[r]
           legs == DealLegs(m.v) \cup DealFee(FormFee(m.v)) \cup ItemFee(m.v.owner)
<1>1. dealPc[r] = "insert" /\ m \in DealLocal /\ m.deal \in DealIds /\ m.v \in DealForms
  BY DEF InsertDeal, DealIInv, DealKnows, DealTypeOK
<1>2. legs \subseteq LegType
  BY <1>1, DealLegsType, DealFeesType, FormFeeType
<1>3. /\ leg' = leg \cup Posting(m.deal, legs)
      /\ deal' = [deal EXCEPT ![m.deal] = [no |-> m.no, v |-> m.v]]
      /\ feeDue' = [feeDue EXCEPT ![m.deal] = FormFee(m.v)]
      /\ DealGoto(r, "idle") /\ DealRemember(r, DealBlank) /\ UNCHANGED <<dealsGiven, dealStruck, dealOverlap>>
  BY DEF InsertDeal, DealEnd, dealTraffic
<1>4. /\ Posting(m.deal, legs) \subseteq LegRow
      /\ \A e \in Posting(m.deal, legs) : e.takers = {}
      /\ \A l \in legs : \E e \in Posting(m.deal, legs) : e.of = m.deal /\ e.leg = l
  BY <1>1, <1>2, PostingIs
<1>5. DealLegs(m.v) \subseteq legs
  OBVIOUS
<1> HIDE DEF m, legs
<1>6. [no |-> m.no, v |-> m.v] \in DealRow
  BY <1>1 DEF DealRow, DealLocal
<1>7. deal' \in [DealIds -> {None} \cup DealRow] /\ feeDue' \in [DealIds -> DealParties \cup {None}]
  BY <1>1, <1>3, <1>6, FormFeeType DEF DealIInv, DealTypeOK
<1>8. \A e \in leg : r \notin e.takers
  BY <1>1, TakesNoLeg
<1>9. ASSUME NEW d \in DealIds PROVE DealFull(d)'
  <2>1. CASE d = m.deal
    <3>1. deal'[d].v = m.v
      BY <1>3, <2>1 DEF DealIInv, DealTypeOK
    <3> QED BY <1>3, <1>4, <1>5, <2>1, <3>1 DEF DealFull, LegShown
  <2>2. CASE d # m.deal
    <3>1. deal'[d] = deal[d] /\ DealFull(d)
      BY <1>3, <2>2 DEF DealIInv, DealTypeOK
    <3> QED BY <1>3, <3>1 DEF DealFull, Made, LegShown
  <2> QED BY <2>1, <2>2
<1>10. leg' \subseteq LegRow /\ dealsGiven' \subseteq DealIds /\ dealStruck' \subseteq DealIds /\ dealOverlap' \in BOOLEAN
  BY <1>3, <1>4 DEF DealIInv, DealTypeOK
<1>11. DealKnows("idle", DealBlank)
  BY DEF DealKnows
<1> QED BY <1>3, <1>4, <1>7, <1>8, <1>9, <1>10, <1>11, DealBlankType, DealMove DEF DealPlaces

LEMMA RebuildDealFull ==
  ASSUME DealIInv, NEW r \in Requests, RebuildDeal(r)
  PROVE  DealIInv'
<1> DEFINE m == dealMem[r]
           legs == DealLegs(m.v) \cup DealFee(FeeAfter(m)) \cup ItemFee(m.v.owner)
<1>1. dealPc[r] = "rebuild" /\ m \in DealLocal /\ m.deal \in DealIds /\ m.v \in DealForms
  BY DEF RebuildDeal, DealIInv, DealKnows, DealTypeOK
<1>2. FeeAfter(m) \in DealParties \cup {None} /\ m.v.feeTo \in DealParties \cup {None}
  BY <1>1, DealAssumption DEF FeeAfter, FormType, DealLocal
<1>3. legs \subseteq LegType
  BY <1>1, <1>2, DealLegsType, DealFeesType, FormFeeType
<1>4. /\ leg' = Kept(r) \cup Posting(m.deal, legs)
      /\ deal' = [deal EXCEPT ![m.deal].v = m.v] /\ Made(m.deal)
      /\ feeDue' = [feeDue EXCEPT ![m.deal] = IF m.v.fee THEN m.v.feeTo ELSE @]
      /\ dealStruck' = dealStruck \ {m.deal}
      /\ DealGoto(r, "idle") /\ DealRemember(r, DealBlank) /\ UNCHANGED <<dealsGiven, dealOverlap>>
  BY DEF RebuildDeal, DealEnd, dealTraffic
<1>5. /\ Posting(m.deal, legs) \subseteq LegRow
      /\ \A e \in Posting(m.deal, legs) : e.takers = {}
      /\ \A l \in legs : \E e \in Posting(m.deal, legs) : e.of = m.deal /\ e.leg = l
  BY <1>1, <1>3, PostingIs
<1>6. DealLegs(m.v) \subseteq legs
  OBVIOUS
<1> HIDE DEF legs
<1>7. deal[m.deal] \in DealRow
  BY <1>1, <1>4 DEF Made, DealIInv, DealTypeOK
<1>8. [deal[m.deal] EXCEPT !.v = m.v] \in DealRow /\ [deal[m.deal] EXCEPT !.v = m.v].v = m.v
  BY <1>1, <1>7 DEF DealRow
<1> HIDE DEF m
<1>9. deal' \in [DealIds -> {None} \cup DealRow] /\ feeDue' \in [DealIds -> DealParties \cup {None}]
  BY <1>1, <1>2, <1>4, <1>8 DEF DealIInv, DealTypeOK
<1>10. ASSUME NEW d \in DealIds PROVE DealFull(d)'
  <2>1. CASE d = m.deal
    <3>1. deal'[d].v = m.v
      BY <1>4, <1>8, <2>1 DEF DealIInv, DealTypeOK
    <3> QED BY <1>4, <1>5, <1>6, <2>1, <3>1 DEF DealFull, LegShown
  <2>2. CASE d # m.deal
    <3>1. deal'[d] = deal[d] /\ DealFull(d) /\ (d \in dealStruck' <=> d \in dealStruck)
      BY <1>4, <2>2 DEF DealIInv, DealTypeOK
    <3>2. \A e \in leg : e.of = d => e \in leg'
      BY <1>4, <2>2 DEF DealIInv, Kept, LegRightful, m
    <3> QED BY <3>1, <3>2 DEF DealFull, Made, LegShown
  <2> QED BY <2>1, <2>2
<1>11. /\ leg' \subseteq LegRow /\ dealsGiven' \subseteq DealIds /\ dealStruck' \subseteq DealIds
       /\ dealOverlap' \in BOOLEAN /\ \A f \in leg' : (f \in leg /\ r \notin f.takers) \/ f.takers = {}
  BY <1>4, <1>5 DEF DealIInv, DealTypeOK, Kept
<1>12. DealKnows("idle", DealBlank)
  BY DEF DealKnows
<1> QED BY <1>4, <1>9, <1>10, <1>11, <1>12, DealBlankType, DealMove DEF DealPlaces

LEMMA AwardDealFull ==
  ASSUME DealIInv, NEW r \in Requests, AwardDealFee(r)
  PROVE  DealIInv'
<1> DEFINE m == dealMem[r]
           new == Posting(m.deal, DealFee(m.to))
<1>1. dealPc[r] = "award" /\ m \in DealLocal /\ m.deal \in DealIds /\ m.to \in DealParties \cup {None}
  BY DEF AwardDealFee, DealIInv, DealKnows, DealTypeOK, DealLocal
<1>2. new \subseteq LegRow /\ \A e \in new : e.takers = {}
  BY <1>1, DealFeesType, PostingIs
<1>3. /\ leg' = Kept(r) \cup new /\ feeDue' = [feeDue EXCEPT ![m.deal] = m.to]
      /\ DealGoto(r, "idle") /\ DealRemember(r, DealBlank)
      /\ UNCHANGED <<deal, dealsGiven, dealStruck, dealOverlap>>
  BY DEF AwardDealFee, DealEnd, dealTraffic
<1> HIDE DEF new
<1>4. ASSUME NEW d \in DealIds PROVE DealFull(d)'
  <2>1. \A e \in leg : e.leg.kind \notin FeeKinds => e \in leg'
    BY <1>1, <1>3 DEF DealIInv, Kept, LegRightful
  <2>2. CASE Made(d)
    <3>1. deal[d].v \in DealForms
      BY <2>2 DEF Made, DealIInv, DealTypeOK, DealRow
    <3>2. DealFull(d)
      BY DEF DealIInv
    <3> QED BY <1>3, <2>1, <3>1, <3>2, DealLegsType DEF DealFull, Made, LegShown
  <2>3. CASE ~Made(d)
    BY <1>3, <2>3 DEF DealFull, Made
  <2> QED BY <2>2, <2>3
<1>5. /\ leg' \subseteq LegRow /\ feeDue' \in [DealIds -> DealParties \cup {None}]
      /\ dealOverlap' \in BOOLEAN /\ \A f \in leg' : (f \in leg /\ r \notin f.takers) \/ f.takers = {}
  BY <1>1, <1>2, <1>3 DEF DealIInv, DealTypeOK, Kept
<1>6. DealKnows("idle", DealBlank)
  BY DEF DealKnows
<1> HIDE DEF m
<1> QED BY <1>3, <1>4, <1>5, <1>6, DealBlankType, DealMove DEF DealPlaces, DealIInv, DealTypeOK

\* Rows that are all still there, taken or given back.
LEMMA StillFull ==
  ASSUME UNCHANGED <<deal, dealStruck>>, \A e \in leg : \E f \in leg' : f.of = e.of /\ f.leg = e.leg,
         NEW d, DealFull(d)
  PROVE  DealFull(d)'
<1> SUFFICES ASSUME Made(d), d \notin dealStruck, NEW l \in DealLegs(deal[d].v) PROVE LegShown(d, l)'
  BY DEF DealFull, Made
<1>1. PICK e \in leg : e.of = d /\ e.leg = l
  BY DEF DealFull, LegShown
<1> QED BY <1>1 DEF LegShown

LEMMA TakeDealFull ==
  ASSUME DealIInv, NEW r \in Requests, ClearLegs(r) \/ ClearDealFees(r)
  PROVE  DealIInv'
<1> DEFINE m == dealMem[r]
<1>1. PICK l \in {"rebuild", "award"}, rows \in SUBSET leg :
        /\ Taking(r, rows) /\ DealGoto(r, l)
        /\ \A e \in rows : e.of = m.deal /\ (l = "award" => e.leg.kind \in FeeKinds)
        /\ l = "rebuild" => dealPc[r] = "clear"
  <2>1. CASE ClearLegs(r)
    BY <2>1 DEF ClearLegs, LegsOf
  <2>2. CASE ClearDealFees(r)
    BY <2>2 DEF ClearDealFees, FeesPosted, LegsOf, FeeKinds
  <2> QED BY <2>1, <2>2
<1>2. /\ dealPc[r] \in {"clear", "clearFees"} /\ m \in DealLocal /\ m.deal \in DealIds
      /\ l = "rebuild" => m.v \in DealForms
  BY <1>1 DEF ClearLegs, ClearDealFees, DealIInv, DealKnows, DealTypeOK
<1>3. UNCHANGED <<deal, feeDue, dealsGiven, dealStruck, dealMem, dealOverlap>>
  BY DEF ClearLegs, ClearDealFees, dealTraffic
<1>4. DealRemember(r, m)
  BY <1>3 DEF DealRemember, DealIInv, DealTypeOK
<1>5. /\ leg' \subseteq LegRow
      /\ \A f \in leg' : f \in leg \/ \E e \in rows :
             f.of = e.of /\ f.leg = e.leg /\ f.takers = e.takers \cup {r}
      /\ \A e \in leg : \E f \in leg' : f.of = e.of /\ f.leg = e.leg
  <2>1. leg \subseteq LegRow
    BY DEF DealIInv, DealTypeOK
  <2> QED BY <1>1, <2>1, TakingIs
<1>6. \A e \in leg : r \notin e.takers
  BY <1>2, TakesNoLeg
<1>7. \A d \in DealIds : DealFull(d)'
  BY <1>3, <1>5, StillFull DEF DealIInv
<1>8. DealKnows(l, m)
  BY <1>1, <1>2 DEF DealKnows
<1> HIDE DEF m
<1>9. \A f \in leg' : \/ f \in leg /\ r \notin f.takers
                      \/ /\ l \in {"rebuild", "award"} /\ f.of = m.deal
                         /\ l = "award" => f.leg.kind \in FeeKinds
                         /\ \E e \in leg : f.of = e.of /\ f.leg = e.leg /\ f.takers = e.takers \cup {r}
  BY <1>1, <1>5, <1>6
<1>10. /\ l \in DealPlaces /\ DealGoto(r, l) /\ dealOverlap' \in BOOLEAN
       /\ deal' \in [DealIds -> {None} \cup DealRow] /\ feeDue' \in [DealIds -> DealParties \cup {None}]
       /\ dealsGiven' \subseteq DealIds /\ dealStruck' \subseteq DealIds
  BY <1>1, <1>3 DEF DealPlaces, DealIInv, DealTypeOK
<1> QED BY <1>2, <1>4, <1>5, <1>7, <1>8, <1>9, <1>10, DealMove

LEMMA RollBackDealFull ==
  ASSUME DealIInv, NEW r \in Requests, RollBackDeal(r)
  PROVE  DealIInv'
<1>1. /\ leg' = {[e EXCEPT !.takers = @ \ {r}] : e \in leg}
      /\ DealGoto(r, "idle") /\ DealRemember(r, DealBlank)
      /\ UNCHANGED <<deal, feeDue, dealsGiven, dealStruck, dealOverlap>>
  BY DEF RollBackDeal, DealEnd, dealTraffic
<1>2. /\ leg' \subseteq LegRow
      /\ \A f \in leg' : \E e \in leg : f.of = e.of /\ f.leg = e.leg /\ f.takers = e.takers \ {r}
      /\ \A e \in leg : \E f \in leg' : f.of = e.of /\ f.leg = e.leg
  <2>1. leg \subseteq LegRow
    BY DEF DealIInv, DealTypeOK
  <2> QED BY <1>1, <2>1, GivenBackIs
<1>3. \A d \in DealIds : DealFull(d)'
  BY <1>1, <1>2, StillFull DEF DealIInv
<1>4. DealKnows("idle", DealBlank)
  BY DEF DealKnows
<1> QED BY <1>1, <1>2, <1>3, <1>4, DealBlankType, DealMove DEF DealPlaces, DealIInv, DealTypeOK

\* Rows go where no request moves.
LEMMA RowsGo ==
  ASSUME DealIInv, UNCHANGED <<dealPc, dealMem, dealsGiven, dealOverlap>>, leg' \subseteq leg,
         deal' \in [DealIds -> {None} \cup DealRow], feeDue' \in [DealIds -> DealParties \cup {None}],
         dealStruck' \subseteq DealIds, \A d \in DealIds : DealFull(d)'
  PROVE  DealIInv'
<1>1. (\A q \in Requests : DealKnows(dealPc[q], dealMem[q])') /\ \A f \in leg' : LegRightful(f)'
  BY DEF DealIInv, DealKnows, LegRightful
<1> QED BY <1>1 DEF DealIInv, DealTypeOK

LEMMA RemoveDealFull ==
  ASSUME DealIInv, NEW r \in Requests, NEW d \in DealIds, RemoveDeal(r, d)
  PROVE  DealIInv'
<1>1. /\ leg' = leg \ LegsOf(d) /\ deal' = [deal EXCEPT ![d] = None]
      /\ feeDue' = [feeDue EXCEPT ![d] = None] /\ dealStruck' = dealStruck \ {d}
      /\ UNCHANGED <<dealPc, dealMem, dealsGiven, dealOverlap>>
  BY DEF RemoveDeal, EnterDeal
<1>2. ASSUME NEW k \in DealIds PROVE DealFull(k)'
  <2>1. CASE k = d
    BY <1>1, <2>1 DEF DealFull, Made, DealIInv, DealTypeOK
  <2>2. CASE k # d
    <3>1. deal'[k] = deal[k] /\ DealFull(k) /\ (k \in dealStruck' <=> k \in dealStruck)
      BY <1>1, <2>2 DEF DealIInv, DealTypeOK
    <3> QED BY <1>1, <2>2, <3>1 DEF DealFull, Made, LegShown, LegsOf
  <2> QED BY <2>1, <2>2
<1> QED BY <1>1, <1>2, RowsGo DEF DealIInv, DealTypeOK

LEMMA StrikeLegFull ==
  ASSUME DealIInv, NEW e \in leg, StrikeLeg(e)
  PROVE  DealIInv'
<1>1. /\ leg' = leg \ {e} /\ dealStruck' = {e.of} /\ dealStruck = {} /\ e.of \in DealIds
      /\ UNCHANGED <<deal, dealPc, dealMem, dealsGiven, dealOverlap>>
  BY DEF StrikeLeg, dealTraffic, DealIInv, DealTypeOK, LegRow
<1>2. feeDue' \in [DealIds -> DealParties \cup {None}]
  BY <1>1 DEF StrikeLeg, DealIInv, DealTypeOK
<1>3. ASSUME NEW k \in DealIds PROVE DealFull(k)'
  <2>1. DealFull(k)
    BY DEF DealIInv
  <2> QED BY <1>1, <2>1 DEF DealFull, Made, LegShown
<1> QED BY <1>1, <1>2, <1>3, RowsGo DEF DealIInv, DealTypeOK

-----------------------------------------------------------------------------
(* Requests that begin, and those that only read.                          *)

LEMMA EnterDealIs ==
  ASSUME DealIInv, NEW r \in Requests, EnterDeal(r)
  PROVE  dealPc[r] = "idle" /\ dealOverlap' \in BOOLEAN /\ dealOverlap' = dealOverlap
  BY DEF DealIInv, EnterDeal

LEMMA BeginDealFull ==
  ASSUME DealIInv, NEW r \in Requests, BeginDeal(r)
  PROVE  DealIInv'
<1>1. ASSUME NEW v \in DealForms, NEW no \in {0, 1}, BeginCreateDeal(r, v, no)
      PROVE  DealIInv'
  <2>1. PICK d \in DealIds \ dealsGiven :
          /\ dealsGiven' = dealsGiven \cup {d}
          /\ DealRemember(r, [DealBlank EXCEPT !.deal = d, !.v = v, !.no = no, !.auto = (no = 0)])
    BY <1>1 DEF BeginCreateDeal
  <2> DEFINE m == [DealBlank EXCEPT !.deal = d, !.v = v, !.no = no, !.auto = (no = 0)]
  <2>2. PICK auto \in BOOLEAN : auto = (no = 0)
    OBVIOUS
  <2>3. [DealBlank EXCEPT !.deal = d, !.v = v, !.no = no, !.auto = auto] \in DealLocal
    <3>1. no \in Nat /\ d \in DealIds
      OBVIOUS
    <3> QED BY <3>1 DEF DealBlank, DealLocal
  <2>4. m \in DealLocal /\ m.deal = d /\ m.v = v
    BY <2>2, <2>3 DEF DealBlank
  <2> HIDE DEF m
  <2>5. PICK l \in {"number", "insert"} : DealGoto(r, l)
    BY <1>1 DEF BeginCreateDeal
  <2>6. DealRemember(r, m) /\ DealKnows(l, m) /\ dealsGiven' \subseteq DealIds /\ l \in DealPlaces
    BY <2>1, <2>4, <2>5 DEF m, DealKnows, DealIInv, DealTypeOK, DealPlaces
  <2>7. EnterDeal(r) /\ UNCHANGED <<deal, leg, feeDue, dealStruck>>
    BY <1>1 DEF BeginCreateDeal
  <2> QED BY <2>4, <2>5, <2>6, <2>7, EnterDealIs, DealQuietMove
<1>2. ASSUME NEW d \in DealIds, NEW v \in DealForms, BeginUpdateDeal(r, d, v) PROVE DealIInv'
  <2> DEFINE m == [DealBlank EXCEPT !.deal = d, !.v = v, !.no = deal[d].no]
  <2>1. deal[d] \in DealRow
    BY <1>2 DEF BeginUpdateDeal, Made, DealIInv, DealTypeOK
  <2>2. m \in DealLocal /\ m.deal = d /\ m.v = v
    BY <2>1 DEF DealBlank, DealLocal, DealRow
  <2>3. DealGoto(r, "fee") /\ DealRemember(r, m) /\ EnterDeal(r) /\ UNCHANGED dealData
    BY <1>2 DEF BeginUpdateDeal
  <2> HIDE DEF m
  <2>4. DealKnows("fee", m) /\ UNCHANGED <<deal, leg, feeDue, dealStruck>> /\ dealsGiven' \subseteq DealIds
    BY <2>2, <2>3 DEF DealKnows, dealData, DealIInv, DealTypeOK
  <2> QED BY <2>2, <2>3, <2>4, EnterDealIs, DealQuietMove DEF DealPlaces
<1>3. ASSUME NEW d \in DealIds, NEW p \in DealParties \cup {None}, BeginDealFee(r, d, p) PROVE DealIInv'
  <2> DEFINE m == [DealBlank EXCEPT !.deal = d, !.to = p]
  <2>2. m \in DealLocal /\ m.deal = d
    BY DEF DealBlank, DealLocal
  <2>3. DealGoto(r, "clearFees") /\ DealRemember(r, m) /\ EnterDeal(r) /\ UNCHANGED dealData
    BY <1>3 DEF BeginDealFee
  <2> HIDE DEF m
  <2>4. DealKnows("clearFees", m) /\ UNCHANGED <<deal, leg, feeDue, dealStruck>> /\ dealsGiven' \subseteq DealIds
    BY <2>2, <2>3 DEF DealKnows, dealData, DealIInv, DealTypeOK
  <2> QED BY <2>2, <2>3, <2>4, EnterDealIs, DealQuietMove DEF DealPlaces
<1> QED BY <1>1, <1>2, <1>3, RemoveDealFull DEF BeginDeal

LEMMA ReadingFull ==
  ASSUME DealIInv, NEW r \in Requests, NextDealNo(r) \/ RetryDeal(r) \/ ReadFee(r)
  PROVE  DealIInv'
<1> DEFINE m == dealMem[r]
<1>1. /\ dealPc[r] \in {"number", "insert", "fee"} /\ m \in DealLocal /\ m.deal \in DealIds
      /\ m.v \in DealForms
  BY DEF NextDealNo, RetryDeal, ReadFee, DealIInv, DealKnows, DealTypeOK
<1>2. /\ UNCHANGED <<deal, leg, feeDue, dealStruck>> /\ dealsGiven' \subseteq DealIds
      /\ dealOverlap' \in BOOLEAN
  BY DEF NextDealNo, RetryDeal, ReadFee, dealData, dealTraffic, DealIInv, DealTypeOK
<1>3. ASSUME NEW k \in DealLocal, k.deal = m.deal, k.v = m.v, NEW l \in DealPlaces \ {"idle"},
             DealGoto(r, l), DealRemember(r, k)
      PROVE  DealIInv'
  <2>1. DealKnows(l, k)
    BY <1>1, <1>3 DEF DealKnows
  <2> HIDE DEF m
  <2> QED BY <1>1, <1>2, <1>3, <2>1, DealQuietMove
<1>4. CASE NextDealNo(r)
  <2>1. PICK max \in {0} \cup DealNumbers(m.v.client) : DealRemember(r, [m EXCEPT !.no = max + 1])
    BY <1>4 DEF NextDealNo
  <2>2. max \in Nat
    BY <2>1 DEF DealNumbers, Made, DealIInv, DealTypeOK, DealRow
  <2> DEFINE k == [m EXCEPT !.no = max + 1]
  <2>3. k \in DealLocal /\ k.deal = m.deal /\ k.v = m.v
    BY <1>1, <2>2 DEF DealLocal
  <2>4. DealGoto(r, "insert") /\ DealRemember(r, k)
    BY <1>4, <2>1 DEF NextDealNo
  <2> HIDE DEF k, m
  <2> QED BY <1>3, <2>3, <2>4 DEF DealPlaces
<1>5. CASE RetryDeal(r)
  <2> DEFINE k == [m EXCEPT !.tries = @ + 1]
  <2>1. k \in DealLocal /\ k.deal = m.deal /\ k.v = m.v
    BY <1>1 DEF DealLocal
  <2>2. (DealGoto(r, "number") /\ DealRemember(r, k)) \/ (DealGoto(r, "idle") /\ DealRemember(r, DealBlank))
    BY <1>5 DEF RetryDeal, DealEnd
  <2>3. DealKnows("idle", DealBlank)
    BY DEF DealKnows
  <2> HIDE DEF k, m
  <2> QED BY <1>1, <1>2, <1>3, <2>1, <2>2, <2>3, DealBlankType, DealQuietMove DEF DealPlaces
<1>6. CASE ReadFee(r)
  <2>1. PICK p : /\ DealRemember(r, [m EXCEPT !.to = p])
                 /\ p = None \/ \E e \in leg : p = e.leg.party
    BY <1>6 DEF ReadFee, LegsOf
  <2>2. p \in DealParties \cup {None}
    BY <2>1 DEF DealIInv, DealTypeOK, LegRow, LegType
  <2> DEFINE k == [m EXCEPT !.to = p]
  <2>3. k \in DealLocal /\ k.deal = m.deal /\ k.v = m.v
    BY <1>1, <2>2 DEF DealLocal
  <2>4. DealGoto(r, "clear") /\ DealRemember(r, k)
    BY <1>6, <2>1 DEF ReadFee
  <2> HIDE DEF k, m
  <2> QED BY <1>3, <2>3, <2>4 DEF DealPlaces
<1> QED BY <1>4, <1>5, <1>6

LEMMA DealInitFull == DealInit => DealIInv
<1> SUFFICES ASSUME DealInit PROVE DealIInv
  OBVIOUS
<1>1. DealTypeOK /\ dealPc \in [Requests -> DealPlaces] /\ dealOverlap \in BOOLEAN
  BY DealBlankType DEF DealInit, DealTypeOK, DealPlaces
<1> QED BY <1>1 DEF DealInit, DealIInv, DealKnows, DealFull, Made

LEMMA DealNextFull == DealIInv /\ [DealNext]_dealVars => DealIInv'
<1> SUFFICES ASSUME DealIInv, [DealNext]_dealVars PROVE DealIInv'
  OBVIOUS
<1>1. CASE UNCHANGED dealVars
  BY <1>1 DEF dealVars, dealData, dealTraffic, DealIInv, DealTypeOK, DealKnows, LegRightful, DealFull,
              Made, LegShown
<1> QED BY <1>1, BeginDealFull, ReadingFull, InsertDealFull, RebuildDealFull, AwardDealFull,
           TakeDealFull,
           RollBackDealFull, StrikeLegFull DEF DealNext, StepDeal

\* The columns of deals, their rows, and what each request has read, have their types,
\* whatever requests overlap or are rolled back (deals.repository.ts:50-211).
THEOREM DealTypeCorrect == DealSpec => []DealTypeOK
<1>1. DealIInv => DealTypeOK
  BY DEF DealIInv
<1> QED BY <1>1, DealInitFull, DealNextFull, PTL DEF DealSpec

-----------------------------------------------------------------------------
(* Of requests one at a time a deal has no other rows, and the commission   *)
(* that was decided last.  A request that has taken rows has taken all that *)
(* it is to replace.                                                        *)

FeeExact(d) ==
    \A l \in LegType : l.kind = "dealFee" => (LegShown(d, l) <=> l \in DealFee(feeDue[d]))
RowsExact(d) ==
    Made(d) /\ d \notin dealStruck =>
        \A l \in LegType : l.kind \notin FeeKinds => (LegShown(d, l) <=> l \in DealLegs(deal[d].v))

\* What the one request that is under way may rely on.
DealHolds(r, l, m) ==
    /\ l \in {"number", "insert"} => ~Made(m.deal) /\ m.deal \in dealsGiven
    /\ l \in {"clear", "rebuild"} => m.to = feeDue[m.deal]
    /\ l = "rebuild" => \A e \in leg : e.of = m.deal => r \in e.takers
    /\ l = "award" => \A e \in leg : e.of = m.deal /\ e.leg.kind \in FeeKinds => r \in e.takers

DealsSerial ==
    /\ \A r, s \in Requests : r # s => dealPc[r] = "idle" \/ dealPc[s] = "idle"
    /\ \A d \in DealIds : Made(d) => d \in dealsGiven
    /\ \A d \in DealIds : ~Made(d) => feeDue[d] = None /\ \A e \in leg : e.of # d
    /\ \A d \in DealIds : FeeExact(d) /\ RowsExact(d)
    /\ \A r \in Requests : DealHolds(r, dealPc[r], dealMem[r])

DealIIInv == DealIInv /\ (~dealOverlap => DealsSerial)

LEMMA DealLegsApart ==
  ASSUME NEW v \in DealForms, NEW p \in DealParties \cup {None}, NEW q \in DealParties \cup {None}
  PROVE  \A l \in LegType :
           /\ l.kind = "dealFee" => (l \in DealLegs(v) \cup DealFee(p) \cup ItemFee(q) <=> l \in DealFee(p))
           /\ l.kind \notin FeeKinds => (l \in DealLegs(v) \cup DealFee(p) \cup ItemFee(q) <=> l \in DealLegs(v))
<1>1. \A l \in DealLegs(v) : l.kind \notin FeeKinds
  BY DealLegsType
<1>2. (\A l \in DealFee(p) : l.kind = "dealFee") /\ \A l \in ItemFee(q) : l.kind = "itemFee"
  BY DealFeesType
<1> QED BY <1>1, <1>2 DEF FeeKinds

\* Request r, the only one that may be under way, moves to l with m.
LEMMA SerialMove ==
  ASSUME DealIInv, DealsSerial, NEW r \in Requests, NEW l \in DealPlaces, NEW m \in DealLocal,
         DealGoto(r, l), DealRemember(r, m), DealsIdle \/ dealPc[r] # "idle",
         \A d \in DealIds : Made(d)' => d \in dealsGiven',
         \A d \in DealIds : ~Made(d)' => feeDue'[d] = None /\ \A e \in leg' : e.of # d,
         \A d \in DealIds : FeeExact(d)' /\ RowsExact(d)',
         DealHolds(r, l, m)'
  PROVE  DealsSerial'
<1>1. /\ dealPc'[r] = l /\ dealMem'[r] = m
      /\ \A q \in Requests \ {r} : dealPc'[q] = dealPc[q] /\ dealMem'[q] = dealMem[q]
  BY DealMoved
<1>2. \A q \in Requests \ {r} : dealPc'[q] = "idle"
  BY <1>1 DEF DealsSerial, DealsIdle
<1>3. ASSUME NEW q \in Requests PROVE DealHolds(q, dealPc[q], dealMem[q])'
  <2>1. CASE q = r
    BY <1>1, <2>1
  <2>2. CASE q # r
    BY <1>2, <2>2 DEF DealHolds
  <2> QED BY <2>1, <2>2
<1> QED BY <1>1, <1>2, <1>3 DEF DealsSerial

\* The rows of all deals but one are shown as they were.
LEMMA OthersExact ==
  ASSUME NEW d, FeeExact(d), RowsExact(d), deal'[d] = deal[d], feeDue'[d] = feeDue[d],
         d \in dealStruck' <=> d \in dealStruck, \A l \in LegType : LegShown(d, l)' <=> LegShown(d, l)
  PROVE  FeeExact(d)' /\ RowsExact(d)'
  BY DEF FeeExact, RowsExact, Made

\* The request moves and no row is hidden or new.
LEMMA SerialQuiet ==
  ASSUME DealIInv, DealsSerial, NEW r \in Requests, NEW l \in DealPlaces, NEW m \in DealLocal,
         DealGoto(r, l), DealRemember(r, m), DealsIdle \/ dealPc[r] # "idle",
         UNCHANGED <<deal, feeDue, dealStruck>>, dealsGiven \subseteq dealsGiven',
         \A f \in leg' : \E e \in leg : f.of = e.of /\ f.leg = e.leg,
         \A e \in leg : \E f \in leg' : f.of = e.of /\ f.leg = e.leg,
         DealHolds(r, l, m)'
  PROVE  DealsSerial'
<1>1. \A d \in DealIds : Made(d)' <=> Made(d)
  BY DEF Made
<1>2. \A d \in DealIds : ~Made(d)' => feeDue'[d] = None /\ \A e \in leg' : e.of # d
  BY <1>1 DEF DealsSerial
<1>3. \A d \in DealIds : \A k \in LegType : LegShown(d, k)' <=> LegShown(d, k)
  BY DEF LegShown
<1>4. \A d \in DealIds : FeeExact(d)' /\ RowsExact(d)'
  BY <1>3, OthersExact DEF DealsSerial
<1>5. \A d \in DealIds : Made(d)' => d \in dealsGiven'
  BY <1>1 DEF DealsSerial
<1> QED BY <1>2, <1>4, <1>5, SerialMove

\* The new rows of a deal are those of its form, with the commission p.
LEMMA NewExact ==
  ASSUME NEW d \in DealIds, NEW v \in DealForms, NEW p \in DealParties \cup {None},
         deal'[d].v = v, feeDue'[d] = p,
         \A l : LegShown(d, l)' <=> l \in DealLegs(v) \cup DealFee(p) \cup ItemFee(v.owner)
  PROVE  FeeExact(d)' /\ RowsExact(d)'
<1>1. \A l \in LegType :
        /\ l.kind = "dealFee" => (LegShown(d, l)' <=> l \in DealFee(p))
        /\ l.kind \notin FeeKinds => (LegShown(d, l)' <=> l \in DealLegs(v))
  BY FormFeeType, DealLegsApart
<1> QED BY <1>1 DEF FeeExact, RowsExact

LEMMA SerialInsert ==
  ASSUME DealIInv, DealsSerial, NEW r \in Requests, InsertDeal(r)
  PROVE  DealsSerial'
<1>0. PICK m : m = dealMem[r]
  OBVIOUS
<1> DEFINE legs == DealLegs(m.v) \cup DealFee(FormFee(m.v)) \cup ItemFee(m.v.owner)
<1>1. dealPc[r] = "insert" /\ m \in DealLocal /\ m.deal \in DealIds /\ m.v \in DealForms
  BY <1>0 DEF InsertDeal, DealIInv, DealKnows, DealTypeOK
<1>2. legs \subseteq LegType
  BY <1>1, DealLegsType, DealFeesType, FormFeeType
<1>3. /\ leg' = leg \cup Posting(m.deal, legs)
      /\ deal' = [deal EXCEPT ![m.deal] = [no |-> m.no, v |-> m.v]]
      /\ feeDue' = [feeDue EXCEPT ![m.deal] = FormFee(m.v)]
      /\ DealGoto(r, "idle") /\ DealRemember(r, DealBlank) /\ UNCHANGED <<dealsGiven, dealStruck>>
  BY <1>0 DEF InsertDeal, DealEnd
<1>4. /\ \A e \in Posting(m.deal, legs) : e.of = m.deal /\ e.leg \in legs
      /\ \A l \in legs : \E e \in Posting(m.deal, legs) : e.of = m.deal /\ e.leg = l
  BY <1>1, <1>2, PostingIs
<1>5. ~Made(m.deal) /\ m.deal \in dealsGiven /\ \A e \in leg : e.of # m.deal
  BY <1>0, <1>1 DEF DealsSerial, DealHolds
<1>6. PICK d \in DealIds : d = m.deal
  BY <1>1
<1>7. deal'[d].v = m.v /\ feeDue'[d] = FormFee(m.v) /\ Made(d)'
  <2>1. [no |-> m.no, v |-> m.v] \in DealRow
    BY <1>1 DEF DealRow, DealLocal
  <2> QED BY <1>3, <1>6, <2>1, DealAssumption DEF DealIInv, DealTypeOK, Made
<1> HIDE DEF legs
<1>8. \A l : LegShown(d, l)' <=> l \in legs
  BY <1>3, <1>4, <1>5, <1>6 DEF LegShown
<1>9. FeeExact(d)' /\ RowsExact(d)'
  BY <1>1, <1>7, <1>8, NewExact, FormFeeType DEF legs
<1>10. ASSUME NEW k \in DealIds, k # d
       PROVE  /\ deal'[k] = deal[k] /\ feeDue'[k] = feeDue[k]
              /\ \A l : LegShown(k, l)' <=> LegShown(k, l)
              /\ \A e \in leg' : e.of = k => e \in leg
  BY <1>3, <1>4, <1>6, <1>10 DEF LegShown, DealIInv, DealTypeOK
<1>11. \A k \in DealIds : FeeExact(k)' /\ RowsExact(k)'
  BY <1>3, <1>9, <1>10, OthersExact DEF DealsSerial
<1>12. \A k \in DealIds : Made(k)' => k \in dealsGiven'
  BY <1>3, <1>5, <1>6, <1>10 DEF DealsSerial, Made
<1>13. \A k \in DealIds : ~Made(k)' => feeDue'[k] = None /\ \A e \in leg' : e.of # k
  BY <1>7, <1>10 DEF DealsSerial, Made
<1> QED BY <1>1, <1>3, <1>11, <1>12, <1>13, DealBlankType, SerialMove DEF DealHolds, DealPlaces

LEMMA SerialRebuild ==
  ASSUME DealIInv, DealsSerial, NEW r \in Requests, RebuildDeal(r)
  PROVE  DealsSerial'
<1>0. PICK m : m = dealMem[r]
  OBVIOUS
<1>p. PICK p : p = FeeAfter(m)
  OBVIOUS
<1> DEFINE legs == DealLegs(m.v) \cup DealFee(p) \cup ItemFee(m.v.owner)
<1>1. dealPc[r] = "rebuild" /\ m \in DealLocal /\ m.deal \in DealIds /\ m.v \in DealForms
  BY <1>0 DEF RebuildDeal, DealIInv, DealKnows, DealTypeOK
<1>2. p \in DealParties \cup {None}
  BY <1>p, <1>1, DealAssumption DEF FeeAfter, FormType, DealLocal
<1>3. legs \subseteq LegType
  BY <1>1, <1>2, DealLegsType, DealFeesType, FormFeeType
<1>4. /\ leg' = Kept(r) \cup Posting(m.deal, legs)
      /\ deal' = [deal EXCEPT ![m.deal].v = m.v] /\ Made(m.deal)
      /\ feeDue' = [feeDue EXCEPT ![m.deal] = IF m.v.fee THEN m.v.feeTo ELSE @]
      /\ dealStruck' = dealStruck \ {m.deal}
      /\ DealGoto(r, "idle") /\ DealRemember(r, DealBlank) /\ UNCHANGED dealsGiven
  BY <1>0, <1>p DEF RebuildDeal, DealEnd
<1>5. /\ \A e \in Posting(m.deal, legs) : e.of = m.deal /\ e.leg \in legs
      /\ \A l \in legs : \E e \in Posting(m.deal, legs) : e.of = m.deal /\ e.leg = l
  BY <1>1, <1>3, PostingIs
<1>6. m.to = feeDue[m.deal] /\ \A e \in leg : e.of = m.deal => r \in e.takers
  BY <1>0, <1>1 DEF DealsSerial, DealHolds
<1>7. PICK d \in DealIds : d = m.deal
  BY <1>1
<1>8. deal'[d].v = m.v /\ feeDue'[d] = p /\ Made(d)'
  <2>1. deal[d] \in DealRow
    BY <1>4, <1>7 DEF Made, DealIInv, DealTypeOK
  <2>2. [deal[d] EXCEPT !.v = m.v] \in DealRow /\ [deal[d] EXCEPT !.v = m.v].v = m.v
    BY <1>1, <2>1 DEF DealRow
  <2>3. deal'[d] = [deal[d] EXCEPT !.v = m.v]
    BY <1>4, <1>7 DEF DealIInv, DealTypeOK
  <2>4. feeDue'[d] = p
    BY <1>p, <1>4, <1>6, <1>7 DEF FeeAfter, DealIInv, DealTypeOK
  <2> QED BY <2>2, <2>3, <2>4, DealAssumption DEF Made
<1> HIDE DEF legs
<1>9. \A l : LegShown(d, l)' <=> l \in legs
  BY <1>4, <1>5, <1>6, <1>7 DEF LegShown, Kept
<1>10. FeeExact(d)' /\ RowsExact(d)'
  BY <1>1, <1>2, <1>8, <1>9, NewExact DEF legs
<1>11. ASSUME NEW k \in DealIds, k # d
       PROVE  /\ deal'[k] = deal[k] /\ feeDue'[k] = feeDue[k] /\ (k \in dealStruck' <=> k \in dealStruck)
              /\ \A l : LegShown(k, l)' <=> LegShown(k, l)
              /\ \A e \in leg' : e.of = k => e \in leg
  <2>1. \A e \in leg : e.of = k => e \in Kept(r)
    BY <1>0, <1>7, <1>11 DEF Kept, DealIInv, LegRightful
  <2> QED BY <1>4, <1>5, <1>7, <1>11, <2>1 DEF LegShown, Kept, DealIInv, DealTypeOK
<1>12. \A k \in DealIds : FeeExact(k)' /\ RowsExact(k)'
  BY <1>10, <1>11, OthersExact DEF DealsSerial
<1>13. \A k \in DealIds : Made(k)' => k \in dealsGiven'
  BY <1>4, <1>7, <1>11 DEF DealsSerial, Made
<1>14. \A k \in DealIds : ~Made(k)' => feeDue'[k] = None /\ \A e \in leg' : e.of # k
  BY <1>8, <1>11 DEF DealsSerial, Made
<1> QED BY <1>1, <1>4, <1>12, <1>13, <1>14, DealBlankType, SerialMove DEF DealHolds, DealPlaces

LEMMA SerialAward ==
  ASSUME DealIInv, DealsSerial, NEW r \in Requests, AwardDealFee(r)
  PROVE  DealsSerial'
<1>0. PICK m : m = dealMem[r]
  OBVIOUS
<1> DEFINE new == Posting(m.deal, DealFee(m.to))
<1>1. dealPc[r] = "award" /\ m \in DealLocal /\ m.deal \in DealIds /\ m.to \in DealParties \cup {None}
  BY <1>0 DEF AwardDealFee, DealIInv, DealKnows, DealTypeOK, DealLocal
<1>2. /\ \A e \in new : e.of = m.deal /\ e.leg \in DealFee(m.to) /\ e.leg.kind = "dealFee"
      /\ \A l \in DealFee(m.to) : \E e \in new : e.of = m.deal /\ e.leg = l
  BY <1>1, DealFeesType, PostingIs
<1>3. /\ leg' = Kept(r) \cup new /\ feeDue' = [feeDue EXCEPT ![m.deal] = m.to] /\ Made(m.deal)
      /\ DealGoto(r, "idle") /\ DealRemember(r, DealBlank) /\ UNCHANGED <<deal, dealsGiven, dealStruck>>
  BY <1>0 DEF AwardDealFee, DealEnd
<1>4. PICK d \in DealIds : d = m.deal
  BY <1>1
<1> HIDE DEF new
<1>5. \A e \in leg : e.of = d /\ e.leg.kind \in FeeKinds => r \in e.takers
  BY <1>0, <1>1, <1>4 DEF DealsSerial, DealHolds
<1>6. \A e \in leg : r \in e.takers => e.of = d /\ e.leg.kind \in FeeKinds
  BY <1>0, <1>1, <1>4 DEF DealIInv, LegRightful
<1>7. feeDue'[d] = m.to
  BY <1>3, <1>4 DEF DealIInv, DealTypeOK
<1>8. FeeExact(d)'
  <2>1. ASSUME NEW l \in LegType, l.kind = "dealFee"
        PROVE  LegShown(d, l)' <=> l \in DealFee(m.to)
    <3>1. \A e \in leg' : e.of = d /\ e.leg = l => e \in new
      BY <1>3, <1>5, <2>1 DEF Kept, FeeKinds
    <3> QED BY <1>2, <1>3, <1>4, <3>1 DEF LegShown
  <2> QED BY <1>7, <2>1 DEF FeeExact
<1>9. \A k \in DealIds, l \in LegType : k # d \/ l.kind \notin FeeKinds => (LegShown(k, l)' <=> LegShown(k, l))
  <2> SUFFICES ASSUME NEW k \in DealIds, NEW l \in LegType, k # d \/ l.kind \notin FeeKinds
               PROVE  LegShown(k, l)' <=> LegShown(k, l)
    OBVIOUS
  <2>1. \A e \in new : ~(e.of = k /\ e.leg = l)
    BY <1>2, <1>4 DEF FeeKinds
  <2>2. \A e \in leg : e.of = k /\ e.leg = l => e \in Kept(r)
    BY <1>6 DEF Kept
  <2> QED BY <1>3, <2>1, <2>2 DEF LegShown, Kept
<1>10. RowsExact(d)'
  BY <1>3, <1>9 DEF DealsSerial, RowsExact, Made
<1>11. ASSUME NEW k \in DealIds, k # d
       PROVE  feeDue'[k] = feeDue[k] /\ FeeExact(k)' /\ RowsExact(k)' /\ \A e \in leg' : e.of = k => e \in leg
  <2>1. feeDue'[k] = feeDue[k]
    BY <1>3, <1>4, <1>11 DEF DealIInv, DealTypeOK
  <2>2. FeeExact(k)' /\ RowsExact(k)'
    BY <1>3, <1>9, <1>11, <2>1, OthersExact DEF DealsSerial
  <2> QED BY <1>2, <1>3, <1>4, <1>11, <2>1, <2>2 DEF Kept
<1>12. \A k \in DealIds : FeeExact(k)' /\ RowsExact(k)'
  BY <1>8, <1>10, <1>11
<1>13. \A k \in DealIds : Made(k)' => k \in dealsGiven'
  BY <1>3 DEF DealsSerial, Made
<1>14. \A k \in DealIds : ~Made(k)' => feeDue'[k] = None /\ \A e \in leg' : e.of # k
  BY <1>3, <1>4, <1>11 DEF DealsSerial, Made
<1> QED BY <1>1, <1>3, <1>12, <1>13, <1>14, DealBlankType, SerialMove DEF DealHolds, DealPlaces

LEMMA SerialTake ==
  ASSUME DealIInv, DealsSerial, NEW r \in Requests, ClearLegs(r) \/ ClearDealFees(r)
  PROVE  DealsSerial'
<1>0. PICK m : m = dealMem[r]
  OBVIOUS
<1>1. PICK l \in {"rebuild", "award"}, rows \in SUBSET leg :
        /\ Taking(r, rows) /\ DealGoto(r, l)
        /\ l = "rebuild" => dealPc[r] = "clear"
        /\ l = "rebuild" => rows = LegsOf(m.deal)
        /\ l = "award" => rows = FeesPosted(m.deal)
  BY <1>0 DEF ClearLegs, ClearDealFees, LegsOf, FeesPosted
<1>2. dealPc[r] \in {"clear", "clearFees"} /\ m \in DealLocal
  BY <1>0 DEF ClearLegs, ClearDealFees, DealIInv, DealTypeOK
<1>3. UNCHANGED <<deal, feeDue, dealsGiven, dealStruck, dealMem>>
  BY DEF ClearLegs, ClearDealFees
<1>4. DealRemember(r, m)
  BY <1>0, <1>3 DEF DealRemember, DealIInv, DealTypeOK
<1>5. /\ \A f \in leg' : f \in leg \/ \E e \in rows :
             f.of = e.of /\ f.leg = e.leg /\ f.takers = e.takers \cup {r}
      /\ \A e \in leg : \E f \in leg' : f.of = e.of /\ f.leg = e.leg
      /\ \A f \in leg' : r \in f.takers \/ f \in leg \ rows
  <2>1. leg \subseteq LegRow
    BY DEF DealIInv, DealTypeOK
  <2> QED BY <1>1, <2>1, TakingIs
<1>6. DealHolds(r, l, m)'
  <2>1. l = "rebuild" => m.to = feeDue'[m.deal]
    BY <1>0, <1>1, <1>3 DEF DealsSerial, DealHolds
  <2>2. l = "rebuild" => \A e \in leg' : e.of = m.deal => r \in e.takers
    BY <1>1, <1>5 DEF LegsOf
  <2>3. l = "award" => \A e \in leg' : e.of = m.deal /\ e.leg.kind \in FeeKinds => r \in e.takers
    BY <1>1, <1>5 DEF LegsOf, FeesPosted, FeeKinds
  <2> QED BY <1>1, <2>1, <2>2, <2>3 DEF DealHolds
<1>7. l \in DealPlaces /\ DealGoto(r, l) /\ dealsGiven \subseteq dealsGiven'
      /\ \A f \in leg' : \E e \in leg : f.of = e.of /\ f.leg = e.leg
  BY <1>1, <1>3, <1>5 DEF DealPlaces
<1> QED BY <1>2, <1>3, <1>4, <1>5, <1>6, <1>7, SerialQuiet

LEMMA SerialRollBack ==
  ASSUME DealIInv, DealsSerial, NEW r \in Requests, RollBackDeal(r)
  PROVE  DealsSerial'
<1>1. /\ leg' = {[e EXCEPT !.takers = @ \ {r}] : e \in leg} /\ dealPc[r] # "idle"
      /\ DealGoto(r, "idle") /\ DealRemember(r, DealBlank)
      /\ UNCHANGED <<deal, feeDue, dealsGiven, dealStruck>>
  BY DEF RollBackDeal, DealEnd
<1>2. /\ \A f \in leg' : \E e \in leg : f.of = e.of /\ f.leg = e.leg
      /\ \A e \in leg : \E f \in leg' : f.of = e.of /\ f.leg = e.leg
  <2>1. leg \subseteq LegRow
    BY DEF DealIInv, DealTypeOK
  <2> QED BY <1>1, <2>1, GivenBackIs
<1> QED BY <1>1, <1>2, DealBlankType, SerialQuiet DEF DealHolds, DealPlaces

\* Rows go, of one deal only, and no request is under way.
LEMMA SerialRowsGo ==
  ASSUME DealIInv, DealsSerial, DealsIdle, UNCHANGED <<dealPc, dealMem, dealsGiven>>, NEW d \in DealIds,
         leg' \subseteq leg, \A e \in leg : e.of # d => e \in leg',
         \A k \in DealIds : k # d => deal'[k] = deal[k] /\ feeDue'[k] = feeDue[k] /\ (k \in dealStruck' <=> k \in dealStruck),
         Made(d)' => Made(d), ~Made(d)' => feeDue'[d] = None /\ \A e \in leg' : e.of # d,
         FeeExact(d)', RowsExact(d)'
  PROVE  DealsSerial'
<1>1. \A k \in DealIds : k # d => FeeExact(k)' /\ RowsExact(k)'
  <2>1. \A k \in DealIds, l \in LegType : k # d => (LegShown(k, l)' <=> LegShown(k, l))
    BY DEF LegShown
  <2> QED BY <2>1, OthersExact DEF DealsSerial
<1>2. \A k \in DealIds : Made(k)' => k \in dealsGiven'
  BY DEF DealsSerial, Made
<1>3. \A k \in DealIds : ~Made(k)' => feeDue'[k] = None /\ \A e \in leg' : e.of # k
  BY DEF DealsSerial, Made
<1>4. \A r \in Requests : DealHolds(r, dealPc[r], dealMem[r])'
  BY DEF DealHolds, DealsIdle
<1> QED BY <1>1, <1>2, <1>3, <1>4 DEF DealsSerial

LEMMA SerialRemove ==
  ASSUME DealIInv, DealsSerial, ~dealOverlap, NEW r \in Requests, NEW d \in DealIds, RemoveDeal(r, d)
  PROVE  DealsSerial'
<1>1. /\ leg' = leg \ LegsOf(d) /\ deal' = [deal EXCEPT ![d] = None]
      /\ feeDue' = [feeDue EXCEPT ![d] = None] /\ dealStruck' = dealStruck \ {d}
      /\ UNCHANGED <<dealPc, dealMem, dealsGiven>> /\ DealsIdle
  BY DEF RemoveDeal, EnterDeal
<1>2. ~Made(d)' /\ feeDue'[d] = None /\ \A e \in leg' : e.of # d
  BY <1>1 DEF DealIInv, DealTypeOK, Made, LegsOf
<1>3. FeeExact(d)' /\ RowsExact(d)'
  BY <1>2 DEF FeeExact, RowsExact, LegShown, DealFee
<1>4. \A k \in DealIds : k # d => deal'[k] = deal[k] /\ feeDue'[k] = feeDue[k] /\ (k \in dealStruck' <=> k \in dealStruck)
  BY <1>1 DEF DealIInv, DealTypeOK
<1>5. leg' \subseteq leg /\ \A e \in leg : e.of # d => e \in leg'
  BY <1>1 DEF LegsOf
<1> QED BY <1>1, <1>2, <1>3, <1>4, <1>5, SerialRowsGo

LEMMA SerialStrike ==
  ASSUME DealIInv, DealsSerial, ~dealOverlap, NEW e \in leg, StrikeLeg(e)
  PROVE  DealsSerial'
<1>1. /\ leg' = leg \ {e} /\ dealStruck' = {e.of} /\ dealStruck = {} /\ e.of \in DealIds
      /\ UNCHANGED <<deal, dealPc, dealMem, dealsGiven>> /\ DealsIdle
      /\ feeDue' = IF e.leg.kind = "dealFee" THEN [feeDue EXCEPT ![e.of] = None] ELSE feeDue
  BY DEF StrikeLeg, DealIInv, DealTypeOK, LegRow
<1>2. PICK d \in DealIds : d = e.of
  BY <1>1
<1>3. Made(d) /\ FeeExact(d) /\ e \in LegRow /\ e.leg \in LegType
  BY <1>2 DEF DealsSerial, DealIInv, DealTypeOK, LegRow
<1>4. \A f \in leg : f \in LegRow /\ f.takers = {}
  <2>1. \A f \in leg : f \in LegRow /\ LegRightful(f)
    BY DEF DealIInv, DealTypeOK
  <2> QED BY <1>1, <2>1 DEF LegRightful, DealsIdle, LegRow
<1>5. FeeExact(d)'
  <2>1. CASE e.leg.kind = "dealFee"
    <3>1. feeDue'[d] = None
      BY <1>1, <1>2, <2>1 DEF DealIInv, DealTypeOK
    <3>2. LegShown(d, e.leg)
      BY <1>2 DEF LegShown
    <3>3. e.leg \in DealFee(feeDue[d])
      BY <1>3, <2>1, <3>2 DEF FeeExact
    <3>4. ASSUME NEW f \in leg', f.of = d, f.leg.kind = "dealFee" PROVE FALSE
      <4>1. f \in leg /\ f # e /\ f.leg \in LegType
        BY <1>1, <1>4, <3>4 DEF LegRow
      <4>2. f.leg \in DealFee(feeDue[d])
        BY <1>3, <3>4, <4>1 DEF FeeExact, LegShown
      <4>3. f.leg = e.leg
        BY <3>3, <4>2 DEF DealFee
      <4> QED BY <1>2, <1>4, <3>4, <4>1, <4>3 DEF LegRow
    <3> QED BY <3>1, <3>4 DEF FeeExact, LegShown, DealFee
  <2>2. CASE e.leg.kind # "dealFee"
    <3>1. feeDue'[d] = feeDue[d]
      BY <1>1, <2>2
    <3> QED BY <1>1, <1>3, <2>2, <3>1 DEF FeeExact, LegShown
  <2> QED BY <2>1, <2>2
<1>6. RowsExact(d)' /\ Made(d)'
  BY <1>1, <1>2, <1>3 DEF RowsExact, Made
<1>7. \A k \in DealIds : k # d => deal'[k] = deal[k] /\ feeDue'[k] = feeDue[k] /\ (k \in dealStruck' <=> k \in dealStruck)
  BY <1>1, <1>2 DEF DealIInv, DealTypeOK
<1>8. leg' \subseteq leg /\ \A f \in leg : f.of # d => f \in leg'
  BY <1>1, <1>2
<1> QED BY <1>1, <1>3, <1>5, <1>6, <1>7, <1>8, SerialRowsGo

LEMMA SerialReading ==
  ASSUME DealIInv, DealsSerial, NEW r \in Requests, NextDealNo(r) \/ RetryDeal(r) \/ ReadFee(r), DealIInv'
  PROVE  DealsSerial'
<1>0. PICK l, m : l = dealPc'[r] /\ m = dealMem'[r]
  OBVIOUS
<1>1. DealGoto(r, l) /\ DealRemember(r, m) /\ dealPc[r] # "idle"
  BY <1>0 DEF NextDealNo, RetryDeal, ReadFee, DealEnd, DealGoto, DealRemember, DealIInv, DealTypeOK
<1>2. l \in DealPlaces /\ m \in DealLocal
  BY <1>0 DEF DealIInv, DealTypeOK
<1>3. UNCHANGED <<deal, leg, feeDue, dealsGiven, dealStruck>>
  BY DEF NextDealNo, RetryDeal, ReadFee, dealData
<1>4. DealHolds(r, l, m)'
  <2>0. DealHolds(r, dealPc[r], dealMem[r]) /\ dealMem[r] \in DealLocal
    BY DEF DealsSerial, DealIInv, DealTypeOK
  <2>1. CASE NextDealNo(r) \/ RetryDeal(r)
    <3>1. dealPc[r] \in {"number", "insert"} /\ l \in {"number", "insert", "idle"}
      BY <1>0, <2>1 DEF NextDealNo, RetryDeal, DealEnd, DealGoto, DealIInv
    <3>2. l # "idle" => m.deal = dealMem[r].deal
      BY <1>0, <2>0, <2>1 DEF NextDealNo, RetryDeal, DealEnd, DealGoto, DealRemember, DealIInv,
         DealTypeOK, DealLocal
    <3> QED BY <1>3, <2>0, <3>1, <3>2 DEF DealHolds, Made
  <2>2. CASE ReadFee(r)
    <3> DEFINE d == dealMem[r].deal
               fees == {e \in LegsOf(d) : e.leg.kind = "dealFee"}
    <3>1. PICK p \in IF fees = {} THEN {None} ELSE {e.leg.party : e \in fees} :
             DealRemember(r, [dealMem[r] EXCEPT !.to = p])
      BY <2>2 DEF ReadFee
    <3>2. l = "clear" /\ m.to = p /\ m.deal = d
      BY <1>0, <2>0, <2>2, <3>1 DEF ReadFee, DealGoto, DealRemember, DealIInv, DealTypeOK, DealLocal
    <3>3. d \in DealIds /\ FeeExact(d) /\ feeDue[d] \in DealParties \cup {None}
      BY <2>2 DEF ReadFee, DealIInv, DealKnows, DealsSerial, DealTypeOK
    <3>4. CASE fees = {}
      <4>1. ASSUME feeDue[d] # None PROVE FALSE
        <5>1. Leg("dealFee", feeDue[d], 1) \in LegType /\ Leg("dealFee", feeDue[d], 1).kind = "dealFee"
          BY <3>3 DEF Leg, LegType, LegKinds
        <5>2. LegShown(d, Leg("dealFee", feeDue[d], 1))
          BY <3>3, <4>1, <5>1 DEF FeeExact, DealFee
        <5> QED BY <3>4, <5>1, <5>2 DEF LegShown, LegsOf
      <4> QED BY <1>3, <3>1, <3>2, <3>4, <4>1 DEF DealHolds
    <3>5. CASE fees # {}
      <4>1. PICK e \in leg : e.of = d /\ e.leg.kind = "dealFee" /\ p = e.leg.party
        BY <3>1, <3>5 DEF LegsOf
      <4>2. e.leg \in LegType
        BY DEF DealIInv, DealTypeOK, LegRow
      <4>3. e.leg \in DealFee(feeDue[d])
        BY <3>3, <4>1, <4>2 DEF FeeExact, LegShown
      <4>4. e.leg.party = feeDue[d]
        BY <4>3 DEF DealFee, Leg
      <4> QED BY <1>3, <3>2, <4>1, <4>4 DEF DealHolds
    <3> QED BY <3>4, <3>5
  <2> QED BY <2>1, <2>2
<1> QED BY <1>1, <1>2, <1>3, <1>4, SerialQuiet

LEMMA SerialBegin ==
  ASSUME DealIInv, DealsSerial, ~dealOverlap, NEW r \in Requests, BeginDeal(r), DealIInv'
  PROVE  DealsSerial'
<1>1. ASSUME NEW d \in DealIds, RemoveDeal(r, d) PROVE DealsSerial'
  BY <1>1, SerialRemove
<1>2. ASSUME ~ \E d \in DealIds : RemoveDeal(r, d) PROVE DealsSerial'
  <2>0. PICK l, m : l = dealPc'[r] /\ m = dealMem'[r]
    OBVIOUS
  <2>1. /\ UNCHANGED <<deal, leg, feeDue, dealStruck>> /\ EnterDeal(r)
        /\ dealsGiven \subseteq dealsGiven' /\ DealGoto(r, l) /\ DealRemember(r, m)
    BY <1>2, <2>0 DEF BeginDeal, BeginCreateDeal, BeginUpdateDeal, BeginDealFee, dealData, DealGoto,
                      DealRemember, DealIInv, DealTypeOK
  <2>2. DealsIdle /\ l \in DealPlaces /\ m \in DealLocal
    BY <2>0, <2>1 DEF EnterDeal, DealIInv, DealTypeOK
  <2>3. DealHolds(r, l, m)'
    <3>1. CASE \E v \in DealForms, no \in {0, 1} : BeginCreateDeal(r, v, no)
      <4>1. PICK v \in DealForms, no \in {0, 1} : BeginCreateDeal(r, v, no)
        BY <3>1
      <4>2. PICK d \in DealIds \ dealsGiven :
              /\ dealsGiven' = dealsGiven \cup {d}
              /\ DealRemember(r, [DealBlank EXCEPT !.deal = d, !.v = v, !.no = no, !.auto = (no = 0)])
        BY <4>1 DEF BeginCreateDeal
      <4>3. m.deal = d
        BY <2>0, <4>2 DEF DealRemember, DealBlank, DealIInv, DealTypeOK
      <4>4. l \in {"number", "insert"}
        BY <2>0, <4>1 DEF BeginCreateDeal, DealGoto, DealIInv
      <4>5. ~Made(d)' /\ d \in dealsGiven'
        BY <2>1, <4>2 DEF DealsSerial, Made
      <4> QED BY <4>3, <4>4, <4>5 DEF DealHolds
    <3>2. CASE ~ \E v \in DealForms, no \in {0, 1} : BeginCreateDeal(r, v, no)
      <4>1. l \in {"fee", "clearFees"}
        BY <1>2, <2>0, <3>2 DEF BeginDeal, BeginUpdateDeal, BeginDealFee, DealGoto, DealIInv
      <4> QED BY <4>1 DEF DealHolds
    <3> QED BY <3>1, <3>2
  <2> QED BY <2>1, <2>2, <2>3, SerialQuiet
<1> QED BY <1>1, <1>2

LEMMA DealInitInv == DealInit => DealIIInv
<1> SUFFICES ASSUME DealInit PROVE DealIIInv
  OBVIOUS
<1>1. \A d \in DealIds : ~Made(d) /\ feeDue[d] = None
  BY DEF DealInit, Made
<1>2. \A d \in DealIds : FeeExact(d) /\ RowsExact(d)
  BY <1>1 DEF DealInit, FeeExact, RowsExact, LegShown, DealFee
<1>3. DealsSerial
  BY <1>1, <1>2 DEF DealInit, DealsSerial, DealHolds
<1> QED BY <1>3, DealInitFull DEF DealIIInv

LEMMA DealNextInv == DealIIInv /\ [DealNext]_dealVars => DealIIInv'
<1> SUFFICES ASSUME DealIIInv, [DealNext]_dealVars PROVE DealIIInv'
  OBVIOUS
<1>1. DealIInv /\ DealIInv'
  BY DealNextFull DEF DealIIInv
<1>2. dealOverlap' = dealOverlap
  BY DEF DealNext, BeginDeal, StepDeal, BeginCreateDeal, BeginUpdateDeal, BeginDealFee, RemoveDeal,
     EnterDeal,
         NextDealNo, InsertDeal, RetryDeal, ReadFee, ClearLegs, RebuildDeal, ClearDealFees, AwardDealFee,
         RollBackDeal, StrikeLeg, dealVars, dealTraffic
<1>3. ASSUME ~dealOverlap PROVE DealsSerial'
  <2>1. DealsSerial
    BY <1>3 DEF DealIIInv
  <2>2. CASE UNCHANGED dealVars
    BY <2>1, <2>2 DEF dealVars, dealData, dealTraffic, DealsSerial, Made, FeeExact, RowsExact,
       LegShown, DealHolds
  <2> QED BY <1>1, <1>3, <2>1, <2>2, SerialBegin, SerialReading, SerialInsert, SerialRebuild,
             SerialAward,
             SerialTake, SerialRollBack, SerialStrike DEF DealNext, StepDeal
<1> QED BY <1>1, <1>2, <1>3 DEF DealIIInv

\* A deal has every row of its present form, however updates, commissions, removals and roll
\* backs overlap; of requests one at a time it has no other, and the commission decided last
\* (deals.repository.ts:88-89): DealsPosted for any deals, forms and requests.
THEOREM DealsAlwaysPosted == DealSpec => []DealsPosted
<1>1. DealIIInv => DealsPosted
  <2> SUFFICES ASSUME DealIIInv, NEW d \in DealIds, Made(d), d \notin dealStruck
               PROVE  /\ DealLegs(deal[d].v) \subseteq PostedLegs(d)
                      /\ CalmDeals => {l \in PostedLegs(d) : l.kind # "itemFee"}
                                      = DealLegs(deal[d].v) \cup DealFee(feeDue[d])
    BY DEF DealsPosted
  <2>1. \A l : l \in PostedLegs(d) <=> LegShown(d, l)
    BY DEF PostedLegs, LegsOf, LegShown
  <2>2. DealLegs(deal[d].v) \subseteq PostedLegs(d)
    BY <2>1 DEF DealIIInv, DealIInv, DealFull
  <2>3. ASSUME CalmDeals
        PROVE  {l \in PostedLegs(d) : l.kind # "itemFee"} = DealLegs(deal[d].v) \cup DealFee(feeDue[d])
    <3>1. /\ PostedLegs(d) \subseteq LegType /\ deal[d].v \in DealForms
          /\ feeDue[d] \in DealParties \cup {None}
      BY DEF DealIIInv, DealIInv, DealTypeOK, PostedLegs, LegsOf, LegRow, Made, DealRow
    <3>2. /\ DealLegs(deal[d].v) \subseteq LegType /\ \A l \in DealLegs(deal[d].v) : l.kind \notin FeeKinds
          /\ DealFee(feeDue[d]) \subseteq LegType /\ \A l \in DealFee(feeDue[d]) : l.kind = "dealFee"
      BY <3>1, DealLegsType, DealFeesType
    <3>3. FeeExact(d) /\ RowsExact(d)
      BY <2>3 DEF CalmDeals, DealIIInv, DealsSerial
    <3>4. \A l \in LegType : l.kind # "itemFee" =>
            (l \in PostedLegs(d) <=> l \in DealLegs(deal[d].v) \cup DealFee(feeDue[d]))
      BY <2>1, <3>2, <3>3 DEF FeeExact, RowsExact, FeeKinds
    <3> QED BY <3>1, <3>2, <3>4 DEF FeeKinds
  <2> QED BY <2>2, <2>3
<1> QED BY <1>1, DealInitInv, DealNextInv, PTL DEF DealSpec

=============================================================================
