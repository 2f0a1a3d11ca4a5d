----------------------------- MODULE ManifestTrips -----------------------------
(***************************************************************************)
(* A sheet lists what a vehicle carries (Manifest), a ride is the trip of  *)
(* its driver (DriverTrip).  They find each other by document, or by       *)
(* client, vehicle and date, and copy document, driver and vehicle to each *)
(* other.  A request writes its own row and then runs the helpers of       *)
(* manifest-trip-sync.ts, each of which reads and writes once, in a commit *)
(* of its own; it may be cut off between two of them.                      *)
(*                                                                         *)
(* Requests come one at a time.  A document is an invoice or deal of the   *)
(* client of its ride (linkDoc checks this); `car' stands for number,      *)
(* label and trailer, `phone' for phone and national id (whose they are);  *)
(* names are compared without their spaces.                                *)
(***************************************************************************)
EXTENDS Office, FiniteSets, FiniteSetsExt, Sequences, TLC

CONSTANTS
    MaxSheets, MaxRides,  \* bounds of the model: rows ever made
    MaxPairBegun,         \* bound of the model: requests in a behaviour
    Clients, Drivers, Cars,
    Docs,                 \* invoices and deals
    Registered,           \* drivers whose phone the register of drivers knows
    MaxDays,              \* how far apart a sheet and its ride may be
    SheetForms, SheetEdits, RideForms, RideEdits  \* an edit has the fields that it touches

Sheets == 1 .. MaxSheets
Rides == 1 .. MaxRides

OrNone(S) == S \cup {None}

\* what the columns of a sheet and of a ride hold
SheetColumns == [client |-> OrNone(Clients), date |-> Nat, driver |-> OrNone(Drivers),
    phone |-> OrNone(Drivers), car |-> OrNone(Cars), doc |-> OrNone(Docs), ours |-> BOOLEAN]
RideColumns ==
    [client |-> OrNone(Clients), date |-> Nat, driver |-> Drivers, car |-> OrNone(Cars)]

SheetRow == [client : OrNone(Clients), date : Nat, driver : OrNone(Drivers),
    phone : OrNone(Drivers), car : OrNone(Cars), doc : OrNone(Docs), ours : BOOLEAN]
RideForm == [client : OrNone(Clients), date : Nat, driver : Drivers, car : OrNone(Cars)]
RideRow == [client : OrNone(Clients), date : Nat, driver : Drivers, car : OrNone(Cars),
    doc : OrNone(Docs), sheet : OrNone(Sheets)]

Touches(edit, columns) ==
    \A x \in DOMAIN edit : x \in DOMAIN columns /\ edit[x] \in columns[x]

ASSUME PairAssumption ==
    /\ MaxSheets \in Nat /\ MaxRides \in Nat /\ MaxPairBegun \in Nat /\ MaxDays \in Nat
    /\ Registered \subseteq Drivers
    /\ SheetForms \subseteq SheetRow /\ RideForms \subseteq RideForm
    /\ \A edit \in SheetEdits : Touches(edit, SheetColumns)
    /\ \A edit \in RideEdits : Touches(edit, RideColumns)
    /\ None \notin SheetRow \cup RideRow \cup Sheets \cup Rides

\* The office enters a driver with his phone or with none, and no phone without its driver.
PhonesEntered ==
    /\ \A form \in SheetForms : form.phone \in {None, form.driver}
    /\ \A edit \in SheetEdits : {"driver", "phone"} \cap DOMAIN edit # {} =>
          {"driver", "phone"} \subseteq DOMAIN edit /\ edit.phone \in {None, edit.driver}

VARIABLES
    sheet,       \* the row of each sheet, None while there is none
    sheetsMade,
    ride,        \* the row of each ride, likewise
    ridesMade,
    calls,       \* what the request in progress still has to do
    pairSoiled,  \* sheets the code itself lets part from their ride, see the properties
    pairBegun,   \* requests so far
    pairCuts

pairRows == <<sheet, sheetsMade, ride, ridesMade>>
pairVars == <<sheet, sheetsMade, ride, ridesMade, calls, pairSoiled,
              pairBegun, pairCuts>>

IsSheet(s) == s # None /\ sheet[s] # None
IsRide(t) == ride[t] # None
Ours(s) == IsSheet(s) /\ sheet[s].ours
RidesOf(s) == {t \in Rides : IsRide(t) /\ ride[t].sheet = s}
LoneSheets == {s \in Sheets : Ours(s) /\ RidesOf(s) = {}}
Holds(t, d) == IsRide(t) /\ d # None /\ ride[t].doc = d

\* the row after an edit
Edited(row, edit) == [x \in DOMAIN row |-> IF x \in DOMAIN edit THEN edit[x] ELSE row[x]]

Call(f, id, prev) == [f |-> f, id |-> id, prev |-> prev]

Serving(f) == calls # <<>> /\ Head(calls).f = f
Then(more) == calls' = more \o Tail(calls)

-----------------------------------------------------------------------------
(* syncManifestTrips: the document of a sheet goes to its ride             *)

SyncedUntaken(s, prev) ==   \* mutant: the ride on the old document keeps it
    LET free == {t \in RidesOf(s) : ride[t].doc = None} IN
    IF ~Ours(s) \/ free = {} \/ (\E t \in Rides : Holds(t, sheet[s].doc)) THEN ride
    ELSE [ride EXCEPT ![Min(free)].doc = sheet[s].doc]

Synced(s, prev) ==
    LET mine == RidesOf(s)
        free == {t \in mine : ride[t].doc = None \/ Holds(t, prev)}
    IN
    IF ~Ours(s) \/ mine = {} THEN ride
    ELSE IF sheet[s].doc = None
    THEN [t \in Rides |-> IF t \in mine /\ Holds(t, prev) THEN [ride[t] EXCEPT !.doc = None] ELSE ride[t]]
    ELSE IF \E t \in Rides : Holds(t, sheet[s].doc) THEN ride
    ELSE [ride EXCEPT ![Min(IF free # {} THEN free ELSE mine)].doc = sheet[s].doc]

SyncManifestTrips ==
    /\ Serving("syncRides")
    /\ ride' = Synced(Head(calls).id, Head(calls).prev)
    /\ Then(<<>>)
    /\ UNCHANGED <<sheet, sheetsMade, ridesMade, pairCuts>>

-----------------------------------------------------------------------------
(* Pairing.                                                                *)

SameVehicle(a, b) ==
    IF a.car # None /\ b.car # None THEN a.car = b.car ELSE a.driver # None /\ a.driver = b.driver

Gap(s, t) == IF sheet[s].date < ride[t].date THEN ride[t].date - sheet[s].date
                                             ELSE sheet[s].date - ride[t].date

Akin(s, t) ==
    /\ sheet[s].client # None /\ sheet[s].client = ride[t].client
    /\ SameVehicle(sheet[s], ride[t])
    /\ Gap(s, t) <= MaxDays

Nearest(S, G(_)) == {x \in S : \A y \in S : G(x) <= G(y)}

Pair(s, t) == ride' = [ride EXCEPT ![t].sheet = s]
Unpaired == {t \in Rides : IsRide(t) /\ ride[t].sheet = None}

AutoPairManifest ==
    LET s == Head(calls).id
        byDoc == {t \in Unpaired : Holds(t, sheet[s].doc)}
        akin == {t \in Unpaired : Akin(s, t)}
    IN
    /\ Serving("pairSheet")
    /\ \/ /\ s \notin LoneSheets \/ byDoc \cup akin = {}
          /\ Then(<<>>) /\ UNCHANGED ride
       \/ /\ s \in LoneSheets
          /\ \E t \in byDoc : Pair(s, t) /\ Then(<<Call("copyDown", t, None)>>)
       \/ /\ s \in LoneSheets /\ byDoc = {}
          /\ \E t \in Nearest(akin, LAMBDA x : Gap(s, x)) :
                Pair(s, t) /\ Then(<<Call("syncRides", s, None), Call("copyDown", t, None)>>)
    /\ UNCHANGED <<sheet, sheetsMade, ridesMade, pairCuts>>

AutoPairTrip ==
    LET t == Head(calls).id
        byDoc == {s \in LoneSheets : Holds(t, sheet[s].doc)}
        akin == {s \in LoneSheets : Akin(s, t)}
    IN
    /\ Serving("pairRide")
    /\ \/ /\ t \notin Unpaired \/ byDoc \cup akin = {}
          /\ Then(<<>>) /\ UNCHANGED ride
       \/ /\ t \in Unpaired
          /\ \E s \in Nearest(byDoc, LAMBDA x : Gap(x, t)) :
                Pair(s, t) /\ Then(<<Call("copyDown", t, None)>>)
       \/ /\ t \in Unpaired /\ byDoc = {}
          /\ \E s \in Nearest(akin, LAMBDA x : Gap(x, t)) :
                Pair(s, t) /\ Then(<<Call("syncRides", s, None), Call("copyDown", t, None)>>)
    /\ UNCHANGED <<sheet, sheetsMade, ridesMade, pairCuts>>

-----------------------------------------------------------------------------
(* Copying: nothing that is filled in is overwritten with nothing.         *)

Filled(new, old) == IF new = None THEN old ELSE new

\* another driver: the phone that is there is not his
PhoneOf(s, name) ==
    LET changed == sheet[s].driver # name IN
    IF ~changed /\ sheet[s].phone # None THEN sheet[s].phone
    ELSE IF name \in Registered THEN name
    ELSE IF changed THEN None ELSE sheet[s].phone

CopyTripToManifest ==
    LET t == Head(calls).id
        s == ride[t].sheet
    IN
    /\ Serving("copyDown")
    /\ sheet' = IF ~Ours(s) THEN sheet
                ELSE [sheet EXCEPT ![s].driver = ride[t].driver, ![s].car = Filled(ride[t].car, @),
                                   ![s].phone = PhoneOf(s, ride[t].driver)]
    /\ Then(<<>>)
    /\ UNCHANGED <<sheetsMade, ride, ridesMade, pairCuts>>

CopyManifestToTrip ==
    LET s == Head(calls).id
        t == Min(RidesOf(s))
    IN
    /\ Serving("copyUp")
    /\ ride' = IF ~Ours(s) \/ RidesOf(s) = {} THEN ride
               ELSE [ride EXCEPT ![t].driver = Filled(sheet[s].driver, @),
                                 ![t].car = Filled(sheet[s].car, @)]
    /\ Then(<<>>)
    /\ UNCHANGED <<sheet, sheetsMade, ridesMade, pairCuts>>

DocTakenOnlyEmpty(s, t, prev) ==   \* mutant: the sheet stays on the old document
    IF ride[t].doc = None THEN sheet[s].doc ELSE Filled(sheet[s].doc, ride[t].doc)
DocTaken(s, t, prev) ==
    LET onPrev == prev # None /\ sheet[s].doc = prev IN
    IF onPrev \/ (sheet[s].doc = None) THEN ride[t].doc ELSE sheet[s].doc

SyncTripDocToManifest ==
    LET t == Head(calls).id
        s == ride[t].sheet
    IN
    /\ Serving("syncDoc")
    /\ IF s = None THEN Then(<<Call("pairRide", t, None)>>) /\ UNCHANGED sheet
       ELSE /\ sheet' = IF Ours(s) THEN [sheet EXCEPT ![s].doc = DocTaken(s, t, Head(calls).prev)]
                                   ELSE sheet
            /\ Then(<<>>)
    /\ UNCHANGED <<sheetsMade, ride, ridesMade, pairCuts>>

-----------------------------------------------------------------------------
(* Requests: ManifestsService and DriverTripsService.                      *)

CreateSheet(form) ==
    LET s == sheetsMade + 1 IN
    /\ s \in Sheets
    /\ sheetsMade' = s
    /\ sheet' = [sheet EXCEPT ![s] = form]
    /\ calls' = <<Call("pairSheet", s, None)>>
    /\ UNCHANGED <<ride, ridesMade, pairCuts>>

UpdateSheet(s, edit) ==
    LET touches(F) == F \cap DOMAIN edit # {} IN
    /\ IsSheet(s)
    /\ sheet' = [sheet EXCEPT ![s] = Edited(@, edit)]
    /\ calls' = (IF touches({"doc"}) THEN <<Call("syncRides", s, sheet[s].doc)>> ELSE <<>>)
                \o (IF touches({"driver", "car"}) THEN <<Call("copyUp", s, None)>> ELSE <<>>)
                \o <<Call("pairSheet", s, None)>>
    /\ UNCHANGED <<sheetsMade, ride, ridesMade, pairCuts>>

\* its rides stay (onDelete: SetNull)
RemoveSheet(s) ==
    /\ IsSheet(s)
    /\ sheet' = [sheet EXCEPT ![s] = None]
    /\ ride' = [t \in Rides |-> IF t \in RidesOf(s) THEN [ride[t] EXCEPT !.sheet = None] ELSE ride[t]]
    /\ UNCHANGED <<sheetsMade, ridesMade, calls, pairCuts>>

CreateRide(form, s) ==
    LET t == ridesMade + 1 IN
    /\ t \in Rides
    /\ s # None => IsSheet(s)
    /\ ridesMade' = t
    /\ ride' = [ride EXCEPT ![t] = [client |-> form.client, date |-> form.date,
            driver |-> form.driver, car |-> form.car, doc |-> None, sheet |-> s]]
    /\ calls' = IF s = None THEN <<Call("pairRide", t, None)>>
                ELSE <<Call("syncRides", s, None), Call("copyDown", t, None)>>
    /\ UNCHANGED <<sheet, sheetsMade, pairCuts>>

UpdateRide(t, edit) ==
    /\ IsRide(t)
    /\ ride' = [ride EXCEPT ![t] = Edited(@, edit)]
    /\ calls' = <<Call("pairRide", t, None)>>
                \o (IF {"driver", "car"} \cap DOMAIN edit # {} THEN <<Call("copyDown", t, None)>> ELSE <<>>)
    /\ UNCHANGED <<sheet, sheetsMade, ridesMade, pairCuts>>

\* the office of the client has no rides of ours
MoveRide(t, s) ==
    /\ IsRide(t) /\ Ours(s)
    /\ Pair(s, t)
    /\ calls' = <<Call("syncRides", s, None), Call("syncDoc", t, None), Call("copyDown", t, None)>>
    /\ UNCHANGED <<sheet, sheetsMade, ridesMade, pairCuts>>

DetachRide(t) ==
    /\ IsRide(t)
    /\ Pair(None, t)
    /\ UNCHANGED <<sheet, sheetsMade, ridesMade, calls, pairCuts>>

\* linkInvoice, and d = None to unlink
LinkDoc(t, d) ==
    /\ IsRide(t)
    /\ \A u \in Rides \ {t} : ~Holds(u, d)
    /\ ride' = [ride EXCEPT ![t].doc = d]
    /\ calls' = <<Call("syncDoc", t, ride[t].doc)>>
    /\ UNCHANGED <<sheet, sheetsMade, ridesMade, pairCuts>>

RemoveRide(t) ==
    /\ IsRide(t)
    /\ ride' = [ride EXCEPT ![t] = None]
    /\ UNCHANGED <<sheet, sheetsMade, ridesMade, calls, pairCuts>>

\* an invoice or deal goes (onDelete: SetNull)
RemoveDoc(d) ==
    LET Without(row) == IF row # None /\ row.doc = d THEN [row EXCEPT !.doc = None] ELSE row IN
    /\ sheet' = [s \in Sheets |-> Without(sheet[s])]
    /\ ride' = [t \in Rides |-> Without(ride[t])]
    /\ UNCHANGED <<sheetsMade, ridesMade, calls, pairCuts>>

CutPairing ==
    /\ calls # <<>> /\ pairCuts < MaxCuts
    /\ pairCuts' = pairCuts + 1
    /\ calls' = <<>>
    /\ UNCHANGED pairRows

PairInit ==
    /\ sheet = [s \in Sheets |-> None] /\ sheetsMade = 0
    /\ ride = [t \in Rides |-> None] /\ ridesMade = 0
    /\ calls = <<>> /\ pairSoiled = {} /\ pairBegun = 0 /\ pairCuts = 0

PairRequest ==
    /\ calls = <<>>
    /\ pairBegun < MaxPairBegun /\ pairBegun' = pairBegun + 1
    /\ \/ \E form \in SheetForms : CreateSheet(form)
       \/ \E s \in Sheets : RemoveSheet(s) \/ \E edit \in SheetEdits : UpdateSheet(s, edit)
       \/ \E form \in RideForms, s \in Sheets \cup {None} : CreateRide(form, s)
       \/ \E t \in Rides :
            \/ \E edit \in RideEdits : UpdateRide(t, edit)
            \/ \E s \in Sheets : MoveRide(t, s)
            \/ \E d \in Docs \cup {None} : LinkDoc(t, d)
            \/ DetachRide(t) \/ RemoveRide(t)
       \/ \E d \in Docs : RemoveDoc(d)

PairStep ==
    \/ SyncManifestTrips \/ AutoPairManifest \/ AutoPairTrip
    \/ CopyTripToManifest \/ CopyManifestToTrip \/ SyncTripDocToManifest

\* What a sheet and its ride cannot be held to any more: the sheet changed between our
\* vehicles and the client's, one of several rides left it, a ride elsewhere gave up the
\* document that kept its own ride from having it, or a request was cut off.
Parted(s) ==
    \/ IsSheet(s) /\ sheet'[s] # None /\ sheet[s].ours # sheet'[s].ours
    \/ \E t \in RidesOf(s) : ride'[t] = None \/ ride'[t].sheet # s
    \/ IsSheet(s) /\ \E t \in Rides \ RidesOf(s) :
            Holds(t, sheet[s].doc) /\ (ride'[t] = None \/ ride'[t].doc # sheet[s].doc)
    \/ pairCuts' # pairCuts

PairNext ==
    /\ \/ PairRequest
       \/ (PairStep \/ CutPairing) /\ UNCHANGED pairBegun
    /\ pairSoiled' = {s \in Sheets : (s \in pairSoiled \/ Parted(s))
                                     /\ \E t \in Rides : ride'[t] # None /\ ride'[t].sheet = s}

PairSpec == PairInit /\ [][PairNext]_pairVars

-----------------------------------------------------------------------------
(* Properties.                                                             *)

\* Every column has its type, what the request in progress has left to do is about rows
\* that are there; no two rides have one document (@unique).
PairTypeOK ==
    /\ sheet \in [Sheets -> OrNone(SheetRow)] /\ sheetsMade \in Nat
    /\ ride \in [Rides -> OrNone(RideRow)] /\ ridesMade \in Nat
    /\ \A s \in Sheets : IsSheet(s) => s <= sheetsMade
    /\ \A t \in Rides : IsRide(t) => t <= ridesMade
                                     /\ (ride[t].sheet # None => IsSheet(ride[t].sheet))
    /\ \A i \in DOMAIN calls :
          IF calls[i].f \in {"syncRides", "pairSheet", "copyUp"} THEN IsSheet(calls[i].id)
                                                                ELSE IsRide(calls[i].id)
    /\ pairSoiled \subseteq Sheets /\ pairBegun \in Nat /\ pairCuts \in Nat
    /\ \A d \in Docs : Cardinality({t \in Rides : Holds(t, d)}) <= 1

\* When a request has ended, a sheet of ours and its only ride agree: on driver and vehicle
\* as far as both say, on the document of the sheet unless another ride holds it, and the
\* phone on the sheet is that of its driver.  (The document of a ride that was paired by
\* vehicle does not reach a sheet that has none: only this direction holds.)
PairsAgree ==
    calls = <<>> => \A s \in Sheets \ pairSoiled, t \in Rides :
        Ours(s) /\ RidesOf(s) = {t} =>
            /\ sheet[s].driver \in {None, ride[t].driver}
            /\ sheet[s].car # None /\ ride[t].car # None => sheet[s].car = ride[t].car
            /\ sheet[s].phone \in {None, sheet[s].driver}
            /\ sheet[s].doc # None => \E u \in Rides : Holds(u, sheet[s].doc)
            /\ sheet[s].doc # ride[t].doc =>
                  sheet[s].doc = None \/ \E u \in Rides \ {t} : Holds(u, sheet[s].doc)

=============================================================================
