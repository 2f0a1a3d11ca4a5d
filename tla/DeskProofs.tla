----------------------------- MODULE DeskProofs -----------------------------
(***************************************************************************)
(* The desk as a whole, from the theorems about its parts: its types, and  *)
(* that reports and screens agree.                                         *)
(***************************************************************************)
EXTENDS MCDesk, RidesDealsProofs, ScreensPricesProofs

\* A behaviour of the desk is one of each of its modules: the one that moves, and the others
\* at rest.
LEMMA DeskParts ==
  DeskSpec => TripSpec /\ PairSpec /\ DealSpec /\ PartySpec /\ StatementSpec /\ ShareSpec /\ ReportSpec
<1>1. DeskInit => /\ TripInit /\ PairInit /\ DealInit /\ PartyInit /\ StatementInit /\ ShareInit /\ ReportInit
                  /\ part \in Parts
  BY DEF DeskInit
<1>2. [DeskNext]_deskVars => /\ [TripNext]_tripVars /\ [PairNext]_pairVars /\ [DealNext]_dealVars
                             /\ [PartyNext]_partyVars /\ [StatementNext]_bookVars
                             /\ [ShareNext]_shareVars /\ [ReportNext]_reportVars
  <2> SUFFICES ASSUME [DeskNext]_deskVars
               PROVE  /\ [TripNext]_tripVars /\ [PairNext]_pairVars /\ [DealNext]_dealVars
                      /\ [PartyNext]_partyVars /\ [StatementNext]_bookVars
                      /\ [ShareNext]_shareVars /\ [ReportNext]_reportVars
    OBVIOUS
  <2>1. CASE UNCHANGED deskVars
    BY <2>1 DEF deskVars
  <2>2. CASE DeskNext
    BY <2>2 DEF DeskNext, Alone
  <2> QED BY <2>1, <2>2
<1> QED BY <1>1, <1>2, PTL DEF DeskSpec, TripSpec, PairSpec, DealSpec, PartySpec, StatementSpec,
      ShareSpec, ReportSpec

PartListed == part \in Parts

\* Every column of every module of the desk has its type, whichever of them moves.
THEOREM DeskTypeCorrect == DeskSpec => []DeskTypeOK
<1>1. DeskInit => PartListed
  BY DEF DeskInit, PartListed
<1>2. PartListed /\ [DeskNext]_deskVars => PartListed'
  BY DEF DeskNext, Alone, deskVars, PartListed
<1>3. DeskSpec => []PartListed
  BY <1>1, <1>2, PTL DEF DeskSpec
<1>4. /\ PartListed /\ TripTypeOK /\ PairTypeOK /\ DealTypeOK /\ PartyTypeOK
      /\ StatementTypeOK /\ ShareTypeOK /\ ReportTypeOK
      => DeskTypeOK
  BY DeskAssumption DEF DeskTypeOK, PartListed
<1> QED BY <1>3, <1>4, DeskParts, TripTypeCorrect, PairsTyped, DealTypeCorrect, PartyTypeCorrect,
      StatementTypeCorrect, ShareTypeCorrect, ReportTypeCorrect, PTL

\* In every behaviour of the desk the reports count nothing twice, and agree.
THEOREM TotalsAlwaysAgree == DeskSpec => []TotalsAgree
<1>1. NothingTwice /\ ReportsAgree => TotalsAgree
  BY DEF TotalsAgree
<1> QED BY <1>1, DeskParts, ReportsCountOnce, ReportsAlwaysAgree, PTL

\* In every behaviour of the desk what its screens say of one account agrees.
THEOREM ScreensAlwaysAgree == DeskSpec => []ScreensAgree
<1>1. StatementsAgree => ScreensAgree
  BY DEF ScreensAgree
<1> QED BY <1>1, DeskParts, StatementsAlwaysAgree, PTL
=============================================================================
