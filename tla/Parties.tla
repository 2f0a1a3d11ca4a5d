-------------------------------- MODULE Parties --------------------------------
(***************************************************************************)
(* Parties: the link of two accounts of one person, the one party of       *)
(* direct sales, and the removal of a party with its paperwork, in four    *)
(* commits.                                                                *)
(***************************************************************************)
EXTENDS Office, FiniteSets

CONSTANTS
    Partners,       \* ids of Party rows; each is used once
    Paperwork,      \* ids of rows that name parties; each is used once
    MaxPartyBegun   \* bound of the model: requests begun where they may overlap

PaperKinds == {"invoice", "deal", "request", "return", "discount", "entry"}
PartyRow == [link : Partners \cup {None}, direct : BOOLEAN, hidden : BOOLEAN]
PaperRow == [kind : PaperKinds, parties : SUBSET Partners]

ASSUME PartyAssumption ==
    /\ MaxPartyBegun \in Nat
    /\ None \notin Partners \cup Paperwork \cup PartyRow \cup PaperRow

VARIABLES
    party,        \* None while there is none
    partiesMade,
    paperOf,      \* kind and parties of each row, None while there is none
    papersMade,
    partyPc, partyMem,
    partyOverlap, \* requests may be in progress together (fixed from the start)
    partyBegun, partyCuts

partyRows == <<party, partiesMade, paperOf, papersMade>>
partyVars == <<partyRows, partyPc, partyMem, partyOverlap, partyBegun, partyCuts>>

PartyBlank == [of |-> None, to |-> None, took |-> FALSE]

PartyGoto(r, l) == partyPc' = [partyPc EXCEPT ![r] = l]
PartyRemember(r, m) == partyMem' = [partyMem EXCEPT ![r] = m]
PartyEnd(r) == PartyGoto(r, "idle") /\ PartyRemember(r, PartyBlank)
PartiesIdle == \A r \in Requests : partyPc[r] = "idle"
EnterParty(r) ==
    /\ partyPc[r] = "idle"
    /\ IF partyOverlap THEN partyBegun < MaxPartyBegun /\ partyBegun' = partyBegun + 1
                       ELSE PartiesIdle /\ UNCHANGED partyBegun

There(p) == party[p] # None
LinkedFrom(p) == {q \in Partners : There(q) /\ party[q].link = p}
PapersOf(p, kinds) ==
    {d \in Paperwork : paperOf[d] # None /\ p \in paperOf[d].parties /\ paperOf[d].kind \in kinds}

NewParty(p, direct) ==
    /\ p \in Partners \ partiesMade
    /\ party' = [party EXCEPT ![p] = [link |-> None, direct |-> direct, hidden |-> FALSE]]
    /\ partiesMade' = partiesMade \cup {p}

CreateParty(p) ==
    /\ partyOverlap \/ PartiesIdle
    /\ NewParty(p, FALSE)
    /\ UNCHANGED <<paperOf, papersMade, partyPc, partyMem, partyOverlap, partyBegun, partyCuts>>

\* the other modules write paperwork; a deal has a client and a supplier
WritePaper(d, kind, ps) ==
    /\ partyOverlap \/ PartiesIdle
    /\ d \notin papersMade
    /\ \A p \in ps : There(p)
    /\ Cardinality(ps) = IF kind = "deal" THEN 2 ELSE 1
    /\ paperOf' = [paperOf EXCEPT ![d] = [kind |-> kind, parties |-> ps]]
    /\ papersMade' = papersMade \cup {d}
    /\ UNCHANGED <<party, partiesMade, partyPc, partyMem, partyOverlap, partyBegun, partyCuts>>

-----------------------------------------------------------------------------
(* Direct sales, links.                                                    *)

DirectParties == {p \in Partners : There(p) /\ party[p].direct}

BeginDirectSale(r) ==
    /\ EnterParty(r)
    /\ DirectParties = {}
    /\ PartyGoto(r, "direct")
    /\ UNCHANGED <<partyRows, partyMem, partyOverlap, partyCuts>>

MakeDirect(r) ==
    /\ partyPc[r] = "direct"
    /\ \E p \in Partners : NewParty(p, TRUE)
    /\ PartyEnd(r)
    /\ UNCHANGED <<paperOf, papersMade, partyOverlap, partyBegun, partyCuts>>

FreeUnlessLinked(p) == party[p].link = None   \* mutant: who points at it is not asked
Free(p) == party[p].link = None /\ LinkedFrom(p) = {}

BeginLink(r, p, q) ==
    /\ EnterParty(r)
    /\ There(p) /\ There(q) /\ p # q
    /\ Free(p) /\ Free(q)
    /\ PartyGoto(r, "link")
    /\ PartyRemember(r, [PartyBlank EXCEPT !.of = p, !.to = q])
    /\ UNCHANGED <<partyRows, partyOverlap, partyCuts>>

\* linkedPartyId is unique
WriteLink(r) ==
    LET m == partyMem[r] IN
    /\ partyPc[r] = "link"
    /\ There(m.of) /\ There(m.to) /\ LinkedFrom(m.to) \subseteq {m.of}
    /\ party' = [party EXCEPT ![m.of].link = m.to]
    /\ PartyEnd(r)
    /\ UNCHANGED <<partiesMade, paperOf, papersMade, partyOverlap, partyBegun, partyCuts>>

\* from either side
BeginUnlink(r, p) ==
    /\ EnterParty(r)
    /\ There(p)
    /\ PartyGoto(r, "unlink")
    /\ \E q \in IF LinkedFrom(p) # {} THEN LinkedFrom(p) ELSE {p} :
          PartyRemember(r, [PartyBlank EXCEPT !.of = q])
    /\ UNCHANGED <<partyRows, partyOverlap, partyCuts>>

ClearLink(r) ==
    LET p == partyMem[r].of IN
    /\ partyPc[r] = "unlink" /\ There(p)
    /\ party' = [party EXCEPT ![p].link = None]
    /\ PartyEnd(r)
    /\ UNCHANGED <<partiesMade, paperOf, papersMade, partyOverlap, partyBegun, partyCuts>>

-----------------------------------------------------------------------------
(* Removal.                                                                *)

\* what countRelated counts; a return and a discount have entries
Related(p) == PapersOf(p, PaperKinds)

BeginRemoveParty(r, p, mode) ==
    /\ EnterParty(r)
    /\ There(p)
    /\ Related(p) = {} \/ mode # "strict"
    /\ PartyGoto(r, IF Related(p) # {} /\ mode = "archive" THEN "archive" ELSE "invoices")
    /\ PartyRemember(r, [PartyBlank EXCEPT !.of = p])
    /\ UNCHANGED <<partyRows, partyOverlap, partyCuts>>

ArchiveParty(r) ==
    LET p == partyMem[r].of IN
    /\ partyPc[r] = "archive" /\ There(p)
    /\ party' = [party EXCEPT ![p].hidden = TRUE]
    /\ PartyEnd(r)
    /\ UNCHANGED <<partiesMade, paperOf, papersMade, partyOverlap, partyBegun, partyCuts>>

WithoutPapers(ds) == [d \in Paperwork |-> IF d \in ds THEN None ELSE paperOf[d]]

\* the invoices, then the deals, then the requests
DropPapers(r, at, kind, next) ==
    LET ds == PapersOf(partyMem[r].of, {kind}) IN
    /\ partyPc[r] = at
    /\ paperOf' = WithoutPapers(ds)
    /\ PartyGoto(r, next)
    /\ PartyRemember(r, [partyMem[r] EXCEPT !.took = @ \/ ds # {}])
    /\ UNCHANGED <<party, partiesMade, papersMade, partyOverlap, partyBegun, partyCuts>>

\* the rows whose party is required and onDelete: Restrict
Holding(p) == PapersOf(p, {"invoice", "deal", "return", "discount"})

\* entries and requests go with the party, links to it are cleared
DropParty(r) ==
    LET p == partyMem[r].of IN
    /\ partyPc[r] = "party" /\ There(p)
    /\ Holding(p) = {}
    /\ party' = [q \in Partners |->
          IF q = p THEN None ELSE IF q \in LinkedFrom(p) THEN [party[q] EXCEPT !.link = None] ELSE party[q]]
    /\ paperOf' = WithoutPapers(PapersOf(p, {"entry", "request"}))
    /\ PartyEnd(r)
    /\ UNCHANGED <<partiesMade, papersMade, partyOverlap, partyBegun, partyCuts>>

-----------------------------------------------------------------------------
PartyRefused(r) ==
    LET m == partyMem[r] IN
    \/ partyPc[r] \in {"unlink", "archive", "party"} /\ ~There(m.of)
    \/ partyPc[r] = "link" /\ (~There(m.of) \/ ~There(m.to) \/ ~(LinkedFrom(m.to) \subseteq {m.of}))
    \/ partyPc[r] = "party" /\ Holding(m.of) # {}

RefuseParty(r) ==
    /\ PartyRefused(r)
    /\ PartyEnd(r)
    /\ UNCHANGED <<partyRows, partyOverlap, partyBegun, partyCuts>>

CutParty(r) ==
    /\ partyPc[r] # "idle" /\ partyCuts < MaxCuts
    /\ partyCuts' = partyCuts + 1
    /\ PartyEnd(r)
    /\ UNCHANGED <<partyRows, partyOverlap, partyBegun>>

PartyInit ==
    /\ party = [p \in Partners |-> None] /\ partiesMade = {}
    /\ paperOf = [d \in Paperwork |-> None] /\ papersMade = {}
    /\ partyPc = [r \in Requests |-> "idle"] /\ partyMem = [r \in Requests |-> PartyBlank]
    /\ partyOverlap \in BOOLEAN /\ partyBegun = 0 /\ partyCuts = 0

StepParty(r) ==
    \/ MakeDirect(r) \/ WriteLink(r) \/ ClearLink(r) \/ ArchiveParty(r)
    \/ DropPapers(r, "invoices", "invoice", "deals")
    \/ DropPapers(r, "deals", "deal", "requests")
    \/ DropPapers(r, "requests", "request", "party")
    \/ DropParty(r) \/ RefuseParty(r) \/ CutParty(r)

PartyNext ==
    \/ \E p \in Partners : CreateParty(p)
    \/ \E d \in Paperwork, kind \in PaperKinds, ps \in SUBSET Partners : WritePaper(d, kind, ps)
    \/ \E r \in Requests :
        \/ StepParty(r) \/ BeginDirectSale(r)
        \/ \E p, q \in Partners : BeginLink(r, p, q)
        \/ \E p \in Partners : BeginUnlink(r, p)
        \/ \E p \in Partners, mode \in {"strict", "cascade", "archive"} : BeginRemoveParty(r, p, mode)

PartySpec == PartyInit /\ [][PartyNext]_partyVars

-----------------------------------------------------------------------------
(* Properties.                                                             *)

\* Every column and every local of a request has its type.
PartyTypeOK ==
    /\ party \in [Partners -> PartyRow \cup {None}]
    /\ paperOf \in [Paperwork -> PaperRow \cup {None}]
    /\ partyPc \in [Requests -> {"idle", "direct", "link", "unlink", "archive",
                                 "invoices", "deals", "requests", "party"}]
    /\ partyMem \in [Requests ->
          [of : Partners \cup {None}, to : Partners \cup {None}, took : BOOLEAN]]

\* The ledger of a linked party is that of two accounts: parties are linked in pairs, a
\* link ends at a party that is there (and, of one request at a time, at one that is
\* not linked itself, parties.service.ts:230-239), and of one request at a time there is
\* one party of direct sales.  Nobody's paperwork names a party that is gone.
PartiesPaired ==
    /\ \A p \in Partners : There(p) /\ party[p].link # None =>
        /\ There(party[p].link) /\ LinkedFrom(party[p].link) = {p}
        /\ ~partyOverlap => party[party[p].link].link = None
    /\ ~partyOverlap => Cardinality(DirectParties) <= 1
    /\ \A d \in Paperwork : paperOf[d] # None => \A p \in paperOf[d].parties : There(p)

\* "cascade: delete the related records along with it" (delete-mode.ts:5): of one
\* request at a time, a removal that has taken paperwork away takes the party too.
PartyGoesWhole ==
    [][\A r \in Requests :
          /\ ~partyOverlap /\ partyPc[r] = "party" /\ partyPc'[r] = "idle" /\ partyCuts' = partyCuts
          /\ partyMem[r].took
          => party'[partyMem[r].of] = None]_partyVars

=============================================================================
