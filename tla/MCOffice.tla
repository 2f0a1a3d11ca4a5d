-------------------------------- MODULE MCOffice --------------------------------
(* Instances, for TLC, of the modules that share no row with each other: a *)
(* behaviour is one of LoanReturns, of Invoices or of AgentLedger.         *)
EXTENDS LoanReturns, Invoices, AgentLedger, FiniteSets, TLC

CONSTANTS Parts

VARIABLE part   \* the module that moves

CONSTANTS p1, p2

Form(party, items, charges, discount, paid, foreign, fake, owner) ==
    [party |-> party, items |-> items, charges |-> charges, discount |-> discount, paid |-> paid,
     foreign |-> foreign, fake |-> fake, owner |-> owner]

MCVersions == {
    Form(p1, 1, 2, 2, 1, FALSE, FALSE, p2),
    Form(p2, 2, 0, 1, 0, FALSE, FALSE, None),
    Form(p1, 2, 0, 0, 1, TRUE, TRUE, None)}

\* money that came into a treasury of another currency, in a fake form and a real one
MCForeign == {Form(p1, 2, 0, 0, 1, TRUE, fake, None) : fake \in BOOLEAN}

Money(type, date, amount, sign, rate, treasury) ==
    [type |-> type, date |-> date, amount |-> amount, sign |-> sign, rate |-> rate,
     treasury |-> treasury]

\* a supply, money in, and a settlement without a treasury
MCSupplies == {
    Money("out", 1, 1, 1, 1, FALSE), Money("in", 1, 1, 1, 0, TRUE),
    Money("settle", 1, 1, -1, 0, FALSE)}

Edit(date, amount, sign, rate, treasury) ==
    [date |-> date, amount |-> amount, sign |-> sign, rate |-> rate, treasury |-> treasury]

\* to another day and rate, direction and treasury
MCAgentEdits == {Edit(2, None, 1, 2, TRUE)}

MCMoves == {
    [kind |-> "transfer", date |-> 2, amount |-> 1], [kind |-> "payment", date |-> 1, amount |-> 1]}

MCEntryEdits == {[date |-> 2, amount |-> 2]}

officeVars == <<part, loanVars, docVars, agentVars>>

OfficeInit ==
    /\ part \in Parts
    /\ LoanInit /\ (part # "loans" => ~loanOverlap)
    /\ InvoiceInit /\ (part # "invoices" => ~docOverlap)
    /\ AgentInit /\ (part # "agents" => ~agentOverlap)

OfficeNext ==
    /\ \/ part = "loans" /\ LoanNext /\ UNCHANGED <<docVars, agentVars>>
       \* two returns of one invoice, or two invoices and a return
       \/ part = "invoices" /\ InvoiceNext /\ Cardinality(issued') <= 3 /\ UNCHANGED <<loanVars, agentVars>>
       \/ part = "agents" /\ AgentNext /\ UNCHANGED <<loanVars, docVars>>
    /\ UNCHANGED part

OfficeSpec == OfficeInit /\ [][OfficeNext]_officeVars

\* every column of the three modules has its type
OfficeTypeOK == LoanTypeOK /\ InvoiceTypeOK /\ AgentTypeOK

OfficeSymmetry == Permutations(Requests) \cup Permutations(Ids) \cup Permutations(InvoiceIds)

=============================================================================
