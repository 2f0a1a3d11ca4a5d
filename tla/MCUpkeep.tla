-------------------------------- MODULE MCUpkeep --------------------------------
(* Instances, for TLC, of modules that share no row with each other: a      *)
(* behaviour is one of one of them.                                         *)
EXTENDS MonthlyDues, Discounts, Products, Labels, Reviews, TLC

CONSTANTS Parts

ASSUME UpkeepAssumption == Parts \subseteq {"dues", "discounts", "products", "labels", "reviews"}

VARIABLE part   \* the module that moves

CONSTANTS o1, t1

MCMonths == <<2, 1, 1, 1>>

MCProductForms == {[service |-> FALSE, price |-> price] : price \in {0, 1}}

MCKindOf == (o1 :> "order" @@ t1 :> "invoice")

-----------------------------------------------------------------------------
upkeepVars == <<part, vars, discVars, prodVars, labelVars, reviewVars>>

\* the module p moves and the others stay
Alone(p) ==
    /\ part = p
    /\ UNCHANGED part
    /\ IF p = "dues" THEN TRUE ELSE UNCHANGED vars
    /\ IF p = "discounts" THEN TRUE ELSE UNCHANGED discVars
    /\ IF p = "products" THEN TRUE ELSE UNCHANGED prodVars
    /\ IF p = "labels" THEN TRUE ELSE UNCHANGED labelVars
    /\ IF p = "reviews" THEN TRUE ELSE UNCHANGED reviewVars

UpkeepInit ==
    /\ part \in Parts
    /\ Init
    /\ DiscountInit /\ (part # "discounts" => ~discOverlap)
    /\ ProductInit
    /\ LabelInit /\ (part # "labels" => ~labelOverlap)
    /\ ReviewInit /\ (part # "reviews" => ~reviewOverlap)

UpkeepNext ==
    \/ Alone("dues") /\ Next
    \/ Alone("discounts") /\ DiscountNext
    \/ Alone("products") /\ ProductNext
    \/ Alone("labels") /\ LabelNext
    \/ Alone("reviews") /\ ReviewNext

\* Fairness of MonthlyDues, where it is the one that moves
UpkeepFairness ==
    \A r \in Requests :
        /\ WF_upkeepVars(Alone("dues") /\ Step(r))
        /\ SF_upkeepVars(Alone("dues") /\ Look(r))

UpkeepSpec == UpkeepInit /\ [][UpkeepNext]_upkeepVars /\ UpkeepFairness

\* every column of the part that moves has its type
UpkeepTypeOK ==
    /\ part \in Parts
    /\ CASE part = "dues" -> TypeOK
         [] part = "discounts" -> DiscountTypeOK
         [] part = "products" -> ProductTypeOK
         [] part = "labels" -> LabelTypeOK
         [] part = "reviews" -> ReviewTypeOK

=============================================================================
