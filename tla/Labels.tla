--------------------------------- MODULE Labels ---------------------------------
(***************************************************************************)
(* Charge types of invoices and categories of expenses: lists of names     *)
(* that users keep.  A name that comes back revives its archived row, and  *)
(* a row that something points at is archived instead of deleted.  Both    *)
(* look first and write in a second commit.                                *)
(***************************************************************************)
EXTENDS Office, FiniteSets

CONSTANTS
    Labels,         \* ids of ChargeType and ExpenseCategory rows; each is used once
    LabelNames,
    Uses,           \* ids of charges and of entries; each is used once
    MaxLabelBegun   \* bound of the model: requests begun where they may overlap

LabelRow == [name : LabelNames, category : BOOLEAN, hidden : BOOLEAN]
LabelLocal == [of : Labels \cup {None}, name : LabelNames \cup {None}, category : BOOLEAN]

ASSUME LabelAssumption ==
    /\ MaxLabelBegun \in Nat
    /\ None \notin Labels \cup Uses \cup LabelRow

VARIABLES
    label,          \* None while there is none
    labelsMade,
    use,            \* the label that each row points at, None for none
    used,
    labelPc, labelMem,
    labelOverlap,   \* requests may be in progress together (fixed from the start)
    labelBegun

labelRows == <<label, labelsMade, use, used>>
labelVars == <<labelRows, labelPc, labelMem, labelOverlap, labelBegun>>

LabelBlank == [of |-> None, name |-> None, category |-> FALSE]

LabelGoto(r, l) == labelPc' = [labelPc EXCEPT ![r] = l]
LabelRemember(r, m) == labelMem' = [labelMem EXCEPT ![r] = m]
LabelEnd(r) == LabelGoto(r, "idle") /\ LabelRemember(r, LabelBlank)
LabelsIdle == \A r \in Requests : labelPc[r] = "idle"
EnterLabel(r) ==
    /\ labelPc[r] = "idle"
    /\ IF labelOverlap THEN labelBegun < MaxLabelBegun /\ labelBegun' = labelBegun + 1
                       ELSE LabelsIdle /\ UNCHANGED labelBegun

IsLabel(b) == label[b] # None
UsesOf(b) == {u \in Uses : use[u] = b}
Named(n, category) == {b \in Labels : IsLabel(b) /\ label[b].name = n /\ label[b].category = category}

-----------------------------------------------------------------------------
Found(n, category) == Named(n, category)

BeginCreateLabel(r, n, category) ==
    /\ EnterLabel(r)
    /\ LabelGoto(r, "write")
    /\ \/ Found(n, category) = {} /\ LabelRemember(r, [of |-> None, name |-> n, category |-> category])
       \/ \E b \in Found(n, category) :
            /\ label[b].hidden
            /\ LabelRemember(r, [of |-> b, name |-> n, category |-> category])
    /\ UNCHANGED <<labelRows, labelOverlap>>

\* the names of charge types are unique, those of categories are not
WriteLabel(r) ==
    LET m == labelMem[r] IN
    /\ labelPc[r] = "write"
    /\ \/ /\ m.of # None /\ IsLabel(m.of)
          /\ label' = [label EXCEPT ![m.of].hidden = FALSE]
          /\ UNCHANGED labelsMade
       \/ /\ m.of = None
          /\ m.category \/ Named(m.name, FALSE) = {}
          /\ \E b \in Labels \ labelsMade :
                /\ label' = [label EXCEPT ![b] =
                      [name |-> m.name, category |-> m.category, hidden |-> FALSE]]
                /\ labelsMade' = labelsMade \cup {b}
    /\ LabelEnd(r)
    /\ UNCHANGED <<use, used, labelOverlap, labelBegun>>

\* a charge type asks for the name first, and may come back by hand; a category
\* takes the name it is given
BeginRename(r, b, n, hidden) ==
    /\ EnterLabel(r)
    /\ IsLabel(b)
    /\ label[b].category \/ Named(n, FALSE) \subseteq {b}
    /\ LabelGoto(r, IF hidden THEN "hide" ELSE "rename")
    /\ hidden => n = label[b].name /\ ~label[b].category
    /\ LabelRemember(r, [of |-> b, name |-> n, category |-> label[b].category])
    /\ UNCHANGED <<labelRows, labelOverlap>>

Rename(r) ==
    LET m == labelMem[r] IN
    /\ labelPc[r] = "rename" /\ IsLabel(m.of)
    /\ m.category \/ Named(m.name, FALSE) \subseteq {m.of}
    /\ label' = [label EXCEPT ![m.of].name = m.name]
    /\ LabelEnd(r)
    /\ UNCHANGED <<labelsMade, use, used, labelOverlap, labelBegun>>

UseLabel(u, b) ==
    /\ labelOverlap \/ LabelsIdle
    /\ u \notin used /\ IsLabel(b)
    /\ use' = [use EXCEPT ![u] = b]
    /\ used' = used \cup {u}
    /\ UNCHANGED <<label, labelsMade, labelPc, labelMem, labelOverlap, labelBegun>>

\* mutant: a label in use is deleted like any other
AfterUsageBlind(b) == "drop"
AfterUsage(b) == IF UsesOf(b) # {} THEN "hide" ELSE "drop"

BeginRemoveLabel(r, b) ==
    /\ EnterLabel(r)
    /\ IsLabel(b)
    /\ LabelGoto(r, AfterUsage(b))
    /\ LabelRemember(r, [LabelBlank EXCEPT !.of = b])
    /\ UNCHANGED <<labelRows, labelOverlap>>

HideLabel(r) ==
    LET b == labelMem[r].of IN
    /\ labelPc[r] = "hide" /\ IsLabel(b)
    /\ label' = [label EXCEPT ![b].hidden = TRUE]
    /\ LabelEnd(r)
    /\ UNCHANGED <<labelsMade, use, used, labelOverlap, labelBegun>>

\* charges hold their type (Restrict), entries lose their category (SetNull)
DropLabel(r) ==
    LET b == labelMem[r].of IN
    /\ labelPc[r] = "drop" /\ IsLabel(b)
    /\ label[b].category \/ UsesOf(b) = {}
    /\ label' = [label EXCEPT ![b] = None]
    /\ use' = [u \in Uses |-> IF use[u] = b THEN None ELSE use[u]]
    /\ LabelEnd(r)
    /\ UNCHANGED <<labelsMade, used, labelOverlap, labelBegun>>

-----------------------------------------------------------------------------
LabelRefused(r) ==
    LET m == labelMem[r] IN
    \/ labelPc[r] # "idle" /\ m.of # None /\ ~IsLabel(m.of)
    \/ labelPc[r] = "write" /\ m.of = None /\ ~m.category /\ Named(m.name, FALSE) # {}
    \/ labelPc[r] = "rename" /\ ~m.category /\ ~(Named(m.name, FALSE) \subseteq {m.of})
    \/ labelPc[r] = "drop" /\ IsLabel(m.of) /\ ~label[m.of].category /\ UsesOf(m.of) # {}

RefuseLabel(r) ==
    /\ LabelRefused(r)
    /\ LabelEnd(r)
    /\ UNCHANGED <<labelRows, labelOverlap, labelBegun>>

LabelInit ==
    /\ label = [b \in Labels |-> None] /\ labelsMade = {}
    /\ use = [u \in Uses |-> None] /\ used = {}
    /\ labelPc = [r \in Requests |-> "idle"] /\ labelMem = [r \in Requests |-> LabelBlank]
    /\ labelOverlap \in BOOLEAN /\ labelBegun = 0

LabelNext ==
    \/ \E u \in Uses, b \in Labels : UseLabel(u, b)
    \/ \E r \in Requests :
        \/ WriteLabel(r) \/ Rename(r) \/ HideLabel(r) \/ DropLabel(r) \/ RefuseLabel(r)
        \/ \E n \in LabelNames, category \in BOOLEAN : BeginCreateLabel(r, n, category)
        \/ \E b \in Labels, n \in LabelNames, hidden \in BOOLEAN : BeginRename(r, b, n, hidden)
        \/ \E b \in Labels : BeginRemoveLabel(r, b)

LabelSpec == LabelInit /\ [][LabelNext]_labelVars

-----------------------------------------------------------------------------
(* Properties.                                                             *)

\* Every column and every local of a request has its type.
LabelTypeOK ==
    /\ label \in [Labels -> LabelRow \cup {None}]
    /\ use \in [Uses -> Labels \cup {None}] /\ used \subseteq Uses
    /\ labelPc \in [Requests -> {"idle", "write", "rename", "hide", "drop"}]
    /\ labelMem \in [Requests -> LabelLocal]

\* What pointed at a label points at it still ("old movements keep the name of their
\* item", expense-categories.repository.ts:11): a charge always, an entry as long as
\* nobody writes one while its category is being removed.  Two charge types never have
\* one name.
LabelsKept ==
    /\ \A u \in used : use[u] = None => labelOverlap
    /\ \A u \in Uses : use[u] # None => IsLabel(use[u])
    /\ \A b, c \in Labels : IsLabel(b) /\ IsLabel(c) /\ b # c /\ ~label[b].category /\ ~label[c].category =>
          label[b].name # label[c].name

=============================================================================
