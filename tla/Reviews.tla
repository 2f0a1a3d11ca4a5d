-------------------------------- MODULE Reviews --------------------------------
(***************************************************************************)
(* The activity log: an interceptor around every handler reads the record  *)
(* before, lets the handler write, and logs what it wrote afterwards,      *)
(* without anybody waiting for it.  The owner approves or rejects what the *)
(* others changed, a rejected change of plain fields is taken back, and    *)
(* creations and deletions are undone from the log.                        *)
(***************************************************************************)
EXTENDS Office, Sequences, FiniteSets

CONSTANTS
    Records,        \* uids of records of the office
    KindOf,         \* the kind of each record
    Fields,         \* the fields that the log compares
    FieldValues,
    MaxLogged,      \* bound of the model: the entries ever logged
    MaxReviewBegun  \* bound of the model: requests begun where they may overlap

RecordKinds == {"product", "order", "trip", "invoice", "deal", "party"}

RecordType == [fields : [Fields -> FieldValues], rows : SUBSET {"items", "payments", "entries", "charges", "requests"}]
Diffs == UNION {[fs -> [from : FieldValues, to : FieldValues]] : fs \in SUBSET Fields}
LogEntry == [of : Records, do : {"CREATE", "UPDATE", "DELETE"}, diff : Diffs,
             snapshot : RecordType \cup {None}, status : {"none", "PENDING", "APPROVED", "REJECTED"}]
ReviewLocal == [of : Records \cup {None}, do : {"none", "CREATE", "UPDATE", "DELETE"}, admin : BOOLEAN,
                set : [Fields -> FieldValues] \cup {<<>>}, diff : Diffs,
                before : RecordType \cup {None}, body : RecordType \cup {None},
                entry : Nat, verdict : {"none", "APPROVED", "REJECTED"}]

ASSUME ReviewAssumption ==
    /\ KindOf \in [Records -> RecordKinds]
    /\ {MaxLogged, MaxReviewBegun} \subseteq Nat
    /\ None \notin Records \cup FieldValues \cup RecordType \cup LogEntry

\* the kinds whose rejected changes are taken back: their fields carry no lines or entries
Revertible == {"product", "order", "trip", "party"}

\* the rows that go with a record when it is deleted, and those an undo writes again
RecordRows == [product |-> {}, order |-> {"items"}, trip |-> {"payments", "entries"},
           invoice |-> {"items", "charges", "entries"},
           deal |-> {"items", "charges", "entries"},
           party |-> {"entries", "requests"}]
RowsRestored == [product |-> {}, order |-> {"items"}, trip |-> {"payments"},
                 invoice |-> {"items", "entries"},
                 deal |-> {"items", "charges", "entries"},
                 party |-> {"entries", "requests"}]

VARIABLES
    rec,            \* None, or the fields and the rows of the record
    recsMade,       \* no uid is made twice
    logged,         \* AuditLog: None where an undo deleted the entry
    reviewPc, reviewMem,
    reviewOverlap,  \* requests may be in progress together (fixed from the start)
    reviewBegun, reviewCuts

reviewRows == <<rec, recsMade, logged>>
reviewVars == <<reviewRows, reviewPc, reviewMem, reviewOverlap, reviewBegun, reviewCuts>>

Entries == {e \in 1 .. Len(logged) : logged[e] # None}
ReviewBlank == [of |-> None, do |-> "none", admin |-> FALSE, set |-> <<>>, diff |-> <<>>,
                before |-> None, body |-> None, entry |-> 0, verdict |-> "none"]

ReviewGoto(r, l) == reviewPc' = [reviewPc EXCEPT ![r] = l]
ReviewRemember(r, m) == reviewMem' = [reviewMem EXCEPT ![r] = m]
ReviewEnd(r) == ReviewGoto(r, "idle") /\ ReviewRemember(r, ReviewBlank)
ReviewsIdle == \A r \in Requests : reviewPc[r] = "idle"
EnterReview(r) ==
    /\ reviewPc[r] = "idle"
    /\ IF reviewOverlap THEN reviewBegun < MaxReviewBegun /\ reviewBegun' = reviewBegun + 1
                        ELSE ReviewsIdle /\ UNCHANGED reviewBegun

-----------------------------------------------------------------------------
(* A handler between its two parts of the interceptor.                     *)

\* changes and deletions of a record start from what it holds, None if it is gone
BeginHandler(r, u, do, set, admin) ==
    /\ EnterReview(r)
    /\ Len(logged) < MaxLogged
    /\ IF do = "CREATE" THEN u \notin recsMade ELSE rec[u] # None
    /\ ReviewGoto(r, "handle")
    /\ ReviewRemember(r, [ReviewBlank EXCEPT !.of = u, !.do = do, !.admin = admin, !.set = set,
                                             !.before = rec[u]])
    /\ UNCHANGED <<reviewRows, reviewOverlap, reviewCuts>>

Patched(x, set) == [x EXCEPT !.fields = [f \in Fields |-> IF f \in DOMAIN set THEN set[f] ELSE @[f]]]

HandleRequest(r) ==
    LET m == reviewMem[r]  u == m.of IN
    /\ reviewPc[r] = "handle"
    /\ \/ /\ m.do = "CREATE" /\ u \notin recsMade
          /\ rec' = [rec EXCEPT ![u] = [fields |-> m.set, rows |-> RecordRows[KindOf[u]]]]
       \/ /\ m.do = "UPDATE" /\ rec[u] # None
          /\ rec' = [rec EXCEPT ![u] = Patched(@, m.set)]
       \/ /\ m.do = "DELETE" /\ rec[u] # None
          /\ rec' = [rec EXCEPT ![u] = None]
    /\ recsMade' = recsMade \cup {u}
    /\ ReviewGoto(r, "log")
    /\ ReviewRemember(r, [m EXCEPT !.body = rec'[u]])
    /\ UNCHANGED <<logged, reviewOverlap, reviewBegun, reviewCuts>>

\* what the answer holds and the record before it did not
Diff(before, body) ==
    [f \in {f \in Fields : before.fields[f] # body.fields[f]} |->
        [from |-> before.fields[f], to |-> body.fields[f]]]

WriteLog(r) ==
    LET m == reviewMem[r]
        changed == IF m.do = "UPDATE" THEN Diff(m.before, m.body) ELSE <<>> IN
    /\ reviewPc[r] = "log" /\ Len(logged) < MaxLogged
    /\ logged' = Append(logged,
          [of |-> m.of, do |-> m.do, diff |-> changed,
           snapshot |-> IF m.do = "DELETE" THEN m.before ELSE None,
           status |-> IF m.do = "UPDATE" /\ ~m.admin THEN "PENDING" ELSE "none"])
    /\ ReviewEnd(r)
    /\ UNCHANGED <<rec, recsMade, reviewOverlap, reviewBegun, reviewCuts>>

\* nobody waits for the log: the server may stop before it is written
CutLog(r) ==
    /\ reviewPc[r] = "log" /\ reviewCuts < MaxCuts
    /\ reviewCuts' = reviewCuts + 1
    /\ ReviewEnd(r)
    /\ UNCHANGED <<reviewRows, reviewOverlap, reviewBegun>>

-----------------------------------------------------------------------------
(* The owner looks a change over, and takes it back or lets it stand.      *)

Awaited(e) == logged[e].do = "UPDATE" /\ logged[e].status = "PENDING"
TakesBack(e, verdict) ==
    verdict = "REJECTED" /\ KindOf[logged[e].of] \in Revertible /\ DOMAIN logged[e].diff # {}

BeginReview(r, e, verdict) ==
    /\ EnterReview(r)
    /\ Awaited(e)
    /\ ReviewGoto(r, IF TakesBack(e, verdict) THEN "look" ELSE "mark")
    /\ ReviewRemember(r, [ReviewBlank EXCEPT !.of = logged[e].of, !.entry = e, !.verdict = verdict,
                                             !.diff = logged[e].diff])
    /\ UNCHANGED <<reviewRows, reviewOverlap, reviewCuts>>

\* mutant: a change that was changed since is taken back like any other
LeftAnything(u, diff) == rec[u] # None
\* the record holds in every field what the change had left there
LeftAlone(u, diff) == rec[u] # None /\ \A f \in DOMAIN diff : rec[u].fields[f] = diff[f].to

LookSince(r) ==
    LET m == reviewMem[r] IN
    /\ reviewPc[r] = "look"
    /\ LeftAlone(m.of, m.diff)
    /\ ReviewGoto(r, "revert")
    /\ UNCHANGED <<reviewRows, reviewMem, reviewOverlap, reviewBegun, reviewCuts>>

RevertUpdate(r) ==
    LET m == reviewMem[r] IN
    /\ reviewPc[r] = "revert" /\ rec[m.of] # None
    /\ rec' = [rec EXCEPT ![m.of] = Patched(@, [f \in DOMAIN m.diff |-> m.diff[f].from])]
    /\ ReviewGoto(r, "mark")
    /\ UNCHANGED <<recsMade, logged, reviewMem, reviewOverlap, reviewBegun, reviewCuts>>

MarkReviewed(r) ==
    LET m == reviewMem[r] IN
    /\ reviewPc[r] = "mark" /\ logged[m.entry] # None
    /\ logged' = [logged EXCEPT ![m.entry].status = m.verdict]
    /\ ReviewEnd(r)
    /\ UNCHANGED <<rec, recsMade, reviewOverlap, reviewBegun, reviewCuts>>

-----------------------------------------------------------------------------
(* Undo: what was created is deleted, what was deleted is written again.   *)

BeginUndo(r, e) ==
    /\ EnterReview(r)
    /\ logged[e].do \in {"CREATE", "DELETE"}
    /\ ReviewGoto(r, IF logged[e].do = "CREATE" THEN "uncreate" ELSE "restore")
    /\ ReviewRemember(r, [ReviewBlank EXCEPT !.of = logged[e].of, !.entry = e,
                                             !.before = logged[e].snapshot])
    /\ UNCHANGED <<reviewRows, reviewOverlap, reviewCuts>>

DeleteCreated(r) ==
    LET u == reviewMem[r].of IN
    /\ reviewPc[r] = "uncreate" /\ rec[u] # None
    /\ rec' = [rec EXCEPT ![u] = None]
    /\ ReviewGoto(r, "unlog")
    /\ UNCHANGED <<recsMade, logged, reviewMem, reviewOverlap, reviewBegun, reviewCuts>>

RestoreEntity(r) ==
    LET m == reviewMem[r] IN
    /\ reviewPc[r] = "restore" /\ rec[m.of] = None
    /\ rec' = [rec EXCEPT ![m.of] =
          [m.before EXCEPT !.rows = @ \cap RowsRestored[KindOf[m.of]]]]
    /\ ReviewGoto(r, "unlog")
    /\ UNCHANGED <<recsMade, logged, reviewMem, reviewOverlap, reviewBegun, reviewCuts>>

DeleteEntry(r) ==
    LET e == reviewMem[r].entry IN
    /\ reviewPc[r] = "unlog" /\ logged[e] # None
    /\ logged' = [logged EXCEPT ![e] = None]
    /\ ReviewEnd(r)
    /\ UNCHANGED <<rec, recsMade, reviewOverlap, reviewBegun, reviewCuts>>

\* the record or the entry a step needs is gone, or the record is there already
ReviewRefused(r) ==
    LET m == reviewMem[r] IN
    \/ reviewPc[r] = "handle" /\ (IF m.do = "CREATE" THEN m.of \in recsMade ELSE rec[m.of] = None)
    \/ reviewPc[r] = "look" /\ ~LeftAlone(m.of, m.diff)
    \/ reviewPc[r] \in {"revert", "uncreate"} /\ rec[m.of] = None
    \/ reviewPc[r] = "restore" /\ rec[m.of] # None
    \/ reviewPc[r] \in {"mark", "unlog"} /\ logged[m.entry] = None
    \/ reviewPc[r] = "log" /\ Len(logged) = MaxLogged

RefuseReview(r) ==
    /\ ReviewRefused(r)
    /\ ReviewEnd(r)
    /\ UNCHANGED <<reviewRows, reviewOverlap, reviewBegun, reviewCuts>>

ReviewInit ==
    /\ rec = [u \in Records |-> None] /\ recsMade = {} /\ logged = <<>>
    /\ reviewPc = [r \in Requests |-> "idle"] /\ reviewMem = [r \in Requests |-> ReviewBlank]
    /\ reviewOverlap \in BOOLEAN /\ reviewBegun = 0 /\ reviewCuts = 0

ReviewNext ==
    \E r \in Requests :
        \/ \E u \in Records, admin \in BOOLEAN :
            \/ \E set \in [Fields -> FieldValues] :
                BeginHandler(r, u, "CREATE", set, admin) \/ BeginHandler(r, u, "UPDATE", set, admin)
            \/ BeginHandler(r, u, "DELETE", <<>>, admin)
        \/ HandleRequest(r) \/ WriteLog(r) \/ CutLog(r)
        \/ \E e \in Entries :
            \/ \E verdict \in {"APPROVED", "REJECTED"} : BeginReview(r, e, verdict)
            \/ BeginUndo(r, e)
        \/ LookSince(r) \/ RevertUpdate(r) \/ MarkReviewed(r)
        \/ DeleteCreated(r) \/ RestoreEntity(r) \/ DeleteEntry(r) \/ RefuseReview(r)

ReviewSpec == ReviewInit /\ [][ReviewNext]_reviewVars

-----------------------------------------------------------------------------
(* Properties.                                                             *)

\* Every column and every local of a request has its type.
ReviewTypeOK ==
    /\ rec \in [Records -> RecordType \cup {None}]
    /\ recsMade \subseteq Records
    /\ logged \in Seq(LogEntry \cup {None})
    /\ reviewPc \in [Requests -> {"idle", "handle", "log", "look", "revert", "mark",
                                  "uncreate", "restore", "unlog"}]
    /\ reviewMem \in [Requests -> ReviewLocal]
    /\ reviewCuts \in 0 .. MaxCuts

\* As long as requests do not overlap: what a rejection takes back is what the rejected
\* change itself had left ("if the field was changed again, taking it back would wipe the
\* newer change", audit.service.ts:60-61), a verdict is never given twice, and an undo
\* leaves the record as the log says it was.
Reverted ==
    ~reviewOverlap =>
     /\ \A r \in Requests : reviewPc[r] = "revert" /\ reviewPc'[r] = "mark" =>
           \A f \in DOMAIN reviewMem[r].diff :
              rec[reviewMem[r].of].fields[f] = reviewMem[r].diff[f].to
     /\ \A e \in Entries : logged'[e] # None /\ logged[e].status # "PENDING" =>
           logged'[e].status = logged[e].status
     /\ \A e \in Entries : logged'[e] = None =>
           IF logged[e].do = "CREATE" THEN rec[logged[e].of] = None
           ELSE rec[logged[e].of].fields = logged[e].snapshot.fields
RevertSound == [][Reverted]_reviewVars

\* "If the field was changed again after the rejected change, taking it back would wipe
\* the newer change, so we stop" (audit.service.ts:60-61): what the newest change of a field
\* that was not taken back left there stands, as long as requests do not overlap and
\* every change is logged.  The code compares values: a field that came back to the
\* value of the rejected change counts as unchanged.
TakenBack(e) == logged[e].status = "REJECTED" /\ TakesBack(e, "REJECTED")
Stands(e, f) ==
    /\ logged[e].do = "UPDATE" /\ f \in DOMAIN logged[e].diff /\ ~TakenBack(e)
    /\ \A n \in Entries : n > e /\ logged[n].of = logged[e].of =>
          logged[n].do = "UPDATE" /\ (f \in DOMAIN logged[n].diff => TakenBack(n))
NewestChangeStands ==
    ReviewsIdle /\ ~reviewOverlap /\ reviewCuts = 0 =>
        \A e \in Entries, f \in Fields : Stands(e, f) /\ rec[logged[e].of] # None =>
            rec[logged[e].of].fields[f] = logged[e].diff[f].to

\* "Full entity snapshot, captured BEFORE a DELETE (for undo/restore)"
\* (audit.interceptor.ts:161-163): a record that stands has all its rows, also after an undo.
UndoneWhole ==
    \A u \in Records : rec[u] # None => rec[u].rows = RecordRows[KindOf[u]]

=============================================================================
