----------------------------- MODULE PublicForm -----------------------------
(* A published admissions form, filled in by families without an account    *)
(* (packages/api/src/routes/public-forms.ts and the functions of migrations *)
(* 0028, 0029 and 0070), the files they attach, and the clean-up of stored  *)
(* files (packages/api/src/stored-object-cleanup.ts).                       *)
(*                                                                          *)
(* A page is a browser tab with the form open: it has an idempotency key,   *)
(* it may know the continuation link of a draft, and it may hold the        *)
(* document of the file question.  The token of a draft is in its link, so  *)
(* a page that knows the draft knows both.  A request is one call of the    *)
(* route; the database checks its file in a query of its own before the     *)
(* query that saves the form, and the bytes of a file are outside the       *)
(* database.                                                                *)
EXTENDS Naturals, FiniteSets

CONSTANTS
    Pages,
    Forms,          \* rows of admissions_form_submissions
    Filings,        \* rows of admissions_applications or admissions_enquiries
    Documents,      \* rows of admissions_form_documents, each with its stored object
    Definitions,    \* published forms, and the rows that bound what is done with each
    None,
    MaxCalls,       \* bound: requests of one page in flight
    MaxFailures     \* bound: crashes, lost answers to the server, failed erasures

ASSUME FormAssumption ==
    /\ Definitions \subseteq
            [type : {"enquiry", "application"}, required : BOOLEAN,
             forms : SUBSET Forms, documents : SUBSET Documents]
    /\ MaxCalls \in Nat /\ MaxFailures \in Nat
    /\ None \notin Pages \cup Forms \cup Filings \cup Documents

VARIABLES
    definition, \* the form: its type, and whether its file question must be answered
    form,       \* the row of each submission
    filing,     \* the status of each application or enquiry, "none" for no row
    known,      \* the draft whose link a page has, or None
    answer,     \* the document a page answers the file question with, or None
    calls,      \* requests whose file has been checked and whose form is not saved
    doc,        \* the row of each document, its stored object and its upload
    cleaner,    \* the document the clean-up is at, and what it does next
    failures

formVars == <<definition, form, filing, known, answer, calls, doc, cleaner, failures>>
submissionVars == <<definition, form, filing, known, calls>>
fileVars == <<doc, cleaner, failures>>

FilingStatus == {"draft", "open", "submitted", "information_required", "under_review", "withdrawn"}
ObjectStatus == {"none", "pending", "active", "rejected", "deleted"}

\* `key` is idempotency_hash, `file` the document in answers; `sender` is the
\* page whose final request was accepted.
NoForm == [state |-> "none", key |-> None, filing |-> None, file |-> None, sender |-> None]
FormRows ==
    [state : {"none", "draft", "lapsed", "submitted"}, key : Pages \cup {None},
     filing : Filings \cup {None}, file : Documents \cup {None}, sender : Pages \cup {None}]

\* `live` is deleted_at is null; `step` is what the upload request does next.
NoDocument ==
    [of |-> None, by |-> None, live |-> FALSE, object |-> "none", bytes |-> FALSE, step |-> "over"]
DocumentRows ==
    [of : Forms \cup {None}, by : Pages \cup {None}, live : BOOLEAN, object : ObjectStatus,
     bytes : BOOLEAN, step : {"put", "complete", "reject", "erase", "over"}]

\* A draft may not have the child's name yet.
Calls ==
    [page : Pages, kind : {"nameless", "draft", "final"}, of : Forms \cup {None},
     file : Documents \cup {None}]

FormTypeOK ==
    /\ definition \in Definitions
    /\ form \in [Forms -> FormRows]
    /\ filing \in [Filings -> FilingStatus \cup {"none"}]
    /\ known \in [Pages -> Forms \cup {None}]
    /\ answer \in [Pages -> Documents \cup {None}]
    /\ calls \subseteq Calls
    /\ doc \in [Documents -> DocumentRows]
    /\ cleaner \in [at : Documents \cup {None}, step : {"idle", "erase", "mark", "unlink"}]
    /\ failures \in 0 .. MaxFailures

FormInit ==
    /\ definition \in Definitions
    /\ form = [f \in Forms |-> NoForm]
    /\ filing = [a \in Filings |-> "none"]
    /\ known = [p \in Pages |-> None]
    /\ answer = [p \in Pages |-> None]
    /\ calls = {}
    /\ doc = [d \in Documents |-> NoDocument]
    /\ cleaner = [at |-> None, step |-> "idle"]
    /\ failures = 0

\* A failure, of which there are at most MaxFailures.
Failure == failures < MaxFailures /\ failures' = failures + 1

-----------------------------------------------------------------------------
(* Checking the file of a request.                                          *)

IsDraft(f) == f # None /\ form[f].state = "draft"

\* A document of the draft that is there and whose stored object is active.
Usable(d, f) == doc[d].of = f /\ doc[d].live /\ doc[d].object = "active"

\* assertPublicFormFileAnswers: nothing is asked when no file is attached or needed.
FileChecked(c) ==
    /\ c.file = None => ~(definition.required /\ c.kind = "final")
    /\ c.file # None => IsDraft(c.of) /\ Usable(c.file, c.of)

\* Only the draft of an application asks whether the child has a name yet.
Kinds == {"draft", "final"} \cup (IF definition.type = "application" THEN {"nameless"} ELSE {})

\* A page saves its draft, or sends the form, with what it knows.
Ask(p, kind) ==
    LET c == [page |-> p, kind |-> kind, of |-> known[p], file |-> answer[p]]
    IN  /\ kind \in Kinds
        /\ Cardinality({x \in calls : x.page = p}) < MaxCalls
        /\ FileChecked(c)
        /\ calls' = calls \cup {c}
        /\ UNCHANGED <<definition, form, filing, known, answer, doc, cleaner, failures>>

-----------------------------------------------------------------------------
(* submit_public_admissions_form.  The row of the form type is locked, so   *)
(* calls come one after another.                                            *)

SameKey(c) == {f \in Forms : form[f].state # "none" /\ form[f].key = c.page}
Replayed(c) == {f \in SameKey(c) : form[f].state = "submitted"}

\* The next new row, if the bound leaves one.
NewOf(rows) == IF rows = {} THEN {} ELSE {CHOOSE x \in rows : TRUE}
NewForm == NewOf({f \in definition.forms : form[f].state = "none"})
NewFiling == NewOf({a \in Filings : filing[a] = "none"})

\* The row a call saves: the draft of its link, the draft its final request
\* finds by its key, or a new row, since the token of a new draft is unknown.
RowsFor(c) ==
    IF c.of # None THEN {f \in {c.of} : IsDraft(f)}
    ELSE IF c.kind = "final" /\ SameKey(c) # {} THEN SameKey(c)
    ELSE NewForm

\* Mutant: the key goes with the token when the form is sent.
KeyOfDrafts(f, c) == IF c.kind = "final" THEN None ELSE c.page

\* The unique index on the idempotency key, which every saving of a row stores.
KeyFor(f, c) == c.page

KeyIsFree(f, c) == \A g \in Forms \ {f} : form[g].key \notin {KeyFor(f, c)} \ {None}

\* Whether an application or an enquiry is made of the row.
MakesFiling(f, c) ==
    /\ c.kind = "final" \/ (definition.type = "application" /\ c.kind = "draft")
    /\ form[f].filing = None

NewFilingStatus(c) ==
    IF definition.type = "enquiry" THEN "open"
    ELSE IF c.kind = "final" THEN "submitted" ELSE "draft"

\* Mutant: the status is set whatever it was.
SubmitsAnyFiling(a) == filing[a] # "none"

\* admissions_status_transition_allowed(status, 'submitted'), or no change.
MaySubmit(a) == filing[a] \in {"draft", "information_required", "submitted"}

Saved(f, c, a) ==
    [form EXCEPT ![f] =
        [state |-> IF c.kind = "final" THEN "submitted" ELSE "draft",
         key |-> KeyFor(f, c), filing |-> a, file |-> c.file,
         sender |-> IF c.kind = "final" THEN c.page ELSE None]]

\* The row f is saved and so is what it files.
Save(f, c) ==
    /\ KeyIsFree(f, c)
    /\ IF MakesFiling(f, c)
       THEN \E a \in NewFiling :
                /\ filing' = [filing EXCEPT ![a] = NewFilingStatus(c)]
                /\ form' = Saved(f, c, a)
       ELSE /\ form' = Saved(f, c, form[f].filing)
            /\ IF c.kind = "final"
               THEN MaySubmit(form[f].filing)
                    /\ filing' = [filing EXCEPT ![form[f].filing] = "submitted"]
               ELSE UNCHANGED filing

\* The answer to a saved draft gives the page its link; it may be lost.
Learns(p, f) == known' = known \/ known' = [known EXCEPT ![p] = f]

SubmitForm(c) ==
    /\ calls' = calls \ {c}
    /\ \/ /\ Replayed(c) = {}
          /\ \E f \in RowsFor(c) :
                Save(f, c) /\ (IF c.kind = "final" THEN UNCHANGED known ELSE Learns(c.page, f))
       \/ UNCHANGED <<form, filing, known>>      \* replayed, refused, or never run
    /\ UNCHANGED <<definition, answer, doc, cleaner, failures>>

\* The link of a draft is opened in another tab, which loads its answers.
OpenLink(p, q) ==
    /\ known[p] = None /\ IsDraft(known[q])
    /\ known' = [known EXCEPT ![p] = known[q]]
    /\ answer' = [answer EXCEPT ![p] = form[known[q]].file]
    /\ UNCHANGED <<definition, form, filing, calls, doc, cleaner, failures>>

\* Seven days pass after a draft was saved.
Lapse(f) ==
    /\ IsDraft(f)
    /\ form' = [form EXCEPT ![f].state = "lapsed"]
    /\ UNCHANGED <<definition, filing, known, answer, calls, doc, cleaner, failures>>

\* Staff work on an application while the family fills in its draft: what they
\* do once it is sent is AdmissionsWorkflow's.
StaffMoves(from) ==
    CASE from = "draft" -> {"submitted", "withdrawn"}
      [] from = "submitted" -> {"under_review", "information_required", "withdrawn"}
      [] from = "information_required" -> {"submitted", "under_review", "withdrawn"}
      [] from = "under_review" -> {"information_required", "withdrawn"}
      [] from = "withdrawn" -> {"draft", "under_review"}
      [] OTHER -> {}

StaffMove(a, to) ==
    /\ \E f \in Forms : form[f].filing = a /\ form[f].state # "submitted"
    /\ to \in StaffMoves(filing[a])
    /\ filing' = [filing EXCEPT ![a] = to]
    /\ UNCHANGED <<definition, form, known, answer, calls, doc, cleaner, failures>>

-----------------------------------------------------------------------------
(* Uploading a document to a draft, and taking it out again.                *)

UploadOnly == UNCHANGED <<definition, form, filing, known, calls, cleaner>>

\* register_public_form_document: a pending object, and its row, for a draft.
Register(p, d) ==
    /\ d \in definition.documents /\ doc[d].object = "none" /\ IsDraft(known[p])
    /\ doc' = [doc EXCEPT ![d] = [of |-> known[p], by |-> p, live |-> TRUE,
                                  object |-> "pending", bytes |-> FALSE, step |-> "put"]]
    /\ UploadOnly /\ UNCHANGED <<answer, failures>>

\* The bytes are stored; or they are not, or the scanner refuses them.
Put(d) ==
    /\ doc[d].step = "put"
    /\ \/ doc' = [doc EXCEPT ![d].bytes = TRUE, ![d].step = "complete"]
       \/ \E b \in BOOLEAN : doc' = [doc EXCEPT ![d].bytes = b, ![d].step = "reject"]
    /\ UploadOnly /\ UNCHANGED <<answer, failures>>

\* complete_public_form_document, which raises unless this holds.
MayComplete(d) == IsDraft(doc[d].of) /\ doc[d].object = "pending"

\* The page learns its document; or the answer of the database is lost, which
\* the route takes for a failure.
Complete(d) ==
    /\ doc[d].step = "complete"
    /\ \/ /\ MayComplete(d)
          /\ doc' = [doc EXCEPT ![d].object = "active", ![d].step = "over", ![d].by = None]
          /\ answer' = [answer EXCEPT ![doc[d].by] = d]
          /\ UNCHANGED failures
       \/ /\ MayComplete(d) /\ Failure
          /\ doc' = [doc EXCEPT ![d].object = "active", ![d].step = "reject"]
          /\ UNCHANGED answer
       \/ /\ ~MayComplete(d)
          /\ doc' = [doc EXCEPT ![d].step = "reject"]
          /\ UNCHANGED <<answer, failures>>
    /\ UploadOnly

\* Mutant: the object of a rejected upload is left active, so that the clean-up
\* does not come to it.
LeavesItActive(d) == [doc[d] EXCEPT !.object = "active", !.live = FALSE, !.step = "erase"]

\* reject_public_form_document.
RejectedRow(d) ==
    [doc[d] EXCEPT !.object = IF @ = "pending" THEN "rejected" ELSE @,
                   !.live = FALSE, !.step = "erase"]

Reject(d) ==
    /\ doc[d].step = "reject"
    /\ doc' = [doc EXCEPT ![d] = RejectedRow(d)]
    /\ UploadOnly /\ UNCHANGED <<answer, failures>>

\* The bytes of a rejected or a deleted document go; a failure is ignored.
Erase(d) ==
    /\ doc[d].step = "erase"
    /\ \/ doc' = [doc EXCEPT ![d].bytes = FALSE, ![d].step = "over", ![d].by = None] /\ UNCHANGED failures
       \/ doc' = [doc EXCEPT ![d].step = "over", ![d].by = None] /\ Failure
    /\ UploadOnly /\ UNCHANGED answer

\* The process dies in the middle of a request.
UploadCrash(d) ==
    /\ doc[d].step # "over" /\ Failure
    /\ doc' = [doc EXCEPT ![d].step = "over", ![d].by = None]
    /\ UploadOnly /\ UNCHANGED answer

\* A page takes its document out: delete_public_form_document.  The page gives
\* it up whatever the answer.
Remove(p) ==
    LET d == answer[p]
    IN  /\ d # None
        /\ answer' = [answer EXCEPT ![p] = None]
        /\ IF doc[d].live /\ doc[d].of = known[p] /\ IsDraft(known[p])
           THEN doc' = [doc EXCEPT ![d].live = FALSE, ![d].object = "deleted",
                                   ![d].step = "erase"]
           ELSE UNCHANGED doc
        /\ UploadOnly /\ UNCHANGED failures

-----------------------------------------------------------------------------
(* cleanupStoredObjects.  An object is pending for 24 hours before it is    *)
(* taken up, which is longer than its upload lasts; how long rejected and   *)
(* deleted objects are kept is left open.                                   *)

Forgotten(d) ==
    /\ doc[d].step = "over"
    /\ \/ doc[d].object = "pending"
       \/ doc[d].object \in {"rejected", "deleted"} /\ ~doc[d].live

CleanerOnly == UNCHANGED <<definition, form, filing, known, answer, calls>>

TakeUp(d) ==
    /\ cleaner.at = None /\ Forgotten(d)
    /\ cleaner' = [at |-> d, step |-> "erase"]
    /\ CleanerOnly /\ UNCHANGED <<doc, failures>>

\* The bytes, then the object, then the row of the document.
CleanErase ==
    /\ cleaner.step = "erase"
    /\ \/ doc' = [doc EXCEPT ![cleaner.at].bytes = FALSE] /\ UNCHANGED failures
       \/ UNCHANGED doc /\ Failure
    /\ cleaner' = [cleaner EXCEPT !.step = "mark"]
    /\ CleanerOnly

CleanMark ==
    /\ cleaner.step = "mark"
    /\ doc' = [doc EXCEPT ![cleaner.at].object = IF @ = "active" THEN @ ELSE "deleted"]
    /\ cleaner' = [cleaner EXCEPT !.step = "unlink"]
    /\ CleanerOnly /\ UNCHANGED failures

CleanUnlink ==
    /\ cleaner.step = "unlink"
    /\ doc' = [doc EXCEPT ![cleaner.at].live = FALSE]
    /\ cleaner' = [at |-> None, step |-> "idle"]
    /\ CleanerOnly /\ UNCHANGED failures

CleanerCrash ==
    /\ cleaner.at # None /\ Failure
    /\ cleaner' = [at |-> None, step |-> "idle"]
    /\ CleanerOnly /\ UNCHANGED doc

-----------------------------------------------------------------------------
UploadStep(d) == Put(d) \/ Complete(d) \/ Reject(d) \/ Erase(d)
CleanerStep == CleanErase \/ CleanMark \/ CleanUnlink

FormNext ==
    \/ \E p \in Pages, kind \in {"nameless", "draft", "final"} : Ask(p, kind)
    \/ \E c \in calls : SubmitForm(c)
    \/ \E p, q \in Pages : OpenLink(p, q)
    \/ \E f \in Forms : Lapse(f)
    \/ \E a \in Filings, to \in FilingStatus : StaffMove(a, to)
    \/ \E p \in Pages, d \in Documents : Register(p, d)
    \/ \E p \in Pages : Remove(p)
    \/ \E d \in Documents : Put(d) \/ Complete(d) \/ Reject(d) \/ Erase(d)
    \/ \E d \in Documents : UploadCrash(d)
    \/ \E d \in Documents : TakeUp(d)
    \/ CleanErase \/ CleanMark \/ CleanUnlink
    \/ CleanerCrash

FormSpec == FormInit /\ [][FormNext]_formVars

\* A request runs until it ends or the process dies; the clean-up is scheduled
\* again and again and takes up a row that it selects and that waits for it.
FormFairness ==
    /\ \A d \in Documents : WF_formVars(UploadStep(d)) /\ WF_formVars(TakeUp(d))
    /\ WF_formVars(CleanerStep)

FairFormSpec == FormSpec /\ FormFairness

-----------------------------------------------------------------------------
\* What a form files belongs to it alone, and a form that was sent has filed:
\* however often a draft is saved, a link is shared or a request is repeated,
\* the school sees one application (submit_public_admissions_form).
OneFilingPerForm ==
    /\ \A a \in Filings :
        filing[a] # "none" => Cardinality({f \in Forms : form[f].filing = a}) = 1
    /\ \A f \in Forms : form[f].state = "submitted" => form[f].filing # None

\* A family that repeats its final request, because the answer was lost, sends
\* one form (idempotency_hash and its unique index; security/public-admissions-forms.md).
SentOncePerPage == \A p \in Pages : Cardinality({f \in Forms : form[f].sender = p}) <= 1

\* A document a family can see attached is a document staff can download: the
\* bytes of an active object are there as long as its row is, whatever of
\* upload, removal and clean-up is half done.
AttachedFileIsThere == \A d \in Documents : doc[d].live /\ doc[d].object = "active" => doc[d].bytes

\* What was sent to the school is not changed by a page that still has the link
\* of its draft, nor by a repeated request (submit_public_admissions_form).
SentIsFinal == [][\A f \in Forms : form[f].state = "submitted" => form'[f] = form[f]]_formVars

\* A family that sends its draft does not undo what staff decided about the
\* application meanwhile (admissions_applications_integrity_tg).
StaffHaveTheSay ==
    [][form' # form =>
        \A a \in Filings : filing[a] \in {"under_review", "withdrawn"} => filing'[a] = filing[a]]_formVars

DeadFile(d) ==
    doc[d].object # "none" /\ doc[d].step = "over" /\ (doc[d].object # "active" \/ ~doc[d].live)

\* The bytes of a document that was rejected, taken out, or left pending are
\* removed in the end, after any one crash, lost answer or failed erasure
\* (reject_public_form_document, cleanupStoredObjects).
DeadFilesGo == \A d \in Documents : DeadFile(d) ~> ~doc[d].bytes

\* The rows of the public form have their types; a form files once, a page sends
\* once, and a file that is shown is there.
FormInv == FormTypeOK /\ OneFilingPerForm /\ SentOncePerPage /\ AttachedFileIsThere

\* What was sent is final, and what staff decided of it stands.
SentStands == SentIsFinal /\ StaffHaveTheSay
=============================================================================
