------------------------------ MODULE PupilReports ------------------------------
(***************************************************************************)
(* One pupil report, its working copy and its publications:                *)
(* routes/assessments.ts and the triggers of migrations 0019 and 0020.     *)
(*                                                                         *)
(* The comment is a column of the report's own row; the sections are rows  *)
(* of their own, whose trigger reads the status of the report without      *)
(* locking it.  A section that is being saved may therefore pass its check *)
(* and commit after a publication has read the sections.                   *)
(***************************************************************************)
EXTENDS Naturals, Sequences

CONSTANTS
  ReportTexts,     \* what a comment or the sections may say; Blank is what they say first
  Blank,
  Editors,         \* requests that may be in flight at once
  MaxPublications  \* bound: publications of the report

ASSUME BlankAssumption == Blank \in ReportTexts /\ MaxPublications \in Nat \ {0}

VARIABLES
  report,          \* status and comment
  sections,        \* the committed text of the sections
  publications,    \* academic_report_publications, oldest first
  editors,         \* the requests in flight
  crossed          \* history: a section was saved across the publication that is shown

reportVars == <<report, sections, publications, editors, crossed>>

ReportStatuses == {"draft", "submitted_for_review", "approved", "published", "archived"}
ReportLocked == {"published", "archived"}
NoEdit == [op |-> "none"]

ReportsTypeOK ==
  /\ report \in [status : ReportStatuses, comment : ReportTexts]
  /\ sections \in ReportTexts
  /\ publications \in Seq([comment : ReportTexts, sections : ReportTexts])
  /\ Len(publications) <= MaxPublications
  /\ \A e \in Editors : editors[e].op \in {"none", "section", "publish"}
  /\ crossed \in BOOLEAN

ReportsInit ==
  /\ report = [status |-> "draft", comment |-> Blank]
  /\ sections = Blank
  /\ publications = <<>>
  /\ editors = [e \in Editors |-> NoEdit]
  /\ crossed = FALSE

-----------------------------------------------------------------------------
(* The status machine and the locks *)

ReportMoves ==
  { <<"draft", "submitted_for_review">>, <<"draft", "published">>, <<"draft", "archived">>,
    <<"submitted_for_review", "approved">>, <<"submitted_for_review", "draft">>,
    <<"approved", "published">>, <<"approved", "draft">>,
    <<"published", "archived">>, <<"archived", "published">> }

ReportAllowed(from, to) == from = to \/ <<from, to>> \in ReportMoves

\* A publication holds the row of the report from its update to its commit; every
\* other update of that row waits.
RowFree == \A e \in Editors : editors[e].op # "publish"

\* Mutant: the trigger on the sections protects archived reports only.
SectionsOpenWhilePublished == report.status # "archived"

SectionsOpen == report.status \notin ReportLocked

-----------------------------------------------------------------------------
(* The actions *)

MoveReport(to) ==
  /\ RowFree
  /\ <<report.status, to>> \in ReportMoves
  /\ report' = [report EXCEPT !.status = to]
  /\ UNCHANGED <<sections, publications, editors, crossed>>

\* The comment may be rewritten in any status that is not locked, also after the
\* report was approved.
WriteComment(text) ==
  /\ RowFree
  /\ report.status \notin ReportLocked
  /\ report' = [report EXCEPT !.comment = text]
  /\ UNCHANGED <<sections, publications, editors, crossed>>

\* Saving a section: the trigger sees the committed status; a second save of the
\* section waits for the first.
SaveSection(e, text) ==
  /\ editors[e] = NoEdit
  /\ SectionsOpen
  /\ \A d \in Editors : editors[d].op # "section"
  /\ editors' = [editors EXCEPT ![e] = [op |-> "section", text |-> text]]
  /\ UNCHANGED <<report, sections, publications, crossed>>

\* The section is committed; if a publication has read the sections by now, what
\* it froze, or has frozen, is not what the section says.
CommitSection(e) ==
  /\ editors[e].op = "section"
  /\ sections' = editors[e].text
  /\ crossed' = (crossed \/ ~SectionsOpen)
  /\ editors' = [d \in Editors |->
                   IF d = e THEN NoEdit
                   ELSE IF editors[d].op = "publish" THEN [editors[d] EXCEPT !.crossed = TRUE]
                   ELSE editors[d]]
  /\ UNCHANGED <<report, publications>>

\* Publishing updates the status, then reads the comment and the sections.
FreezeReport(e) ==
  /\ editors[e] = NoEdit
  /\ RowFree
  /\ Len(publications) < MaxPublications
  /\ ReportAllowed(report.status, "published")
  /\ editors' = [editors EXCEPT ![e] =
                   [op |-> "publish", crossed |-> FALSE,
                    payload |-> [comment |-> report.comment, sections |-> sections]]]
  /\ UNCHANGED <<report, sections, publications, crossed>>

CommitPublication(e) ==
  /\ editors[e].op = "publish"
  /\ report' = [report EXCEPT !.status = "published"]
  /\ publications' = Append(publications, editors[e].payload)
  /\ crossed' = editors[e].crossed
  /\ editors' = [editors EXCEPT ![e] = NoEdit]
  /\ UNCHANGED sections

EditFails(e) ==
  /\ editors[e] # NoEdit
  /\ editors' = [editors EXCEPT ![e] = NoEdit]
  /\ UNCHANGED <<report, sections, publications, crossed>>

ReportsNext ==
  \/ \E to \in {"submitted_for_review", "approved", "archived"} : MoveReport(to)
  \/ \E text \in ReportTexts : WriteComment(text)
  \/ \E e \in Editors :
        \/ \E text \in ReportTexts : SaveSection(e, text)
        \/ CommitSection(e)
        \/ FreezeReport(e)
        \/ CommitPublication(e)
        \/ EditFails(e)

ReportsSpec == ReportsInit /\ [][ReportsNext]_reportVars

-----------------------------------------------------------------------------
(* Properties *)

\* A parent is shown the newest publication of a published or archived report.
Shown == publications[Len(publications)]

\* While the report is locked, staff and parents read the same text, unless a
\* section was saved across the publication.
ShownIsWorkingCopy ==
  report.status \in ReportLocked /\ publications # <<>> /\ ~crossed =>
    Shown = [comment |-> report.comment, sections |-> sections]

\* A published report has something to show, and what was once published is there
\* however the report is archived and published again.
ReportsAreKept ==
  /\ report'.status = "published" => publications' # <<>>
  /\ SubSeq(publications', 1, Len(publications)) = publications
  /\ report.status = "published" => report'.status \in ReportLocked

\* ADR 0017: publishing freezes the report; later edits of the working copy cannot
\* change what a parent already saw (the two formulas above, with the type invariant).
ReportsStand == [](ReportsTypeOK /\ ShownIsWorkingCopy) /\ [][ReportsAreKept]_reportVars
=============================================================================
