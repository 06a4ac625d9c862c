--------------------------- MODULE TimetableLessons ---------------------------
(***************************************************************************)
(* Recurring lessons of one period of one weekday: routes/timetable.ts,    *)
(* domain/src/recurrence-lifecycle.ts, core/src/timetable-lifecycle.ts and *)
(* the triggers of migrations 0027 and 0046.  A day is a date on which the *)
(* weekday falls; an open end is the last day of the academic year.        *)
(*                                                                         *)
(* A request reads the lesson, what refers to it and the date, and decides *)
(* what may be done; then it writes, locking the lessons it changes; the   *)
(* deferred triggers look for clashes when it commits, among the lessons   *)
(* committed by then.  Between these three steps others may commit.        *)
(***************************************************************************)
EXTENDS Integers

CONSTANTS
  Lessons,       \* timetable entries
  Classes,
  Staff,
  Times,         \* times of day; two lessons overlap when theirs are equal
  LastDay,       \* the last day of the academic year
  Links,         \* whether lessons may belong to the period
  Desks,         \* requests in flight
  MaxEvents,     \* bound: requests, covers, marked registers and moves of the period
  None           \* no row

Days == 1..LastDay

ASSUME LessonsAssumption ==
  /\ LastDay \in Nat \ {0} /\ Links \subseteq BOOLEAN
  /\ MaxEvents \in Nat

VARIABLES
  day,           \* the school's date
  bell,          \* the time of the school day period
  lesson,        \* the rows of timetable_entries, with their one teacher
  covers,        \* rows of timetable_covers
  marked,        \* classes and days with attendance marks
  desks,         \* the requests in flight
  events,        \* how many there have been, for the bound
  outdated,      \* history: lessons changed by a request whose reading was out of date
  overlapped,    \* history: pairs of lessons written by requests that overlapped
  later          \* history: covers, and what was written after them or meanwhile

lessonVars == <<day, bell, lesson, covers, marked, desks, events, outdated, overlapped, later>>

Rows ==
  [class : Classes, teacher : Staff, from : Days, until : Days, time : Times,
   linked : Links, active : BOOLEAN]

ASSUME RowAssumption == None \notin Rows

Covers == [lesson : Lessons, day : Days, by : Staff]
FreeDesk == [op |-> "free"]

LessonsTypeOK ==
  /\ day \in Days /\ bell \in Times
  /\ lesson \in [Lessons -> Rows \union {None}]
  /\ \A e \in Lessons : lesson[e] # None => lesson[e].from <= lesson[e].until
  /\ covers \subseteq Covers
  /\ \A c \in covers : lesson[c.lesson] # None
  /\ marked \subseteq Classes \X Days
  /\ events \in 0..MaxEvents

LessonsInit ==
  /\ day = 1
  /\ bell \in Times
  /\ lesson = [e \in Lessons |-> None]
  /\ covers = {} /\ marked = {}
  /\ desks = [r \in Desks |-> FreeDesk] /\ events = 0
  /\ outdated = {} /\ overlapped = {} /\ later = {}

-----------------------------------------------------------------------------
(* The lifecycle of a lesson *)

Teaches(row, d) == row # None /\ row.active /\ row.from <= d /\ d <= row.until

\* computeRecurrenceStatus
RecurrenceStatus(row) ==
  IF ~row.active \/ row.until < day THEN "ended"
  ELSE IF row.from > day THEN "future"
  ELSE "active"

\* countRecurrenceUsage: covers of the lesson, and marks of its class on its days.
Referenced(e) ==
  \/ \E c \in covers : c.lesson = e
  \/ \E d \in lesson[e].from .. lesson[e].until : <<lesson[e].class, d>> \in marked

\* Mutant: a lesson nobody refers to may be changed although it has been taught.
FreeWhenUnused(e) == ~Referenced(e)

\* canDelete, and canEditStructure, of recurrenceLifecycleFromState.
CanRewrite(e) == RecurrenceStatus(lesson[e]) = "future" /\ ~Referenced(e)

CanEnd(e) ==
  \/ RecurrenceStatus(lesson[e]) = "active"
  \/ RecurrenceStatus(lesson[e]) = "future" /\ Referenced(e)

-----------------------------------------------------------------------------
(* Clashes *)

\* timetable_window_overlap
WindowsMeet(a, b) == a.from <= b.until /\ b.from <= a.until

\* timetable_collect_entry_conflicts, for the class and the teacher.  A room is
\* one more thing two lessons may share, and treated alike.
Clash(a, b) ==
  /\ a # None /\ b # None
  /\ a.active /\ b.active
  /\ a.time = b.time
  /\ WindowsMeet(a, b)
  /\ a.class = b.class \/ a.teacher = b.teacher

\* timetable_covers_conflict_tg: the covering teacher has a lesson of their own
\* at that time, or another cover.
CoverClash(c, f) ==
  /\ f # c.lesson
  /\ Teaches(lesson[f], c.day)
  /\ lesson[f].time = lesson[c.lesson].time
  /\ lesson[f].teacher = c.by

TwoCovers(c, d) ==
  /\ c.lesson # d.lesson /\ c.day = d.day /\ c.by = d.by
  /\ lesson[c.lesson].time = lesson[d.lesson].time

-----------------------------------------------------------------------------
(* Requests *)

\* One of the things that are bounded.
Happens == events < MaxEvents /\ events' = events + 1

\* The lesson is loaded and its lifecycle decides what may be done: rewrite it
\* (edit, withdraw or delete), split it (end or replace), or amend it (write a
\* note, or put it back when it was withdrawn), which is always allowed.
OpenDesk(r, op, e) ==
  /\ Happens
  /\ desks[r] = FreeDesk
  /\ lesson[e] # None
  /\ op = "rewrite" => CanRewrite(e)
  /\ op = "split" => CanEnd(e)
  /\ desks' = [desks EXCEPT ![r] = [op |-> op, lesson |-> e, row |-> lesson[e],
                                    used |-> Referenced(e), on |-> day]]
  /\ UNCHANGED <<day, bell, lesson, covers, marked, outdated, overlapped, later>>

\* Requests that have written lessons, and a cover, and not committed yet; `met` is
\* what others committed since they looked for clashes.
Writers   == {r \in Desks : desks[r].op = "written"}
Coverings == {r \in Desks : desks[r].op = "covering"}

InHand == UNION {DOMAIN desks[r].rows : r \in Writers}

\* A request ends that has committed `things`.
Freed(r, things) ==
  [q \in Desks |->
     IF q = r THEN FreeDesk
     ELSE IF q \in Writers \union Coverings THEN [desks[q] EXCEPT !.met = @ \union things]
     ELSE desks[q]]

\* The lessons with `rows` written over them, and a row of one lesson.
After(rows) == [e \in Lessons |-> IF e \in DOMAIN rows THEN rows[e] ELSE lesson[e]]

Only(e, row) == [x \in {e} |-> row]

\* The request has written `rows`, and its triggers find no clash with what has
\* been committed.  `late`: what it had read was no longer so.  A lesson cannot be
\* deleted while a cover refers to it that is not committed.
Write(r, rows, late) ==
  LET after == After(rows) IN
  /\ DOMAIN rows \cap InHand = {}
  /\ \A q \in Coverings, e \in DOMAIN rows : desks[q].cover.lesson = e => rows[e] # None
  /\ \A e \in DOMAIN rows, f \in Lessons : e # f => ~Clash(after[e], after[f])
  /\ desks' = [desks EXCEPT ![r] = [op |-> "written", rows |-> rows, met |-> {}, late |-> late]]
  /\ UNCHANGED <<day, bell, lesson, covers, marked, outdated, overlapped, later>>

Unused == {e \in Lessons : lesson[e] = None}

\* POST: a lesson takes the time of its period unless the request names one.
CreateLesson(r, e, row) ==
  /\ Happens
  /\ desks[r] = FreeDesk
  /\ e \in Unused
  /\ row.active /\ row.from <= row.until
  /\ Write(r, Only(e, row), FALSE)

\* The request is at its write, and the lesson is still there.
Decided(r, op) ==
  desks[r].op = op /\ lesson[desks[r].lesson] # None /\ UNCHANGED events

\* What the request has read, the date included, is no longer so.
Late(r) ==
  LET e == desks[r].lesson IN
  <<lesson[e], Referenced(e), day>> # <<desks[r].row, desks[r].used, desks[r].on>>

\* PATCH.  Whatever it changes, the times are written: the period's, or those
\* that were read.  The other columns are written when the request names them.
Patch(r, row) ==
  LET time == IF row.linked THEN bell ELSE desks[r].row.time IN
  Write(r, Only(desks[r].lesson, [row EXCEPT !.time = time]), Late(r))

\* The request may name the times too.
EditLesson(r) ==
  /\ Decided(r, "rewrite")
  /\ LET row == lesson[desks[r].lesson] IN
     \/ \E c \in Classes : Patch(r, [row EXCEPT !.class = c])
     \/ \E d \in 1..row.until : Patch(r, [row EXCEPT !.from = d])
     \/ \E d \in row.from..LastDay : Patch(r, [row EXCEPT !.until = d])
     \/ \E time \in Times :
           Write(r, Only(desks[r].lesson, [row EXCEPT !.time = time]), Late(r))

WithdrawLesson(r) ==
  Decided(r, "rewrite") /\ Patch(r, [lesson[desks[r].lesson] EXCEPT !.active = FALSE])

DeleteLesson(r) ==
  Decided(r, "rewrite") /\ Write(r, Only(desks[r].lesson, None), Late(r))

NoteLesson(r) ==
  Decided(r, "amend") /\ Patch(r, lesson[desks[r].lesson])

RestoreLesson(r) ==
  Decided(r, "amend") /\ Patch(r, [lesson[desks[r].lesson] EXCEPT !.active = TRUE])

\* effectiveUntilFromStopFrom
LastDayBefore(stop) == stop - 1

\* validateRecurrenceStopFrom; `stop` may be the day after the year's last.
MayStop(r, stop) == stop >= desks[r].on /\ stop > desks[r].row.from

Ended(row, stop) == [row EXCEPT !.until = LastDayBefore(stop), !.active = TRUE]

EndLesson(r, stop) ==
  /\ Decided(r, "split")
  /\ MayStop(r, stop)
  /\ LET e == desks[r].lesson IN
     /\ lesson[e].from < stop
     /\ Write(r, Only(e, Ended(lesson[e], stop)), Late(r))

\* The replacement inherits the end that was read; the request may name another
\* class and another time.
ReplaceLesson(r, n, stop, class, time) ==
  /\ Decided(r, "split")
  /\ n \in Unused
  /\ MayStop(r, stop)
  /\ LET e == desks[r].lesson
         old == desks[r].row IN
     /\ stop <= old.until
     /\ lesson[e].from < stop
     /\ Write(r,
              [x \in {e, n} |->
                 IF x = e THEN Ended(lesson[e], stop)
                 ELSE [old EXCEPT !.from = stop, !.class = class, !.time = time,
                                  !.active = TRUE]],
              Late(r))

\* Covers are deleted with their lesson.
Commit(r) ==
  /\ r \in Writers
  /\ LET rows == desks[r].rows IN
     /\ lesson' = After(rows)
     /\ covers' = {c \in covers : lesson'[c.lesson] # None}
     /\ outdated' = IF desks[r].late THEN outdated \union DOMAIN rows ELSE outdated
     /\ overlapped' = overlapped \union {{e, f} : e \in DOMAIN rows,
                                                f \in desks[r].met \cap Lessons}
     /\ later' = {p \in later \union (covers \X DOMAIN rows) : p[1] \in covers'}
     /\ desks' = Freed(r, DOMAIN rows)
  /\ UNCHANGED <<day, bell, marked, events>>

\* An error, or a clash: the transaction is rolled back.
GiveUp(r) ==
  /\ desks[r] # FreeDesk
  /\ desks' = [desks EXCEPT ![r] = FreeDesk]
  /\ UNCHANGED <<day, bell, lesson, covers, marked, events, outdated, overlapped, later>>

-----------------------------------------------------------------------------
(* What else happens to a timetable *)

\* POST of a cover.  The trigger looks at the lesson, at the covering teacher's
\* lessons and at their other covers; a lesson that is being deleted is locked
\* against it.
AddCover(r, c) ==
  /\ Happens
  /\ desks[r] = FreeDesk
  /\ Teaches(lesson[c.lesson], c.day)
  /\ c.by # lesson[c.lesson].teacher
  /\ \A d \in covers \union {desks[q].cover : q \in Coverings} :
        ~(d.lesson = c.lesson /\ d.day = c.day)
  /\ \A f \in Lessons : ~CoverClash(c, f)
  /\ \A d \in covers : ~TwoCovers(c, d)
  /\ \A q \in Writers : c.lesson \in DOMAIN desks[q].rows => desks[q].rows[c.lesson] # None
  /\ desks' = [desks EXCEPT ![r] = [op |-> "covering", cover |-> c, met |-> {}]]
  /\ UNCHANGED <<day, bell, lesson, covers, marked, outdated, overlapped, later>>

CommitCover(r) ==
  /\ r \in Coverings
  /\ LET c == desks[r].cover IN
     /\ covers' = covers \union {c}
     /\ later' = later \union ({c} \X desks[r].met)
     /\ desks' = Freed(r, {c})
  /\ UNCHANGED <<day, bell, lesson, marked, events, outdated, overlapped>>

\* A register is marked, by the attendance routes.
MarkClass(c, d) ==
  /\ Happens
  /\ marked' = marked \union { <<c, d>> }
  /\ UNCHANGED <<day, bell, lesson, covers, desks, outdated, overlapped, later>>

\* PATCH of the period: lessons keep the times they were given.
MoveBell(time) ==
  /\ Happens
  /\ bell' = time
  /\ UNCHANGED <<day, lesson, covers, marked, desks, outdated, overlapped, later>>

\* A week passes.  A request lives to see one midnight at most, before it writes.
NextDay ==
  /\ day < LastDay
  /\ Writers \union Coverings = {}
  /\ \A r \in Desks : desks[r] # FreeDesk => desks[r].on = day
  /\ day' = day + 1
  /\ UNCHANGED <<bell, lesson, covers, marked, desks, events, outdated, overlapped, later>>

LessonsNext ==
  \/ \E r \in Desks :
        \/ \E e \in Lessons :
              \/ \E op \in {"rewrite", "split", "amend"} : OpenDesk(r, op, e)
              \/ \E row \in Rows : CreateLesson(r, e, row)
              \/ \E stop \in 1..LastDay + 1, class \in Classes, time \in Times :
                    ReplaceLesson(r, e, stop, class, time)
        \/ EditLesson(r) \/ NoteLesson(r) \/ WithdrawLesson(r) \/ RestoreLesson(r)
        \/ \E stop \in 1..LastDay + 1 : EndLesson(r, stop)
        \/ DeleteLesson(r) \/ Commit(r) \/ GiveUp(r)
        \/ (\E c \in Covers : AddCover(r, c)) \/ CommitCover(r)
  \/ \E c \in Classes, d \in Days : MarkClass(c, d)
  \/ \E time \in Times : MoveBell(time)
  \/ NextDay

LessonsSpec == LessonsInit /\ [][LessonsNext]_lessonVars

-----------------------------------------------------------------------------
(* Properties *)

\* Two lessons are taught at the same time of a day, to one class or by one teacher.
InTwoPlaces(e, f) ==
  \E d \in Days :
    /\ Teaches(lesson[e], d) /\ Teaches(lesson[f], d)
    /\ lesson[e].time = lesson[f].time
    /\ lesson[e].class = lesson[f].class \/ lesson[e].teacher = lesson[f].teacher

\* No class and no teacher is in two lessons at once, however lessons are made,
\* moved, put back and replaced, unless the requests that wrote the two overlapped:
\* the triggers of each look before the other commits.
ClashNeedsOverlap ==
  \A e, f \in Lessons : e # f /\ InTwoPlaces(e, f) => {e, f} \in overlapped

\* A covering teacher is nowhere else, unless a lesson was written, or another cover
\* committed, after the cover or while it was: the triggers of lessons do not look
\* at covers, and those of two covers do not see each other.
CoversAreFree ==
  \A c \in covers :
    /\ \A f \in Lessons : CoverClash(c, f) => {c} \X {f, c.lesson} \cap later # {}
    /\ \A d \in covers : TwoCovers(c, d) =>
          {c, d} \X {c, d, c.lesson, d.lesson} \cap later # {}

\* What has been taught stays on record, to the day, with its class and teacher,
\* whatever is edited, ended, replaced or deleted and over midnight, unless the
\* request had read what was no longer so.  Its time may follow the period's.
PastLessonsStand ==
  \A e \in Lessons, d \in Days :
    d < day /\ Teaches(lesson[e], d) /\ e \notin outdated' =>
      /\ Teaches(lesson'[e], d)
      /\ lesson'[e].class = lesson[e].class /\ lesson'[e].teacher = lesson[e].teacher
      /\ lesson'[e].time = lesson[e].time \/ lesson[e].linked

DaysOf(row) == {d \in Days : Teaches(row, d)}

\* A replacement leaves no gap and doubles no lesson: each day of the lesson it
\* splits is taught by exactly one of the two.
ReplacementKeepsTheDays ==
  \A r \in Writers :
    desks'[r] = FreeDesk /\ lesson' # lesson /\ ~desks[r].late =>
      \A n \in Unused, e \in DOMAIN desks[r].rows \ Unused :
        n \in DOMAIN desks[r].rows =>
          /\ DaysOf(lesson'[e]) \union DaysOf(lesson'[n]) = DaysOf(lesson[e])
          /\ DaysOf(lesson'[e]) \cap DaysOf(lesson'[n]) = {}

\* The timetable is free of clashes and keeps its past (the four formulas above,
\* with the type invariant).
LessonsStand ==
  /\ [](LessonsTypeOK /\ ClashNeedsOverlap /\ CoversAreFree)
  /\ [][PastLessonsStand /\ ReplacementKeepsTheDays]_lessonVars

\* "Historical attendance and past occurrences keep the definition that applied on
\* that date" (ADR 0021): a lesson that has been taught keeps its time.
PastLessonsKeepTheirTime ==
  [][\A e \in Lessons, d \in Days :
        d < day /\ Teaches(lesson[e], d) /\ Teaches(lesson'[e], d)
          => lesson'[e].time = lesson[e].time]_lessonVars
===============================================================================
