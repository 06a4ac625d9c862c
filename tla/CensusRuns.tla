------------------------------ MODULE CensusRuns ------------------------------
(***************************************************************************)
(* The runs of one statutory census (one school, year, type and date):     *)
(* routes/statutory.ts, the predicates of core/src/statutory.ts and the    *)
(* triggers and indexes of migration 0033.                                 *)
(*                                                                         *)
(* Every request but the creation reads the row of the run, decides, and   *)
(* writes later without having locked it; what it finds at the write is    *)
(* checked only by the triggers.  Each request is therefore two steps: the *)
(* read, kept in "requests", and the write.                                *)
(***************************************************************************)
EXTENDS Naturals, Sequences

CONSTANTS
  Censuses,        \* the rows of census_runs for that date
  CensusClerks,    \* the requests that may be in flight at once
  MaxSnapshots     \* bound: snapshots of a run

ASSUME MaxSnapshotsAssumption == MaxSnapshots \in Nat \ {0}

VARIABLES
  census,          \* the rows: status, current version, validated version, errors
  snapshots,       \* the snapshots of a run, in version order: TRUE where the data has errors
  requests,        \* what each request read, or Quiet
  exports,         \* data_exports: the run, its version, and whether that data had errors
  overtaken        \* history: a finalisation wrote over a row that had changed since its read

censusVars == <<census, snapshots, requests, exports, overtaken>>

Quiet == [op |-> "quiet"]

CensusWorking == {"draft", "validating"}
CensusImmutable == {"ready", "exported", "superseded", "archived"}

Row(s, v, w, e) == [status |-> s, version |-> v, validated |-> w, errors |-> e]

CensusTypeOK ==
  /\ census \in [Censuses -> [status : {"none"} \union CensusWorking \union CensusImmutable,
                              version : 0..MaxSnapshots, validated : 0..MaxSnapshots,
                              errors : BOOLEAN]]
  /\ \A r \in Censuses : snapshots[r] \in Seq(BOOLEAN) /\ Len(snapshots[r]) = census[r].version
  /\ \A q \in CensusClerks :
        \/ requests[q] = Quiet
        \/ requests[q].run \in Censuses /\ census[requests[q].run].status # "none"
  /\ overtaken \subseteq Censuses

CensusInit ==
  /\ census = [r \in Censuses |-> Row("none", 0, 0, FALSE)]
  /\ snapshots = [r \in Censuses |-> <<>>]
  /\ requests = [q \in CensusClerks |-> Quiet]
  /\ exports = {}
  /\ overtaken = {}

-----------------------------------------------------------------------------
(* The guards *)

\* Mutant: a run is finalised without asking whether this version was validated.
MayAskUnvalidated(op, row) ==
  CASE op = "snapshot"  -> row.status \in CensusWorking /\ row.version < MaxSnapshots
    [] op = "validate"  -> row.status \in CensusWorking /\ row.version > 0
    [] op = "finalise"  -> row.status \in CensusWorking \union {"ready"} /\ row.version > 0
    [] op = "export"    -> row.status \in {"ready", "exported"}
    [] op = "supersede" -> row.status \in {"ready", "exported"}
    [] op = "archive"   -> row.status # "none"

\* What a request demands of the row it reads.
MayAsk(op, row) ==
  CASE op = "snapshot"  -> row.status \in CensusWorking /\ row.version < MaxSnapshots
    [] op = "validate"  -> row.status \in CensusWorking /\ row.version > 0
    [] op = "finalise"  -> /\ row.status \in CensusWorking \union {"ready"}
                           /\ row.version > 0
                           /\ row.validated = row.version
                           /\ ~row.errors
    [] op = "export"    -> row.status \in {"ready", "exported"}
    [] op = "supersede" -> row.status \in {"ready", "exported"}
    [] op = "archive"   -> row.status # "none"

\* The partial unique index: one run that is neither superseded nor archived.
ActiveElsewhere(r) ==
  \E s \in Censuses \ {r} : census[s].status \notin {"none", "superseded", "archived"}

\* What the triggers and the index allow a write to make of the status of r.
StatusAllowed(r, status) ==
  /\ ~(census[r].status \in CensusImmutable /\ status \in CensusWorking)
  /\ status \in {"superseded", "archived"} \/ ~ActiveElsewhere(r)

-----------------------------------------------------------------------------
(* The actions *)

CreateCensus(r) ==
  /\ census[r].status = "none"
  /\ ~ActiveElsewhere(r)
  /\ census' = [census EXCEPT ![r].status = "draft"]
  /\ UNCHANGED <<snapshots, requests, exports, overtaken>>

\* A request reads the row of its run and passes its checks.
ReadCensus(q, r, op) ==
  /\ requests[q] = Quiet
  /\ census[r].status # "none"
  /\ MayAsk(op, census[r])
  /\ requests' = [requests EXCEPT ![q] = [op |-> op, run |-> r, row |-> census[r]]]
  /\ UNCHANGED <<census, snapshots, exports, overtaken>>

Finishing(q, op) ==
  /\ requests[q].op = op
  /\ requests' = [requests EXCEPT ![q] = Quiet]

\* The live records are copied under the version after the one read; the row
\* goes back to a draft nobody has validated.
TakeSnapshot(q, dirty) ==
  LET r == requests[q].run IN
  /\ Finishing(q, "snapshot")
  /\ requests[q].row.version = Len(snapshots[r])
  /\ StatusAllowed(r, "draft")
  /\ snapshots' = [snapshots EXCEPT ![r] = Append(@, dirty)]
  /\ census' = [census EXCEPT ![r] = Row("draft", requests[q].row.version + 1, 0, FALSE)]
  /\ UNCHANGED <<exports, overtaken>>

\* The counts of the version read are written, whichever version is current.
ValidateCensus(q) ==
  LET r == requests[q].run
      v == requests[q].row.version IN
  /\ Finishing(q, "validate")
  /\ StatusAllowed(r, "validating")
  /\ census' = [census EXCEPT ![r] = Row("draft", @.version, v, snapshots[r][v])]
  /\ UNCHANGED <<snapshots, exports, overtaken>>

FinaliseCensus(q) ==
  LET r == requests[q].run IN
  /\ Finishing(q, "finalise")
  /\ StatusAllowed(r, "ready")
  /\ census' = [census EXCEPT ![r].status = "ready"]
  /\ overtaken' = IF [census[r] EXCEPT !.status = "ready"]
                       = [requests[q].row EXCEPT !.status = "ready"]
                  THEN overtaken ELSE overtaken \union {r}
  /\ UNCHANGED <<snapshots, exports>>

\* Only an export that read "ready" writes the status.
ExportCensus(q) ==
  LET r == requests[q].run
      v == requests[q].row.version IN
  /\ Finishing(q, "export")
  /\ IF requests[q].row.status = "ready"
     THEN StatusAllowed(r, "exported") /\ census' = [census EXCEPT ![r].status = "exported"]
     ELSE UNCHANGED census
  /\ exports' = exports \union {[run |-> r, version |-> v, dirty |-> snapshots[r][v]]}
  /\ UNCHANGED <<snapshots, overtaken>>

\* Superseding and archiving write a status that both triggers always accept.
RetireCensus(q, op, status) ==
  /\ Finishing(q, op)
  /\ census' = [census EXCEPT ![requests[q].run].status = status]
  /\ UNCHANGED <<snapshots, exports, overtaken>>

\* A trigger, the index or a lost connection rolls the request back.
CensusRequestFails(q) ==
  /\ requests[q] # Quiet
  /\ requests' = [requests EXCEPT ![q] = Quiet]
  /\ UNCHANGED <<census, snapshots, exports, overtaken>>

CensusNext ==
  \/ \E r \in Censuses : CreateCensus(r)
  \/ \E q \in CensusClerks, r \in Censuses,
        op \in {"snapshot", "validate", "finalise", "export", "supersede", "archive"} :
          ReadCensus(q, r, op)
  \/ \E q \in CensusClerks, dirty \in BOOLEAN : TakeSnapshot(q, dirty)
  \/ \E q \in CensusClerks :
        \/ ValidateCensus(q)
        \/ FinaliseCensus(q)
        \/ ExportCensus(q)
        \/ RetireCensus(q, "supersede", "superseded")
        \/ RetireCensus(q, "archive", "archived")
        \/ CensusRequestFails(q)

CensusSpec == CensusInit /\ [][CensusNext]_censusVars

-----------------------------------------------------------------------------
(* Properties *)

\* A run that was finalised stands on a snapshot that was validated without
\* errors, unless the finalisation wrote over a row that had moved on.
FinalMeansValidated ==
  \A r \in Censuses :
    census[r].status \in {"ready", "exported", "superseded"} =>
      \/ r \in overtaken
      \/ /\ census[r].validated = census[r].version
         /\ ~snapshots[r][census[r].version]

\* What was exported is the snapshot the run stands on, whichever of the
\* requests still in flight writes last.
ExportsAreTheRun == \A e \in exports : e.version = census[e.run].version

\* A run once final never becomes a working run again, and what it stands on
\* never changes, although no request locks the row it decided on.
FinalStays ==
  \A r \in Censuses :
    census[r].status \in CensusImmutable =>
      /\ census'[r].status \in CensusImmutable
      /\ census'[r] = [census[r] EXCEPT !.status = census'[r].status]
      /\ snapshots'[r] = snapshots[r]

\* ADR 0027: finalised census data cannot be rewritten, and what was exported can
\* be reproduced (the three formulas above, with the type invariant).
CensusStands ==
  [](CensusTypeOK /\ FinalMeansValidated /\ ExportsAreTheRun) /\ [][FinalStays]_censusVars
=============================================================================
