--------------------------- MODULE SchoolYearProofs ---------------------------
(***************************************************************************)
(* The components of the school year that share no state: the statutory    *)
(* census, learning work, assessment results, pupil reports, competitions  *)
(* and practice rewards.  Each has a section of its own: an inductive      *)
(* invariant, which says of every request in flight what it read and what  *)
(* may have moved since, one lemma for each of its steps, and the theorem. *)
(***************************************************************************)
EXTENDS CensusRuns, LearningWork, AssessmentResults, PupilReports, PracticeRewards,
        CompetitionResults, FiniteSetTheorems, SequenceTheorems, TLAPS

\* What a sequence was is still there when something was appended to it, or nothing was.
LEMMA PrefixIsKept ==
  ASSUME NEW S, NEW s \in Seq(S), NEW x \in S
  PROVE  /\ SubSeq(s, 1, Len(s)) = s
         /\ SubSeq(Append(s, x), 1, Len(s)) = s
<1>1. /\ Append(s, x) \in Seq(S) /\ Len(Append(s, x)) = Len(s) + 1 /\ Len(s) \in Nat
      /\ \A i \in 1..Len(s) : Append(s, x)[i] = s[i]
  OBVIOUS
<1>2. /\ Len(SubSeq(s, 1, Len(s))) = Len(s)
      /\ \A i \in 1..Len(s) : SubSeq(s, 1, Len(s))[i] = s[i]
      /\ SubSeq(s, 1, Len(s)) \in Seq(S)
  OBVIOUS
<1>3. /\ Len(SubSeq(Append(s, x), 1, Len(s))) = Len(s)
      /\ \A i \in 1..Len(s) : SubSeq(Append(s, x), 1, Len(s))[i] = s[i]
      /\ SubSeq(Append(s, x), 1, Len(s)) \in Seq(S)
  BY <1>1
<1> QED BY <1>2, <1>3, SeqEqual

\* What a sequence was is still there when another one was put behind it.
LEMMA ConcatKeepsPrefix ==
  ASSUME NEW S, NEW s \in Seq(S), NEW t \in Seq(S)
  PROVE  SubSeq(s \o t, 1, Len(s)) = s
<1>1. /\ s \o t \in Seq(S) /\ Len(s \o t) = Len(s) + Len(t) /\ Len(s) \in Nat /\ Len(t) \in Nat
      /\ \A i \in 1..Len(s) : (s \o t)[i] = s[i]
  BY ConcatProperties
<1>2. /\ Len(SubSeq(s \o t, 1, Len(s))) = Len(s)
      /\ \A i \in 1..Len(s) : SubSeq(s \o t, 1, Len(s))[i] = s[i]
      /\ SubSeq(s \o t, 1, Len(s)) \in Seq(S)
  BY <1>1
<1> QED BY <1>2, SeqEqual

(***************************************************************************)
(* The statutory census                                                    *)
(***************************************************************************)

CensusRow == [status : {"none"} \union CensusWorking \union CensusImmutable,
              version : 0..MaxSnapshots, validated : 0..MaxSnapshots, errors : BOOLEAN]
CensusOps == {"snapshot", "validate", "finalise", "export", "supersede", "archive"}
CensusRequest == [op : CensusOps, run : Censuses, row : CensusRow]

\* The state with its domains, which CensusTypeOK leaves open.
CensusTyped ==
  /\ census \in [Censuses -> CensusRow]
  /\ snapshots \in [Censuses -> Seq(BOOLEAN)]
  /\ requests \in [CensusClerks -> {Quiet} \union CensusRequest]
  /\ exports \subseteq [run : Censuses, version : 0..MaxSnapshots, dirty : BOOLEAN]
  /\ overtaken \subseteq Censuses

\* A row validates no version it has not reached, and its verdict is the snapshot's.
VerdictOfSnapshot(r, row) ==
  /\ row.validated <= row.version
  /\ row.version <= Len(snapshots[r])
  /\ row.validated > 0 => row.errors = snapshots[r][row.validated]

\* What a final run stands on.
StandsOnValidated(r, row) ==
  /\ row.version > 0
  /\ r \in overtaken \/ (row.validated = row.version /\ ~snapshots[r][row.version])

RowsAreHonest ==
  \A r \in Censuses :
    /\ Len(snapshots[r]) = census[r].version
    /\ VerdictOfSnapshot(r, census[r])
    /\ census[r].status \in {"ready", "exported", "superseded"} => StandsOnValidated(r, census[r])

\* What a request read has only been added to since, and if it read a final row,
\* nothing but the status has changed.
ReadsAreHonest(q) ==
  LET r == requests[q].run
      row == requests[q].row IN
  requests[q] # Quiet =>
    /\ census[r].status # "none"
    /\ VerdictOfSnapshot(r, row)
    /\ requests[q].op = "snapshot" => row.version < MaxSnapshots
    /\ requests[q].op \in {"validate", "finalise"} => row.version > 0
    /\ requests[q].op = "finalise" => row.validated = row.version /\ ~row.errors
    /\ requests[q].op \in {"export", "supersede"} => row.status \in {"ready", "exported"}
    /\ row.status \in {"ready", "exported"} =>
         /\ census[r].status \in CensusImmutable
         /\ census[r].version = row.version /\ census[r].validated = row.validated
         /\ StandsOnValidated(r, row)

ExportsAreFinal ==
  \A e \in exports :
    census[e.run].status \in CensusImmutable /\ e.version = census[e.run].version

\* The inductive invariant of the census.
CensusInv ==
  /\ CensusTyped
  /\ RowsAreHonest
  /\ \A q \in CensusClerks : ReadsAreHonest(q)
  /\ ExportsAreFinal

\* The inductive invariant says what the run checks.
LEMMA CensusInvImplies ==
  CensusInv => CensusTypeOK /\ FinalMeansValidated /\ ExportsAreTheRun
<1> SUFFICES ASSUME CensusInv PROVE CensusTypeOK /\ FinalMeansValidated /\ ExportsAreTheRun
  OBVIOUS
<1>1. CensusTypeOK
  BY DEF CensusInv, CensusTyped, CensusTypeOK, CensusRow, CensusRequest, RowsAreHonest, ReadsAreHonest
<1>2. FinalMeansValidated
  BY DEF CensusInv, FinalMeansValidated, RowsAreHonest, StandsOnValidated
<1>3. ExportsAreTheRun
  BY DEF CensusInv, ExportsAreTheRun, ExportsAreFinal
<1> QED BY <1>1, <1>2, <1>3

\* No run, no request, no export: the invariant holds at first.
LEMMA CensusInvInit == CensusInit => CensusInv
<1> SUFFICES ASSUME CensusInit PROVE CensusInv
  OBVIOUS
<1>1. CensusTyped
  BY MaxSnapshotsAssumption DEF CensusInit, CensusTyped, CensusRow, Row
<1>2. RowsAreHonest
  <2>1. ASSUME NEW r \in Censuses
        PROVE  /\ snapshots[r] = <<>> /\ census[r].status = "none" /\ census[r].version = 0
               /\ census[r].validated = 0
    BY DEF CensusInit, Row
  <2>2. Len(<<>>) = 0
    OBVIOUS
  <2>3. ASSUME NEW r \in Censuses
        PROVE  Len(snapshots[r]) = census[r].version /\ VerdictOfSnapshot(r, census[r])
    BY <2>1, <2>2, <2>3 DEF VerdictOfSnapshot
  <2> QED BY <2>1, <2>3 DEF RowsAreHonest
<1>3. \A q \in CensusClerks : ReadsAreHonest(q)
  BY DEF CensusInit, ReadsAreHonest
<1> QED BY <1>1, <1>2, <1>3 DEF CensusInv, ExportsAreFinal, CensusInit

\* A request in flight is a record of a request, not the quiet one.
LEMMA AskedIsRequest ==
  ASSUME CensusTyped, NEW q \in CensusClerks, NEW op \in CensusOps, requests[q].op = op
  PROVE  requests[q] \in CensusRequest /\ requests[q] # Quiet
BY DEF CensusTyped, CensusOps, Quiet

\* Creating a run moves a row that nobody has read.
LEMMA CreateCensusKeeps ==
  ASSUME CensusInv, NEW r \in Censuses, CreateCensus(r)
  PROVE  CensusInv' /\ FinalStays
<1> USE DEF CensusInv
<1>1. CensusTyped'
  BY DEF CreateCensus, CensusTyped, CensusRow, CensusWorking
<1>2. /\ \A s \in Censuses \ {r} : census'[s] = census[s]
      /\ census'[r].status = "draft" /\ census'[r].version = census[r].version
      /\ census'[r].validated = census[r].validated /\ census'[r].errors = census[r].errors
  BY DEF CreateCensus, CensusTyped, CensusRow
<1>3. RowsAreHonest'
  BY <1>2 DEF CreateCensus, RowsAreHonest, VerdictOfSnapshot, StandsOnValidated
<1>4. ASSUME NEW q \in CensusClerks PROVE ReadsAreHonest(q)'
  <2>1. requests[q] # Quiet => requests[q].run \in Censuses \ {r}
    BY DEF CreateCensus, ReadsAreHonest, CensusTyped, CensusRequest
  <2> QED BY <1>2, <2>1 DEF CreateCensus, ReadsAreHonest, VerdictOfSnapshot, StandsOnValidated
<1>5. ExportsAreFinal'
  <2>1. \A e \in exports : e.run \in Censuses \ {r}
    BY DEF CreateCensus, ExportsAreFinal, CensusTyped, CensusImmutable
  <2> QED BY <1>2, <2>1 DEF CreateCensus, ExportsAreFinal
<1>6. FinalStays
  BY <1>2 DEF CreateCensus, FinalStays, CensusTyped, CensusRow, CensusImmutable
<1> QED BY <1>1, <1>3, <1>4, <1>5, <1>6

\* Reading a row records facts that the row has.
LEMMA ReadCensusKeeps ==
  ASSUME CensusInv, NEW q \in CensusClerks, NEW r \in Censuses, NEW op \in CensusOps,
         ReadCensus(q, r, op)
  PROVE  CensusInv' /\ FinalStays
<1> USE DEF CensusInv
<1>1. CensusTyped'
  BY DEF ReadCensus, CensusTyped, CensusRequest
<1>2. RowsAreHonest' /\ ExportsAreFinal'
  BY DEF ReadCensus, RowsAreHonest, VerdictOfSnapshot, StandsOnValidated, ExportsAreFinal
<1>3. ASSUME NEW p \in CensusClerks PROVE ReadsAreHonest(p)'
  <2>1. ASSUME p = q PROVE ReadsAreHonest(p)'
    <3> DEFINE row == census[r]
    <3>1. /\ requests'[p].op = op /\ requests'[p].run = r /\ requests'[p].row = row
          /\ census' = census /\ snapshots' = snapshots /\ overtaken' = overtaken
          /\ row \in CensusRow
      BY <2>1 DEF ReadCensus, CensusTyped
    <3>2. /\ op = "snapshot" => row.version < MaxSnapshots
          /\ op \in {"validate", "finalise"} => row.version > 0
          /\ op = "finalise" => row.validated = row.version /\ ~row.errors
          /\ op \in {"export", "supersede"} => row.status \in {"ready", "exported"}
      BY DEF ReadCensus, MayAsk, CensusOps
    <3>3. census[r].status # "none" /\ VerdictOfSnapshot(r, row)
      BY DEF ReadCensus, RowsAreHonest
    <3>4. row.status \in {"ready", "exported"} =>
            row.status \in CensusImmutable /\ StandsOnValidated(r, row)
      BY DEF RowsAreHonest, CensusImmutable
    <3> HIDE DEF row
    <3> QED BY <3>1, <3>2, <3>3, <3>4 DEF ReadsAreHonest, VerdictOfSnapshot, StandsOnValidated, row
  <2>2. ASSUME p # q PROVE ReadsAreHonest(p)'
    BY <2>2 DEF ReadCensus, CensusTyped, ReadsAreHonest, VerdictOfSnapshot, StandsOnValidated
  <2> QED BY <2>1, <2>2
<1>4. FinalStays
  BY DEF ReadCensus, FinalStays, CensusTyped, CensusRow
<1> QED BY <1>1, <1>2, <1>3, <1>4
\* A snapshot only adds to the versions, and only to a run that is not final.
LEMMA TakeSnapshotKeeps ==
  ASSUME CensusInv, NEW q \in CensusClerks, NEW r \in Censuses, requests[q].run = r,
         NEW dirty \in BOOLEAN, TakeSnapshot(q, dirty)
  PROVE  CensusInv' /\ FinalStays
<1> USE DEF CensusInv
<1> DEFINE n == requests[q].row.version
<1>1. /\ requests[q] \in CensusRequest /\ requests[q] # Quiet
      /\ n \in 0..MaxSnapshots /\ n < MaxSnapshots
  BY AskedIsRequest DEF TakeSnapshot, Finishing, CensusOps, CensusRequest, CensusRow, ReadsAreHonest
<1>2. /\ n = Len(snapshots[r]) /\ census[r].version = n
      /\ snapshots[r] \in Seq(BOOLEAN)
  BY <1>1 DEF TakeSnapshot, RowsAreHonest, CensusTyped
<1>3. census[r].status \notin CensusImmutable
  BY DEF TakeSnapshot, StatusAllowed, CensusWorking
<1>4. /\ census' = [census EXCEPT ![r] = Row("draft", n + 1, 0, FALSE)]
      /\ snapshots' = [snapshots EXCEPT ![r] = Append(snapshots[r], dirty)]
      /\ requests' = [requests EXCEPT ![q] = Quiet]
      /\ exports' = exports /\ overtaken' = overtaken
  BY DEF TakeSnapshot, Finishing
<1> HIDE DEF n
<1>5. /\ Len(Append(snapshots[r], dirty)) = n + 1
      /\ \A i \in 1..n : Append(snapshots[r], dirty)[i] = snapshots[r][i]
      /\ Append(snapshots[r], dirty) \in Seq(BOOLEAN)
  BY <1>2
<1>6. CensusTyped'
  <2>1. Row("draft", n + 1, 0, FALSE) \in CensusRow
    BY <1>1, MaxSnapshotsAssumption DEF Row, CensusRow, CensusWorking
  <2> QED BY <1>1, <1>4, <1>5, <2>1 DEF CensusTyped
<1>7. /\ census'[r] = Row("draft", n + 1, 0, FALSE)
      /\ Len(snapshots'[r]) = n + 1
      /\ \A i \in 1..n : snapshots'[r][i] = snapshots[r][i]
      /\ \A s \in Censuses \ {r} : census'[s] = census[s] /\ snapshots'[s] = snapshots[s]
  BY <1>1, <1>4, <1>5 DEF CensusTyped
<1>8. RowsAreHonest'
  <2>1. ASSUME NEW s \in Censuses \ {r}
        PROVE  /\ Len(snapshots'[s]) = census'[s].version /\ VerdictOfSnapshot(s, census[s])'
               /\ census'[s].status \in {"ready", "exported", "superseded"} =>
                    StandsOnValidated(s, census[s])'
    BY <1>4, <1>7, <2>1 DEF RowsAreHonest, VerdictOfSnapshot, StandsOnValidated
  <2>2. /\ Len(snapshots'[r]) = census'[r].version /\ VerdictOfSnapshot(r, census[r])'
        /\ census'[r].status = "draft"
    BY <1>1, <1>7 DEF VerdictOfSnapshot, Row
  <2> QED BY <2>1, <2>2 DEF RowsAreHonest
<1>9. ASSUME NEW p \in CensusClerks PROVE ReadsAreHonest(p)'
  <2> SUFFICES ASSUME requests'[p] # Quiet PROVE ReadsAreHonest(p)'
    BY DEF ReadsAreHonest
  <2>1. p # q /\ requests'[p] = requests[p] /\ requests[p] \in CensusRequest
    BY <1>4 DEF CensusTyped
  <2>2. CASE requests[p].run # r
    BY <1>4, <1>7, <2>1, <2>2 DEF ReadsAreHonest, VerdictOfSnapshot, StandsOnValidated, CensusRequest
  <2>3. CASE requests[p].run = r
    <3>1. requests[p].row.status \notin {"ready", "exported"}
      BY <1>3, <2>1, <2>3 DEF ReadsAreHonest
    <3>2. VerdictOfSnapshot(r, requests[p].row)'
      <4>1. /\ requests[p].row.validated \in Nat /\ requests[p].row.version \in Nat
            /\ VerdictOfSnapshot(r, requests[p].row)
        BY <2>1, <2>3 DEF ReadsAreHonest, CensusRequest, CensusRow
      <4>2. requests[p].row.validated > 0 => requests[p].row.validated \in 1..n
        BY <1>1, <1>2, <4>1 DEF VerdictOfSnapshot
      <4>3. requests[p].row.validated > 0 =>
              requests[p].row.errors = snapshots'[r][requests[p].row.validated]
        BY <1>7, <4>1, <4>2 DEF VerdictOfSnapshot
      <4>4. requests[p].row.version <= Len(snapshots'[r])
        BY <1>1, <1>2, <1>7, <4>1 DEF VerdictOfSnapshot
      <4> QED BY <2>1, <4>1, <4>3, <4>4 DEF VerdictOfSnapshot
    <3> QED BY <1>7, <2>1, <2>3, <3>1, <3>2 DEF ReadsAreHonest, Row
  <2> QED BY <2>2, <2>3
<1>10. ExportsAreFinal'
  <2>1. \A e \in exports : e.run \in Censuses \ {r}
    BY <1>3 DEF ExportsAreFinal, CensusTyped
  <2> QED BY <1>4, <1>7, <2>1 DEF ExportsAreFinal
<1>11. FinalStays
  <2>1. ASSUME NEW s \in Censuses, census[s].status \in CensusImmutable
        PROVE  census'[s] = census[s] /\ snapshots'[s] = snapshots[s] /\ census[s] \in CensusRow
    BY <1>3, <1>7, <2>1 DEF CensusTyped
  <2> QED BY <2>1 DEF FinalStays, CensusRow
<1> QED BY <1>6, <1>8, <1>9, <1>10, <1>11

\* A validation writes the verdict of the snapshot that it read, on a run that is not final.
LEMMA ValidateCensusKeeps ==
  ASSUME CensusInv, NEW q \in CensusClerks, NEW r \in Censuses, requests[q].run = r,
         ValidateCensus(q)
  PROVE  CensusInv' /\ FinalStays
<1> USE DEF CensusInv
<1> DEFINE v == requests[q].row.version
           row == Row("draft", census[r].version, v, snapshots[r][v])
<1>1. /\ requests[q] \in CensusRequest /\ requests[q] # Quiet /\ r \in Censuses
      /\ v \in 0..MaxSnapshots /\ v > 0 /\ v <= Len(snapshots[r])
      /\ snapshots[r] \in Seq(BOOLEAN) /\ census[r] \in CensusRow
  BY AskedIsRequest DEF ValidateCensus, Finishing, CensusOps, CensusRequest, CensusRow,
     ReadsAreHonest, VerdictOfSnapshot, CensusTyped
<1>2. census[r].status \notin CensusImmutable
  BY DEF ValidateCensus, StatusAllowed, CensusWorking
<1>3. /\ census' = [census EXCEPT ![r] = row]
      /\ requests' = [requests EXCEPT ![q] = Quiet]
      /\ snapshots' = snapshots /\ exports' = exports /\ overtaken' = overtaken
  BY DEF ValidateCensus, Finishing
<1>4. row \in CensusRow
  BY <1>1 DEF Row, CensusRow, CensusWorking
<1>5. /\ census'[r] = row /\ row.status = "draft" /\ row.version = census[r].version
      /\ row.validated = v /\ row.errors = snapshots[r][v]
      /\ \A s \in Censuses \ {r} : census'[s] = census[s]
  BY <1>1, <1>3 DEF CensusTyped, Row
<1> HIDE DEF row
<1>6. CensusTyped'
  BY <1>1, <1>3, <1>4 DEF CensusTyped
<1>7. RowsAreHonest'
  BY <1>1, <1>3, <1>5 DEF RowsAreHonest, VerdictOfSnapshot, StandsOnValidated
<1>8. ASSUME NEW p \in CensusClerks PROVE ReadsAreHonest(p)'
  <2>1. requests'[p] # Quiet => requests'[p] = requests[p] /\ requests[p].run \in Censuses
    BY <1>3 DEF CensusTyped, CensusRequest
  <2> QED BY <1>2, <1>3, <1>5, <2>1 DEF ReadsAreHonest, VerdictOfSnapshot, StandsOnValidated
<1>9. ExportsAreFinal'
  <2>1. \A e \in exports : e.run \in Censuses \ {r}
    BY <1>2 DEF ExportsAreFinal, CensusTyped
  <2> QED BY <1>3, <1>5, <2>1 DEF ExportsAreFinal
<1>10. FinalStays
  <2>1. ASSUME NEW s \in Censuses, census[s].status \in CensusImmutable
        PROVE  census'[s] = census[s] /\ snapshots'[s] = snapshots[s] /\ census[s] \in CensusRow
    BY <1>2, <1>3, <1>5, <2>1 DEF CensusTyped
  <2> QED BY <2>1 DEF FinalStays, CensusRow
<1> QED BY <1>6, <1>7, <1>8, <1>9, <1>10

\* The steps that write a status and nothing else: what was read, and what was exported,
\* stays true of a row whose status becomes, or stays, final.
LEMMA StatusWriteKeeps ==
  ASSUME CensusInv, NEW q \in CensusClerks, NEW r \in Censuses,
         NEW status \in CensusImmutable,
         census' = [census EXCEPT ![r].status = status],
         requests' = [requests EXCEPT ![q] = Quiet], snapshots' = snapshots,
         overtaken \subseteq overtaken', overtaken' \subseteq Censuses,
         status # "archived" => StandsOnValidated(r, census[r])'
  PROVE  /\ RowsAreHonest'
         /\ \A p \in CensusClerks : ReadsAreHonest(p)'
         /\ FinalStays
         /\ census' \in [Censuses -> CensusRow]
         /\ requests' \in [CensusClerks -> {Quiet} \union CensusRequest]
         /\ \A s \in Censuses : census'[s].version = census[s].version
         /\ \A s \in Censuses : census[s].status \in CensusImmutable =>
              census'[s].status \in CensusImmutable
<1> USE DEF CensusInv
<1>1. /\ census'[r].status = status /\ census'[r].version = census[r].version
      /\ census'[r].validated = census[r].validated /\ census'[r].errors = census[r].errors
      /\ census'[r] = [census[r] EXCEPT !.status = status]
      /\ \A s \in Censuses \ {r} : census'[s] = census[s]
      /\ census' \in [Censuses -> CensusRow]
  BY DEF CensusTyped, CensusRow
<1>2. RowsAreHonest'
  BY <1>1 DEF RowsAreHonest, VerdictOfSnapshot, StandsOnValidated, CensusImmutable
<1>3. ASSUME NEW p \in CensusClerks PROVE ReadsAreHonest(p)'
  <2>1. requests'[p] # Quiet => requests'[p] = requests[p] /\ requests[p].run \in Censuses
    BY DEF CensusTyped, CensusRequest
  <2> QED BY <1>1, <2>1 DEF ReadsAreHonest, VerdictOfSnapshot, StandsOnValidated, CensusImmutable
<1>4. FinalStays
  <2>1. ASSUME NEW s \in Censuses \ {r}
        PROVE  census'[s] = [census[s] EXCEPT !.status = census'[s].status]
    BY <1>1, <2>1 DEF CensusTyped, CensusRow
  <2> QED BY <1>1, <2>1 DEF FinalStays
<1>5. requests' \in [CensusClerks -> {Quiet} \union CensusRequest]
  BY DEF CensusTyped
<1> QED BY <1>1, <1>2, <1>3, <1>4, <1>5

\* A finalisation stands on what it read, or is remembered as overtaken.
LEMMA FinaliseCensusKeeps ==
  ASSUME CensusInv, NEW q \in CensusClerks, NEW r \in Censuses, requests[q].run = r,
         FinaliseCensus(q)
  PROVE  CensusInv' /\ FinalStays
<1> DEFINE row == requests[q].row
<1>1. /\ requests[q] \in CensusRequest /\ requests[q] # Quiet /\ r \in Censuses
      /\ row \in CensusRow /\ census[r] \in CensusRow
  BY AskedIsRequest DEF CensusInv, FinaliseCensus, Finishing, CensusOps, CensusRequest, CensusTyped
<1>2. /\ row.version > 0 /\ row.validated = row.version /\ ~row.errors
      /\ row.errors = snapshots[r][row.validated] /\ census[r].version > 0
  BY <1>1 DEF CensusInv, FinaliseCensus, Finishing, ReadsAreHonest, VerdictOfSnapshot,
     RowsAreHonest, CensusRow
<1>3. /\ census' = [census EXCEPT ![r].status = "ready"]
      /\ requests' = [requests EXCEPT ![q] = Quiet]
      /\ snapshots' = snapshots /\ exports' = exports
      /\ overtaken' = IF [census[r] EXCEPT !.status = "ready"] = [row EXCEPT !.status = "ready"]
                      THEN overtaken ELSE overtaken \union {r}
  BY DEF FinaliseCensus, Finishing
<1>4. overtaken \subseteq overtaken' /\ overtaken' \subseteq Censuses
  BY <1>1, <1>3 DEF CensusInv, CensusTyped
<1>5. census'[r] = [census[r] EXCEPT !.status = "ready"]
  BY <1>1, <1>3 DEF CensusInv, CensusTyped
<1>6. StandsOnValidated(r, census[r])'
  <2>1. CASE r \in overtaken'
    BY <1>1, <1>2, <1>5, <2>1 DEF StandsOnValidated, CensusRow
  <2>2. CASE r \notin overtaken'
    <3>1. census'[r] = [row EXCEPT !.status = "ready"]
      BY <1>3, <1>5, <2>2
    <3>2. census'[r].version = row.version /\ census'[r].validated = row.validated
      BY <1>1, <3>1 DEF CensusRow
    <3> QED BY <1>2, <1>3, <3>2 DEF StandsOnValidated
  <2> QED BY <2>1, <2>2
<1>7. "ready" \in CensusImmutable
  BY DEF CensusImmutable
<1>8. /\ RowsAreHonest' /\ (\A p \in CensusClerks : ReadsAreHonest(p)') /\ FinalStays
      /\ census' \in [Censuses -> CensusRow]
      /\ requests' \in [CensusClerks -> {Quiet} \union CensusRequest]
      /\ \A s \in Censuses : census'[s].version = census[s].version
      /\ \A s \in Censuses : census[s].status \in CensusImmutable =>
           census'[s].status \in CensusImmutable
  BY <1>1, <1>3, <1>4, <1>6, <1>7, StatusWriteKeeps
<1> QED BY <1>3, <1>4, <1>8 DEF CensusInv, CensusTyped, ExportsAreFinal

\* An export writes down the version that it read, which a final run keeps.
LEMMA ExportCensusKeeps ==
  ASSUME CensusInv, NEW q \in CensusClerks, NEW r \in Censuses, requests[q].run = r,
         ExportCensus(q)
  PROVE  CensusInv' /\ FinalStays
<1> DEFINE v == requests[q].row.version
           file == [run |-> r, version |-> v, dirty |-> snapshots[r][v]]
<1>1. /\ requests[q] \in CensusRequest /\ requests[q] # Quiet /\ r \in Censuses
      /\ requests[q].row \in CensusRow /\ census[r] \in CensusRow
      /\ snapshots[r] \in Seq(BOOLEAN)
  BY AskedIsRequest DEF CensusInv, ExportCensus, Finishing, CensusOps, CensusRequest, CensusTyped
<1>2. /\ requests' = [requests EXCEPT ![q] = Quiet]
      /\ snapshots' = snapshots /\ overtaken' = overtaken
      /\ exports' = exports \union {file}
  BY DEF ExportCensus, Finishing
<1>3. /\ census[r].status \in CensusImmutable /\ census[r].version = v
      /\ StandsOnValidated(r, census[r])
  <2>1. /\ census[r].status \in CensusImmutable /\ census[r].version = v
        /\ census[r].validated = requests[q].row.validated
        /\ StandsOnValidated(r, requests[q].row)
    BY <1>1 DEF CensusInv, ExportCensus, Finishing, ReadsAreHonest
  <2> QED BY <2>1 DEF StandsOnValidated
<1>4. file \in [run : Censuses, version : 0..MaxSnapshots, dirty : BOOLEAN]
  BY <1>1, <1>3 DEF CensusInv, RowsAreHonest, StandsOnValidated, CensusRow
<1>5. CASE requests[q].row.status # "ready"
  <2>1. UNCHANGED <<census, snapshots, overtaken>>
    BY <1>2, <1>5 DEF ExportCensus
  <2>2. CensusTyped'
    BY <1>2, <1>4, <2>1 DEF CensusInv, CensusTyped
  <2>3. RowsAreHonest' /\ \A p \in CensusClerks : ReadsAreHonest(p)'
    BY <1>2, <2>1 DEF CensusInv, CensusTyped, RowsAreHonest, ReadsAreHonest, VerdictOfSnapshot,
       StandsOnValidated
  <2>4. ExportsAreFinal'
    BY <1>2, <1>3, <2>1 DEF CensusInv, ExportsAreFinal
  <2>5. FinalStays
    BY <2>1 DEF CensusInv, CensusTyped, CensusRow, FinalStays
  <2> QED BY <2>2, <2>3, <2>4, <2>5 DEF CensusInv
<1>6. CASE requests[q].row.status = "ready"
  <2>1. census' = [census EXCEPT ![r].status = "exported"]
    BY <1>6 DEF ExportCensus
  <2>2. StandsOnValidated(r, census[r])'
    <3>1. census'[r].version = census[r].version /\ census'[r].validated = census[r].validated
      BY <1>1, <2>1 DEF CensusInv, CensusTyped, CensusRow
    <3> QED BY <1>2, <1>3, <3>1 DEF StandsOnValidated
  <2>3. overtaken \subseteq overtaken' /\ overtaken' \subseteq Censuses
    BY <1>2 DEF CensusInv, CensusTyped
  <2>4. "exported" \in CensusImmutable
    BY DEF CensusImmutable
  <2>5. /\ RowsAreHonest' /\ (\A p \in CensusClerks : ReadsAreHonest(p)') /\ FinalStays
        /\ census' \in [Censuses -> CensusRow]
        /\ requests' \in [CensusClerks -> {Quiet} \union CensusRequest]
        /\ \A s \in Censuses : census'[s].version = census[s].version
        /\ \A s \in Censuses : census[s].status \in CensusImmutable =>
             census'[s].status \in CensusImmutable
    BY <1>2, <2>1, <2>2, <2>3, <2>4, StatusWriteKeeps
  <2>6. ExportsAreFinal'
    BY <1>2, <1>3, <2>5 DEF CensusInv, CensusTyped, ExportsAreFinal
  <2> QED BY <1>2, <1>4, <2>3, <2>5, <2>6 DEF CensusInv, CensusTyped
<1> QED BY <1>5, <1>6

\* Only a request that read a final run supersedes it; archiving asks nothing of it.
LEMMA RetireCensusKeeps ==
  ASSUME CensusInv, NEW q \in CensusClerks, NEW r \in Censuses, requests[q].run = r,
         NEW op \in CensusOps, NEW status \in {"superseded", "archived"},
         status = "superseded" => op = "supersede", RetireCensus(q, op, status)
  PROVE  CensusInv' /\ FinalStays
<1>1. /\ requests[q] \in CensusRequest /\ requests[q] # Quiet /\ census[r] \in CensusRow
      /\ requests[q].op = op
  BY AskedIsRequest DEF CensusInv, RetireCensus, Finishing, CensusTyped
<1>2. /\ census' = [census EXCEPT ![r].status = status]
      /\ requests' = [requests EXCEPT ![q] = Quiet]
      /\ snapshots' = snapshots /\ overtaken' = overtaken /\ exports' = exports
  BY DEF RetireCensus, Finishing
<1>3. status # "archived" => StandsOnValidated(r, census[r])'
  <2> SUFFICES ASSUME status = "superseded" PROVE StandsOnValidated(r, census[r])'
    OBVIOUS
  <2>1. census[r].version = requests[q].row.version
    BY <1>1 DEF CensusInv, ReadsAreHonest
  <2>2. census[r].validated = requests[q].row.validated /\ StandsOnValidated(r, requests[q].row)
    BY <1>1 DEF CensusInv, ReadsAreHonest
  <2>3. census'[r].version = census[r].version /\ census'[r].validated = census[r].validated
    BY <1>1, <1>2 DEF CensusInv, CensusTyped, CensusRow
  <2> QED BY <1>2, <2>1, <2>2, <2>3 DEF StandsOnValidated
<1>4. overtaken \subseteq overtaken' /\ overtaken' \subseteq Censuses /\ status \in CensusImmutable
  BY <1>2 DEF CensusInv, CensusTyped, CensusImmutable
<1>5. /\ RowsAreHonest' /\ (\A p \in CensusClerks : ReadsAreHonest(p)') /\ FinalStays
      /\ census' \in [Censuses -> CensusRow]
      /\ requests' \in [CensusClerks -> {Quiet} \union CensusRequest]
      /\ \A s \in Censuses : census'[s].version = census[s].version
      /\ \A s \in Censuses : census[s].status \in CensusImmutable =>
           census'[s].status \in CensusImmutable
  BY <1>2, <1>3, <1>4, StatusWriteKeeps
<1> QED BY <1>2, <1>4, <1>5 DEF CensusInv, CensusTyped, ExportsAreFinal

\* A failed request leaves the rows as they were.
LEMMA CensusRequestFailsKeeps ==
  ASSUME CensusInv, NEW q \in CensusClerks, CensusRequestFails(q)
  PROVE  CensusInv' /\ FinalStays
<1>1. /\ UNCHANGED <<census, snapshots, exports, overtaken>>
      /\ requests' = [requests EXCEPT ![q] = Quiet]
  BY DEF CensusRequestFails
<1>2. CensusTyped' /\ RowsAreHonest' /\ ExportsAreFinal'
  BY <1>1 DEF CensusInv, CensusTyped, RowsAreHonest, ExportsAreFinal, VerdictOfSnapshot,
     StandsOnValidated
<1>3. ASSUME NEW p \in CensusClerks PROVE ReadsAreHonest(p)'
  BY <1>1 DEF CensusInv, CensusTyped, ReadsAreHonest, VerdictOfSnapshot, StandsOnValidated
<1>4. FinalStays
  BY <1>1 DEF CensusInv, CensusTyped, CensusRow, FinalStays
<1> QED BY <1>2, <1>3, <1>4 DEF CensusInv

\* Every step of the census keeps its invariant, and what a final run stands on.
LEMMA CensusStep ==
  ASSUME CensusInv, [CensusNext]_censusVars
  PROVE  CensusInv' /\ (FinalStays \/ UNCHANGED censusVars)
<1>1. ASSUME NEW r \in Censuses, CreateCensus(r) PROVE CensusInv' /\ FinalStays
  BY <1>1, CreateCensusKeeps
<1>2. ASSUME NEW q \in CensusClerks, NEW r \in Censuses, NEW op \in CensusOps,
             ReadCensus(q, r, op)
      PROVE  CensusInv' /\ FinalStays
  BY <1>2, ReadCensusKeeps
<1>3. ASSUME NEW q \in CensusClerks, NEW op \in CensusOps, requests[q].op = op
      PROVE  requests[q].run \in Censuses
  BY <1>3, AskedIsRequest DEF CensusInv, CensusRequest
<1>4. ASSUME NEW q \in CensusClerks, NEW dirty \in BOOLEAN, TakeSnapshot(q, dirty)
      PROVE  CensusInv' /\ FinalStays
  BY <1>3, <1>4, TakeSnapshotKeeps DEF TakeSnapshot, Finishing, CensusOps
<1>5. ASSUME NEW q \in CensusClerks, ValidateCensus(q) PROVE CensusInv' /\ FinalStays
  BY <1>3, <1>5, ValidateCensusKeeps DEF ValidateCensus, Finishing, CensusOps
<1>6. ASSUME NEW q \in CensusClerks, FinaliseCensus(q) PROVE CensusInv' /\ FinalStays
  BY <1>3, <1>6, FinaliseCensusKeeps DEF FinaliseCensus, Finishing, CensusOps
<1>7. ASSUME NEW q \in CensusClerks, ExportCensus(q) PROVE CensusInv' /\ FinalStays
  BY <1>3, <1>7, ExportCensusKeeps DEF ExportCensus, Finishing, CensusOps
<1>8. ASSUME NEW q \in CensusClerks, RetireCensus(q, "supersede", "superseded")
      PROVE  CensusInv' /\ FinalStays
  BY <1>3, <1>8, RetireCensusKeeps DEF RetireCensus, Finishing, CensusOps
<1>9. ASSUME NEW q \in CensusClerks, RetireCensus(q, "archive", "archived")
      PROVE  CensusInv' /\ FinalStays
  BY <1>3, <1>9, RetireCensusKeeps DEF RetireCensus, Finishing, CensusOps
<1>10. ASSUME NEW q \in CensusClerks, CensusRequestFails(q) PROVE CensusInv' /\ FinalStays
  BY <1>10, CensusRequestFailsKeeps
<1>11. ASSUME UNCHANGED censusVars PROVE CensusInv'
  BY <1>11 DEF censusVars, CensusInv, CensusTyped, RowsAreHonest, ReadsAreHonest, ExportsAreFinal,
     VerdictOfSnapshot, StandsOnValidated
<1> QED
  BY <1>1, <1>2, <1>4, <1>5, <1>6, <1>7, <1>8, <1>9, <1>10, <1>11 DEF CensusNext, CensusOps

\* Finalised census data is never rewritten, stands on a snapshot that was validated
\* without errors unless the finalisation wrote over a row that had moved on, and every
\* export can be made again (FinaliseCensus, ExportCensus and the triggers they meet).
THEOREM CensusIsFinal == CensusSpec => CensusStands
<1>1. CensusInit => CensusInv
  BY CensusInvInit
<1>2. CensusInv /\ [CensusNext]_censusVars => CensusInv' /\ [FinalStays]_censusVars
  BY CensusStep
<1>3. CensusInv => CensusTypeOK /\ FinalMeansValidated /\ ExportsAreTheRun
  BY CensusInvImplies
<1>4. CensusSpec => []CensusInv /\ [][FinalStays]_censusVars
  BY <1>1, <1>2, PTL DEF CensusSpec
<1>5. CensusSpec => [](CensusTypeOK /\ FinalMeansValidated /\ ExportsAreTheRun)
  BY <1>3, <1>4, PTL
<1> QED BY <1>4, <1>5 DEF CensusStands

(***************************************************************************)
(* Learning work                                                           *)
(***************************************************************************)

PupilRequest(n) == [op : {"save", "submit", "attach"}, first : BOOLEAN, base : {NoBase} \union 0..n]

\* The state with its domains, which WorkTypeOK leaves open.
WorkTyped ==
  /\ work \in WorkStatuses
  /\ submission \in [status : SubmissionStatuses \union {"none"}, current : 0..MaxRevisions]
  /\ revisions \in Seq(SUBSET WorkFiles) /\ Len(revisions) <= MaxRevisions
  /\ mark \in {"none", "again", "settled"}
  /\ tabs \in [PupilTabs -> {IdleTab} \union PupilRequest(Len(revisions))]
  /\ strayed \subseteq WorkFiles

\* The inductive invariant of learning work.
WorkInv == WorkTyped /\ VerdictStands /\ NewestIsShown

\* No request, no revision: the invariant holds at first.
LEMMA WorkInvInit == WorkInit => WorkInv
<1> SUFFICES ASSUME WorkInit PROVE WorkInv
  OBVIOUS
<1>1. <<>> \in Seq(SUBSET WorkFiles) /\ Len(<<>>) = 0
  OBVIOUS
<1>2. WorkTyped
  BY <1>1, RevisionsAssumption DEF WorkInit, WorkTyped, WorkStatuses, SubmissionStatuses
<1>3. VerdictStands
  BY DEF WorkInit, VerdictStands
<1>4. NewestIsShown
  BY <1>1 DEF WorkInit, NewestIsShown
<1> QED BY <1>2, <1>3, <1>4 DEF WorkInv

\* Moving the work, and the steps of a tab that write nothing, touch neither the
\* submission nor its revisions.
LEMMA WorkQuietStep ==
  ASSUME WorkInv, UNCHANGED <<submission, revisions, mark, strayed>>,
         work' \in WorkStatuses,
         tabs' \in [PupilTabs -> {IdleTab} \union PupilRequest(Len(revisions))]
  PROVE  WorkInv'
BY DEF WorkInv, WorkTyped, VerdictStands, NewestIsShown, FilesOf

\* A tab reads a base that exists.
LEMMA ReadBaseTyped ==
  ASSUME WorkInv, NEW t \in PupilTabs, ReadBase(t)
  PROVE  tabs' \in [PupilTabs -> {IdleTab} \union PupilRequest(Len(revisions))]
<1>1. tabs[t] \in PupilRequest(Len(revisions))
  BY DEF WorkInv, WorkTyped, ReadBase
<1>2. submission.current \in 0..Len(revisions)
  BY DEF WorkInv, WorkTyped, NewestIsShown
<1>3. [tabs[t] EXCEPT !.base = IF tabs[t].first THEN 0 ELSE submission.current]
        \in PupilRequest(Len(revisions))
  BY <1>1, <1>2 DEF PupilRequest
<1>4. tabs' = [tabs EXCEPT ![t] =
                 [tabs[t] EXCEPT !.base = IF tabs[t].first THEN 0 ELSE submission.current]]
  BY DEF ReadBase
<1> QED BY <1>3, <1>4 DEF WorkInv, WorkTyped

\* A mark and the status it gives agree.
LEMMA GiveMarkKeeps ==
  ASSUME WorkInv, NEW status \in {"returned", "completed", "resubmission_requested"},
         GiveMark(status)
  PROVE  WorkInv'
<1>1. WorkTyped'
  BY DEF WorkInv, WorkTyped, GiveMark, SubmissionStatuses
<1>2. submission'.status = status /\ submission'.current = submission.current
  BY DEF WorkInv, WorkTyped, GiveMark
<1>3. VerdictStands'
  BY <1>2 DEF GiveMark, VerdictStands
<1>4. NewestIsShown'
  BY <1>2 DEF WorkInv, GiveMark, NewestIsShown, FilesOf
<1> QED BY <1>1, <1>3, <1>4 DEF WorkInv

\* What the pupil writes never moves settled work: the trigger refuses it.
LEMMA SettledWorkRefuses ==
  ASSUME WorkInv, NEW t \in PupilTabs, NEW status \in {"in_progress", "submitted"},
         Admitted(t, status)
  PROVE  mark # "settled"
<1> SUFFICES ASSUME mark = "settled" PROVE FALSE
  BY DEF WorkInv, WorkTyped
<1>1. submission.status \in {"returned", "completed"}
  BY DEF WorkInv, VerdictStands
<1>2. SubmissionAllowed(submission.status, status)
  BY <1>1 DEF Admitted
<1> QED BY <1>1, <1>2 DEF SubmissionAllowed, SubmissionMoves

\* A new revision takes the files of its base; those of the revision that was current
\* are there, or have strayed.
LEMMA WriteRevisionKeeps ==
  ASSUME WorkInv, NEW t \in PupilTabs, NEW op \in {"save", "submit"},
         NEW status \in {"in_progress", "submitted"}, WriteRevision(t, op, status)
  PROVE  WorkInv'
<1> DEFINE files == FilesOf(tabs[t].base)
           n == Len(revisions)
<1>1. /\ tabs[t] \in PupilRequest(n) /\ tabs[t].base \in 0..n /\ n \in Nat /\ n < MaxRevisions
      /\ revisions \in Seq(SUBSET WorkFiles) /\ submission.current = n
  BY DEF WorkInv, WorkTyped, WriteRevision, IdleTab, Admitted, PupilRequest, NewestIsShown
<1>2. files \in SUBSET WorkFiles
  BY <1>1 DEF FilesOf
<1>3. /\ revisions' = Append(revisions, files)
      /\ submission' = [status |-> status, current |-> n + 1]
      /\ strayed' = IF tabs[t].base = submission.current
                    THEN strayed ELSE strayed \union (FilesOf(submission.current) \ files)
      /\ tabs' = [tabs EXCEPT ![t] = IdleTab]
      /\ work' = work /\ mark' = mark
  BY DEF WriteRevision
<1> HIDE DEF files
<1>4. /\ revisions' \in Seq(SUBSET WorkFiles) /\ Len(revisions') = n + 1
      /\ revisions'[n + 1] = files /\ \A k \in 1..n : revisions'[k] = revisions[k]
  BY <1>1, <1>2, <1>3
<1>5. WorkTyped'
  <2>1. submission' \in [status : SubmissionStatuses \union {"none"}, current : 0..MaxRevisions]
    BY <1>1, <1>3, RevisionsAssumption DEF SubmissionStatuses
  <2>2. PupilRequest(n) \subseteq PupilRequest(n + 1)
    BY <1>1 DEF PupilRequest
  <2>3. tabs' \in [PupilTabs -> {IdleTab} \union PupilRequest(n + 1)]
    BY <1>3, <2>2 DEF WorkInv, WorkTyped
  <2>4. strayed' \subseteq WorkFiles
    BY <1>1, <1>3 DEF WorkInv, WorkTyped, FilesOf
  <2> QED BY <1>1, <1>3, <1>4, <2>1, <2>3, <2>4, RevisionsAssumption DEF WorkInv, WorkTyped
<1>6. VerdictStands'
  <2>1. mark # "settled"
    BY SettledWorkRefuses DEF WriteRevision
  <2> QED BY <1>3, <2>1 DEF VerdictStands
<1>7. NewestIsShown'
  <2>1. FilesOf(submission.current)' = files
    BY <1>1, <1>3, <1>4 DEF FilesOf
  <2>2. ASSUME NEW k \in 1..n PROVE revisions'[k] \subseteq files \union strayed'
    <3>1. revisions[k] \subseteq FilesOf(submission.current) \union strayed
      BY DEF WorkInv, NewestIsShown
    <3>2. CASE tabs[t].base = submission.current
      BY <1>3, <1>4, <3>1, <3>2 DEF files
    <3>3. CASE tabs[t].base # submission.current
      BY <1>3, <1>4, <3>1, <3>3
    <3> QED BY <3>2, <3>3
  <2> QED BY <1>1, <1>3, <1>4, <2>1, <2>2 DEF NewestIsShown
<1> QED BY <1>5, <1>6, <1>7 DEF WorkInv

\* A file that is attached is in the newest revision, or has strayed.
LEMMA AttachFileKeeps ==
  ASSUME WorkInv, NEW t \in PupilTabs, NEW f \in WorkFiles, AttachFile(t, f)
  PROVE  WorkInv'
<1> DEFINE n == tabs[t].base
<1>1. /\ tabs[t] \in PupilRequest(Len(revisions)) /\ n \in 1..Len(revisions)
      /\ revisions \in Seq(SUBSET WorkFiles) /\ submission.current = Len(revisions)
  BY DEF WorkInv, WorkTyped, AttachFile, IdleTab, PupilRequest, NewestIsShown
<1>2. /\ revisions' = [revisions EXCEPT ![n] = revisions[n] \union {f}]
      /\ strayed' = IF n = submission.current THEN strayed ELSE strayed \union {f}
      /\ tabs' = [tabs EXCEPT ![t] = IdleTab]
      /\ work' = work /\ mark' = mark /\ submission' = submission
  BY DEF AttachFile
<1> HIDE DEF n
<1>3. /\ revisions' \in Seq(SUBSET WorkFiles) /\ Len(revisions') = Len(revisions)
      /\ revisions'[n] = revisions[n] \union {f}
      /\ \A k \in 1..Len(revisions) : k # n => revisions'[k] = revisions[k]
  BY <1>1, <1>2
<1>4. WorkTyped' /\ VerdictStands'
  BY <1>2, <1>3, Zenon DEF WorkInv, WorkTyped, VerdictStands
<1>5. NewestIsShown'
  <2>1. /\ FilesOf(submission.current) = revisions[submission.current]
        /\ FilesOf(submission.current)' = revisions'[submission.current]
    BY <1>1, <1>2 DEF FilesOf
  <2>2. ASSUME NEW k \in 1..Len(revisions)
        PROVE  revisions'[k] \subseteq revisions'[submission.current] \union strayed'
    <3>1. revisions[k] \subseteq revisions[submission.current] \union strayed
      BY <2>1 DEF WorkInv, NewestIsShown
    <3>2. revisions[submission.current] \subseteq revisions'[submission.current]
      BY <1>1, <1>3, SMTT(30)
    <3>3. f \in revisions'[submission.current] \union strayed' /\ strayed \subseteq strayed'
      BY <1>1, <1>2, <1>3, Zenon
    <3> QED BY <1>3, <3>1, <3>2, <3>3
  <2> QED BY <1>1, <1>2, <1>3, <2>1, <2>2, Zenon DEF NewestIsShown
<1> QED BY <1>4, <1>5 DEF WorkInv

\* The first attachment makes revision 1.
LEMMA AttachFirstKeeps ==
  ASSUME WorkInv, NEW t \in PupilTabs, NEW f \in WorkFiles, AttachFirst(t, f)
  PROVE  WorkInv'
<1>1. /\ revisions = <<>> /\ revisions' = << {f} >> /\ Len(revisions) = 0 /\ Len(revisions') = 1
      /\ revisions' \in Seq(SUBSET WorkFiles) /\ revisions'[1] = {f}
      /\ submission' = [status |-> "in_progress", current |-> 1]
      /\ tabs' = [tabs EXCEPT ![t] = IdleTab]
      /\ work' = work /\ mark' = mark /\ strayed' = strayed
  BY DEF AttachFirst
<1>2. WorkTyped'
  <2>1. PupilRequest(0) \subseteq PupilRequest(1)
    BY DEF PupilRequest
  <2>2. tabs' \in [PupilTabs -> {IdleTab} \union PupilRequest(1)]
    BY <1>1, <2>1 DEF WorkInv, WorkTyped
  <2> QED BY <1>1, <2>2, RevisionsAssumption DEF WorkInv, WorkTyped, SubmissionStatuses
<1>3. VerdictStands'
  <2>1. mark # "settled"
    BY SettledWorkRefuses DEF AttachFirst
  <2> QED BY <1>1, <2>1 DEF VerdictStands
<1>4. NewestIsShown'
  BY <1>1 DEF NewestIsShown, FilesOf
<1> QED BY <1>2, <1>3, <1>4 DEF WorkInv

\* Every step of learning work keeps its invariant.
LEMMA WorkStep ==
  ASSUME WorkInv, [WorkNext]_workVars
  PROVE  WorkInv'
<1> USE DEF WorkInv, WorkTyped
<1>1. ASSUME NEW to \in WorkStatuses, MoveWork(to) PROVE WorkInv'
  <2>1. UNCHANGED <<submission, revisions, mark, tabs, strayed>> /\ work' = to
    BY <1>1 DEF MoveWork
  <2> QED BY <2>1, WorkQuietStep
<1>2. ASSUME NEW t \in PupilTabs, NEW op \in {"save", "submit", "attach"}, OpenTab(t, op)
      PROVE  WorkInv'
  <2>1. [op |-> op, first |-> (submission.status = "none"), base |-> NoBase]
          \in PupilRequest(Len(revisions))
    BY DEF PupilRequest
  <2>2. tabs' = [tabs EXCEPT ![t] =
                   [op |-> op, first |-> (submission.status = "none"), base |-> NoBase]]
    BY <1>2 DEF OpenTab
  <2>3. UNCHANGED <<work, submission, revisions, mark, strayed>>
    BY <1>2 DEF OpenTab
  <2> QED BY <2>1, <2>2, <2>3, WorkQuietStep
<1>3. ASSUME NEW t \in PupilTabs, ReadBase(t) PROVE WorkInv'
  <2>1. UNCHANGED <<work, submission, revisions, mark, strayed>>
    BY <1>3 DEF ReadBase
  <2> QED BY <1>3, <2>1, ReadBaseTyped, WorkQuietStep
<1>4. ASSUME NEW t \in PupilTabs, TabFails(t) PROVE WorkInv'
  <2>1. UNCHANGED <<work, submission, revisions, mark, strayed>>
        /\ tabs' = [tabs EXCEPT ![t] = IdleTab]
    BY <1>4 DEF TabFails
  <2> QED BY <2>1, WorkQuietStep
<1>5. ASSUME UNCHANGED workVars PROVE WorkInv'
  BY <1>5, WorkQuietStep DEF workVars
<1> QED
  BY <1>1, <1>2, <1>3, <1>4, <1>5, GiveMarkKeeps, WriteRevisionKeeps, AttachFileKeeps,
     AttachFirstKeeps DEF WorkNext

\* What a pupil handed in is kept, the newest revision shows every file but those an
\* overlapping request left behind, and settled work is not reopened by a request that
\* was in flight when it was marked (the transition trigger of migration 0018).
THEOREM WorkIsAlwaysKept == WorkSpec => []WorkIsKept
<1>1. WorkInit => WorkInv
  BY WorkInvInit
<1>2. WorkInv /\ [WorkNext]_workVars => WorkInv'
  BY WorkStep
<1>3. WorkInv => WorkIsKept
  <2> SUFFICES ASSUME WorkInv PROVE WorkTypeOK
    BY DEF WorkInv, WorkIsKept
  <2> QED BY DEF WorkInv, WorkTyped, WorkTypeOK, PupilRequest
<1> QED BY <1>1, <1>2, <1>3, PTL DEF WorkSpec

(***************************************************************************)
(* Assessment results                                                      *)
(***************************************************************************)

ResultRow == [score : Nat, max : 1..MaxMarks, released : BOOLEAN,
              review : {"entered", "reviewed", "approved"}]
TeacherTask ==
  {[op |-> "edit"]}
    \union [op : {"enter"}, pupil : Sitters, max : 1..MaxMarks, published : BOOLEAN]

\* The state with its domains, which ResultsTypeOK leaves open.
ResultsTyped ==
  /\ assessment \in [status : AssessmentStatuses, max : 1..MaxMarks, published : BOOLEAN]
  /\ included \subseteq Sitters
  /\ results \in [Sitters -> {NoResult} \union ResultRow]
  /\ teachers \in [Teachers -> {NoTask} \union TeacherTask]
  /\ told \subseteq Sitters /\ late \subseteq Sitters

ResultsMeasured ==
  \A p \in Sitters : results[p] # NoResult => results[p].score <= results[p].max /\ p \in included

\* An assessment that was published never takes results again, so no request that enters
\* results has read it published.
EntryIsClosed ==
  /\ assessment.published => assessment.status \in {"published", "archived"}
  /\ assessment.status = "published" => assessment.published
  /\ \A t \in Teachers : teachers[t].op = "enter" => ~teachers[t].published

\* The inductive invariant of assessment results.
ResultsInv == ResultsTyped /\ ResultsMeasured /\ EntryIsClosed /\ VisibleIsAnnounced

\* A draft without results: the invariant holds at first.
LEMMA ResultsInvInit == ResultsInit => ResultsInv
BY MaxMarksAssumption
   DEF ResultsInit, ResultsInv, ResultsTyped, ResultsMeasured, EntryIsClosed, VisibleIsAnnounced,
       VisibleTo, AssessmentStatuses, NoTask

\* A row of a result is not the absence of one, and a task is not the absence of one.
LEMMA RowsAndTasks ==
  /\ \A row \in ResultRow : row # NoResult
  /\ \A task \in TeacherTask : task # NoTask /\ task.op \in {"enter", "edit"}
BY DEF ResultRow, NoResult, TeacherTask, NoTask

\* Moving the assessment opens it to entry only before it is published, and publishing
\* announces what is released.
LEMMA AssessmentMovesKeep ==
  ASSUME ResultsInv,
         \/ \E pupils \in SUBSET Sitters : OpenAssessment(pupils)
         \/ \E to \in {"completed", "reviewed", "archived"} : MoveAssessment(to)
         \/ PublishAssessment
  PROVE  ResultsInv' /\ PublishedStays
<1>1. /\ UNCHANGED <<results, teachers, late>>
      /\ included \subseteq included' /\ included' \subseteq Sitters
      /\ told \subseteq told' /\ told' \subseteq Sitters
  BY DEF ResultsInv, ResultsTyped, OpenAssessment, MoveAssessment, PublishAssessment
<1>2. /\ assessment' \in [status : AssessmentStatuses, max : 1..MaxMarks, published : BOOLEAN]
      /\ assessment'.published => assessment'.status \in {"published", "archived"}
      /\ assessment'.status = "published" => assessment'.published
      /\ assessment.published => assessment'.published
  <2>1. ASSUME NEW pupils \in SUBSET Sitters, OpenAssessment(pupils)
        PROVE  /\ assessment' = [assessment EXCEPT !.status = "open"]
               /\ assessment.status \notin {"published", "archived"}
    BY <2>1 DEF OpenAssessment, AssessmentAllowed, AssessmentMoves
  <2>2. ASSUME NEW to \in {"completed", "reviewed", "archived"}, MoveAssessment(to)
        PROVE  /\ assessment' = [assessment EXCEPT !.status = to]
               /\ assessment.status = "published" => to = "archived"
               /\ assessment.status # "archived"
    BY <2>2 DEF MoveAssessment, AssessmentMoves
  <2>3. ASSUME PublishAssessment
        PROVE  assessment' = [assessment EXCEPT !.status = "published", !.published = TRUE]
    BY <2>3 DEF PublishAssessment
  <2> QED BY <2>1, <2>2, <2>3 DEF ResultsInv, ResultsTyped, EntryIsClosed, AssessmentStatuses
<1>3. VisibleIsAnnounced'
  <2>1. ASSUME NEW p \in Sitters, VisibleTo(p)' PROVE p \in told' \union late'
    <3>1. CASE VisibleTo(p)
      BY <1>1, <3>1 DEF ResultsInv, VisibleIsAnnounced
    <3>2. CASE ~VisibleTo(p)
      <4>1. ~assessment.published /\ assessment'.published /\ results[p] # NoResult /\ results[p].released
        BY <1>1, <1>2, <2>1, <3>2 DEF VisibleTo
      <4>2. PublishAssessment
        BY <4>1 DEF ResultsInv, ResultsTyped, OpenAssessment, MoveAssessment
      <4> QED BY <4>1, <4>2 DEF PublishAssessment
    <3> QED BY <3>1, <3>2
  <2> QED BY <2>1 DEF VisibleIsAnnounced
<1> QED
  BY <1>1, <1>2, <1>3 DEF ResultsInv, ResultsTyped, ResultsMeasured, EntryIsClosed, PublishedStays

\* The requests that read, that edit the definition or that fail write no result.
LEMMA TasksKeep ==
  ASSUME ResultsInv, NEW t \in Teachers,
         \/ EditRead(t)
         \/ \E max \in 1..MaxMarks : EditWrite(t, max)
         \/ \E p \in Sitters : EnterRead(t, p)
         \/ TaskFails(t)
  PROVE  ResultsInv' /\ PublishedStays
<1>1. /\ UNCHANGED <<included, results, told, late>>
      /\ assessment'.status = assessment.status /\ assessment'.published = assessment.published
      /\ assessment' \in [status : AssessmentStatuses, max : 1..MaxMarks, published : BOOLEAN]
  BY DEF ResultsInv, ResultsTyped, EditRead, EditWrite, EnterRead, TaskFails
<1>2. \E task \in {NoTask} \union TeacherTask :
        /\ teachers' = [teachers EXCEPT ![t] = task]
        /\ task.op = "enter" => ~task.published
  <2>1. ASSUME NEW p \in Sitters, EnterRead(t, p)
        PROVE  \E task \in {NoTask} \union TeacherTask :
                 /\ teachers' = [teachers EXCEPT ![t] = task]
                 /\ task.op = "enter" => ~task.published
    <3> DEFINE task == [op |-> "enter", pupil |-> p, max |-> assessment.max,
                        published |-> assessment.published]
    <3>1. task \in TeacherTask /\ task.published = assessment.published
      BY DEF ResultsInv, ResultsTyped, TeacherTask
    <3>2. ~assessment.published
      BY <2>1 DEF ResultsInv, EntryIsClosed, EnterRead, CanEnterResults
    <3> QED BY <2>1, <3>1, <3>2 DEF EnterRead
  <2> QED BY <2>1 DEF EditRead, EditWrite, TaskFails, NoTask, TeacherTask
<1>3. ResultsTyped' /\ EntryIsClosed'
  BY <1>1, <1>2 DEF ResultsInv, ResultsTyped, EntryIsClosed
<1> QED
  BY <1>1, <1>3 DEF ResultsInv, ResultsMeasured, VisibleIsAnnounced, VisibleTo, PublishedStays

\* A result that is written after the publication is remembered as late.
LEMMA EnterWriteKeeps ==
  ASSUME ResultsInv, NEW t \in Teachers, NEW score \in 0..MaxMarks,
         NEW release \in {"yes", "no", "keep"}, EnterWrite(t, score, release)
  PROVE  ResultsInv' /\ PublishedStays
<1>1. PICK p \in Sitters : p = teachers[t].pupil
  BY DEF ResultsInv, ResultsTyped, EnterWrite, TeacherTask, NoTask
<1> DEFINE old == results[p]
           released == IF release = "keep" THEN old # NoResult /\ old.released ELSE release = "yes"
           row == Result(score, assessment.max, released,
                         IF old = NoResult THEN "entered" ELSE old.review)
<1>2. /\ results' = [results EXCEPT ![p] = row]
      /\ p \in included /\ score <= assessment.max
      /\ teachers' = [teachers EXCEPT ![t] = NoTask]
      /\ UNCHANGED <<assessment, included>>
  BY <1>1 DEF EnterWrite
<1>3. ~teachers[t].published
  BY DEF ResultsInv, EntryIsClosed, EnterWrite
<1>4. told' = told /\ late' = IF assessment.published THEN late \union {p} ELSE late
  BY <1>1, <1>3 DEF EnterWrite
<1>5. row \in ResultRow /\ row # NoResult /\ row.score = score /\ row.max = assessment.max
  <2>1. released \in BOOLEAN
    BY DEF ResultsInv, ResultsTyped, ResultRow
  <2>2. (IF old = NoResult THEN "entered" ELSE old.review) \in {"entered", "reviewed", "approved"}
    BY DEF ResultsInv, ResultsTyped, ResultRow
  <2> QED BY <2>1, <2>2 DEF Result, ResultRow, NoResult, ResultsInv, ResultsTyped
<1> HIDE DEF row
<1>6. ResultsTyped'
  BY <1>2, <1>4, <1>5 DEF ResultsInv, ResultsTyped
<1>7. /\ results'[p] = row
      /\ \A s \in Sitters \ {p} : results'[s] = results[s]
  BY <1>2 DEF ResultsInv, ResultsTyped
<1>8. ResultsMeasured'
  BY <1>2, <1>5, <1>7 DEF ResultsInv, ResultsMeasured
<1>9. EntryIsClosed'
  BY <1>2 DEF ResultsInv, ResultsTyped, EntryIsClosed, NoTask
<1>10. VisibleIsAnnounced' /\ PublishedStays
  BY <1>2, <1>4, <1>7 DEF ResultsInv, VisibleIsAnnounced, VisibleTo, PublishedStays
<1> QED BY <1>6, <1>8, <1>9, <1>10 DEF ResultsInv

\* A review moves neither the score nor the release of a result.
LEMMA ReviewResultKeeps ==
  ASSUME ResultsInv, NEW p \in Sitters, NEW verdict \in {"reviewed", "approved"},
         ReviewResult(p, verdict)
  PROVE  ResultsInv' /\ PublishedStays
<1> DEFINE row == [results[p] EXCEPT !.review = verdict, !.max = assessment.max]
<1>1. /\ results[p] \in ResultRow /\ results[p].score <= assessment.max
      /\ results' = [results EXCEPT ![p] = row]
      /\ UNCHANGED <<assessment, included, teachers, told, late>>
  BY DEF ResultsInv, ResultsTyped, ReviewResult
<1>2. /\ row \in ResultRow /\ row # NoResult /\ row.score = results[p].score
      /\ row.released = results[p].released /\ row.max = assessment.max
  BY <1>1 DEF ResultsInv, ResultsTyped, ResultRow, NoResult
<1> HIDE DEF row
<1>3. /\ results'[p] = row /\ results[p] # NoResult
      /\ \A s \in Sitters \ {p} : results'[s] = results[s]
  BY <1>1, RowsAndTasks DEF ResultsInv, ResultsTyped
<1>4. ResultsTyped'
  BY <1>1, <1>2 DEF ResultsInv, ResultsTyped
<1>5. ResultsMeasured' /\ EntryIsClosed'
  BY <1>1, <1>2, <1>3 DEF ResultsInv, ResultsMeasured, EntryIsClosed
<1>6. VisibleIsAnnounced' /\ PublishedStays
  BY <1>1, <1>2, <1>3 DEF ResultsInv, VisibleIsAnnounced, VisibleTo, PublishedStays
<1> QED BY <1>4, <1>5, <1>6 DEF ResultsInv

\* Every step keeps the invariant, and what is published.
LEMMA ResultsStep ==
  ASSUME ResultsInv, [ResultsNext]_resultVars
  PROVE  ResultsInv' /\ (PublishedStays \/ UNCHANGED resultVars)
<1>1. CASE ResultsNext
  BY <1>1, AssessmentMovesKeep, TasksKeep, EnterWriteKeeps, ReviewResultKeeps DEF ResultsNext
<1>2. CASE UNCHANGED resultVars
  BY <1>2 DEF resultVars, ResultsInv, ResultsTyped, ResultsMeasured, EntryIsClosed,
     VisibleIsAnnounced, VisibleTo
<1> QED BY <1>1, <1>2

\* A family was told of every result it can see, and the score and the release of a
\* published result do not move, unless the result was written by a request that had read
\* the assessment before its publication (EnterRead, EnterWrite and PublishAssessment).
THEOREM PublishedResultsStand == ResultsSpec => ResultsStand
<1>1. ResultsInit => ResultsInv
  BY ResultsInvInit
<1>2. ResultsInv /\ [ResultsNext]_resultVars => ResultsInv' /\ [PublishedStays]_resultVars
  BY ResultsStep
<1>3. ResultsInv => ResultsTypeOK /\ VisibleIsAnnounced
  BY RowsAndTasks DEF ResultsInv, ResultsTyped, ResultsMeasured, ResultsTypeOK, ResultRow
<1>4. ResultsSpec => []ResultsInv /\ [][PublishedStays]_resultVars
  BY <1>1, <1>2, PTL DEF ResultsSpec
<1>5. ResultsSpec => [](ResultsTypeOK /\ VisibleIsAnnounced)
  BY <1>3, <1>4, PTL
<1> QED BY <1>4, <1>5 DEF ResultsStand

(***************************************************************************)
(* Pupil reports                                                           *)
(***************************************************************************)

ReportCopy == [comment : ReportTexts, sections : ReportTexts]
SectionEdit == [op : {"section"}, text : ReportTexts]
PublishEdit == [op : {"publish"}, crossed : BOOLEAN, payload : ReportCopy]

WorkingCopy == [comment |-> report.comment, sections |-> sections]

\* The state with its domains, which ReportsTypeOK leaves open.
ReportsTyped ==
  /\ report \in [status : ReportStatuses, comment : ReportTexts]
  /\ sections \in ReportTexts
  /\ publications \in Seq(ReportCopy) /\ Len(publications) <= MaxPublications
  /\ editors \in [Editors -> {NoEdit} \union SectionEdit \union PublishEdit]
  /\ crossed \in BOOLEAN

\* Only a publication locks the report, and an open report was never published.
LockedOncePublished ==
  /\ publications # <<>> => report.status \in ReportLocked
  /\ report.status = "published" => publications # <<>>

\* One publication at a time holds the row; what it froze is the working copy, unless a
\* section was committed since.
FreezeHoldsTheRow ==
  \A e \in Editors : editors[e].op = "publish" =>
    /\ \A d \in Editors : editors[d].op = "publish" => d = e
    /\ Len(publications) < MaxPublications
    /\ ~editors[e].crossed => editors[e].payload = WorkingCopy

\* The inductive invariant of pupil reports.
ReportsInv == ReportsTyped /\ LockedOncePublished /\ FreezeHoldsTheRow /\ ShownIsWorkingCopy

\* The edits in flight and the absence of one are told apart by their operation.
LEMMA EditKinds ==
  /\ NoEdit.op = "none"
  /\ \A edit \in SectionEdit : edit.op = "section" /\ edit.text \in ReportTexts
  /\ \A edit \in PublishEdit : edit.op = "publish" /\ edit.payload \in ReportCopy /\ edit.crossed \in BOOLEAN
BY DEF NoEdit, SectionEdit, PublishEdit

\* A blank draft: the invariant holds at first.
LEMMA ReportsInvInit == ReportsInit => ReportsInv
<1> SUFFICES ASSUME ReportsInit PROVE ReportsInv
  OBVIOUS
<1>1. <<>> \in Seq(ReportCopy) /\ Len(<<>>) = 0
  OBVIOUS
<1>2. ReportsTyped
  <2>1. report \in [status : ReportStatuses, comment : ReportTexts]
    BY BlankAssumption DEF ReportsInit, ReportStatuses
  <2>2. publications \in Seq(ReportCopy) /\ Len(publications) <= MaxPublications
    BY <1>1, BlankAssumption DEF ReportsInit
  <2> QED BY <2>1, <2>2, BlankAssumption DEF ReportsInit, ReportsTyped
<1>3. FreezeHoldsTheRow
  BY EditKinds DEF ReportsInit, FreezeHoldsTheRow
<1> QED
  BY <1>2, <1>3 DEF ReportsInit, ReportsInv, LockedOncePublished, ShownIsWorkingCopy, ReportLocked

\* Moving the report never opens one that was published.
LEMMA MoveReportKeeps ==
  ASSUME ReportsInv, NEW to \in {"submitted_for_review", "approved", "archived"}, MoveReport(to)
  PROVE  ReportsInv' /\ ReportsAreKept
<1>1. /\ report' = [report EXCEPT !.status = to]
      /\ UNCHANGED <<sections, publications, editors, crossed>>
  BY DEF MoveReport
<1>2. /\ report.status \in ReportLocked => to = "archived"
      /\ \A e \in Editors : editors[e].op # "publish"
  BY DEF MoveReport, ReportMoves, ReportLocked, RowFree
<1>3. report'.status = to /\ report'.comment = report.comment
  BY <1>1 DEF ReportsInv, ReportsTyped
<1>4. ReportsTyped'
  BY <1>1 DEF ReportsInv, ReportsTyped, ReportStatuses
<1>5. LockedOncePublished' /\ FreezeHoldsTheRow'
  BY <1>1, <1>2, <1>3 DEF ReportsInv, LockedOncePublished, FreezeHoldsTheRow, ReportLocked
<1>6. ShownIsWorkingCopy'
  BY <1>1, <1>3 DEF ReportsInv, LockedOncePublished, ShownIsWorkingCopy, Shown
<1>7. ReportsAreKept
  <2>1. SubSeq(publications', 1, Len(publications)) = publications
    <3>1. publications \in Seq(ReportCopy)
      BY DEF ReportsInv, ReportsTyped
    <3> QED BY <1>1, <3>1, SubSeqFull
  <2> QED BY <1>2, <1>3, <2>1 DEF ReportsAreKept, ReportLocked
<1> QED BY <1>4, <1>5, <1>6, <1>7 DEF ReportsInv
\* A comment is written to an open report that nobody is publishing.
LEMMA WriteCommentKeeps ==
  ASSUME ReportsInv, NEW text \in ReportTexts, WriteComment(text)
  PROVE  ReportsInv' /\ ReportsAreKept
<1>1. /\ report' = [report EXCEPT !.comment = text]
      /\ UNCHANGED <<sections, publications, editors, crossed>>
      /\ report.status \notin ReportLocked /\ \A e \in Editors : editors[e].op # "publish"
  BY DEF WriteComment, RowFree
<1>2. report'.status = report.status
  BY <1>1 DEF ReportsInv, ReportsTyped
<1>3. publications = <<>> /\ SubSeq(publications, 1, Len(publications)) = publications
  <2>1. publications = <<>> /\ publications \in Seq(ReportCopy)
    BY <1>1 DEF ReportsInv, ReportsTyped, LockedOncePublished
  <2> QED BY <2>1, SubSeqFull
<1>4. ReportsTyped'
  BY <1>1 DEF ReportsInv, ReportsTyped
<1> QED
  BY <1>1, <1>2, <1>3, <1>4 DEF ReportsInv, LockedOncePublished, FreezeHoldsTheRow,
     ShownIsWorkingCopy, ReportsAreKept, ReportLocked

\* The steps of an editor that write neither the report, nor the sections, nor a
\* publication keep the invariant, if what they put in flight does.
LEMMA EditorStepKeeps ==
  ASSUME ReportsInv, UNCHANGED <<report, sections, publications, crossed>>,
         NEW e \in Editors, NEW edit \in {NoEdit} \union SectionEdit \union PublishEdit,
         editors' = [editors EXCEPT ![e] = edit],
         edit.op = "publish" =>
           /\ RowFree
           /\ Len(publications) < MaxPublications
           /\ edit.payload = WorkingCopy
  PROVE  ReportsInv' /\ ReportsAreKept
<1>1. ReportsTyped' /\ LockedOncePublished' /\ ShownIsWorkingCopy'
  BY DEF ReportsInv, ReportsTyped, LockedOncePublished, ShownIsWorkingCopy, Shown
<1>2. FreezeHoldsTheRow'
  <2>1. /\ editors'[e] = edit
        /\ \A d \in Editors \ {e} : editors'[d] = editors[d]
    BY DEF ReportsInv, ReportsTyped
  <2>2. WorkingCopy' = WorkingCopy
    BY DEF WorkingCopy
  <2> QED BY <2>1, <2>2 DEF ReportsInv, FreezeHoldsTheRow, RowFree
<1>3. ReportsAreKept
  <2>1. SubSeq(publications, 1, Len(publications)) = publications
    BY SubSeqFull DEF ReportsInv, ReportsTyped
  <2> QED BY <2>1 DEF ReportsInv, LockedOncePublished, ReportsAreKept, ReportLocked
<1> QED BY <1>1, <1>2, <1>3 DEF ReportsInv

\* A section that is committed marks every publication that has read the sections.
LEMMA CommitSectionKeeps ==
  ASSUME ReportsInv, NEW e \in Editors, CommitSection(e)
  PROVE  ReportsInv' /\ ReportsAreKept
<1>1. /\ editors[e] \in SectionEdit
      /\ sections' = editors[e].text /\ sections' \in ReportTexts
      /\ UNCHANGED <<report, publications>>
      /\ crossed' = (crossed \/ ~SectionsOpen)
      /\ editors' = [d \in Editors |->
                       IF d = e THEN NoEdit
                       ELSE IF editors[d].op = "publish" THEN [editors[d] EXCEPT !.crossed = TRUE]
                       ELSE editors[d]]
  <2>1. editors[e] \in SectionEdit
    BY EditKinds DEF CommitSection, ReportsInv, ReportsTyped
  <2> QED BY <2>1, EditKinds DEF CommitSection
<1>2. ASSUME NEW d \in Editors
      PROVE  /\ editors'[d] \in {NoEdit} \union SectionEdit \union PublishEdit
             /\ editors'[d].op = "publish" => editors[d].op = "publish" /\ editors'[d].crossed
  <2>1. CASE d = e
    BY <1>1, <2>1, EditKinds
  <2>2. CASE d # e /\ editors[d].op = "publish"
    <3>1. editors[d] \in PublishEdit /\ editors'[d] = [editors[d] EXCEPT !.crossed = TRUE]
      BY <1>1, <2>2, EditKinds DEF ReportsInv, ReportsTyped
    <3> QED BY <2>2, <3>1 DEF PublishEdit
  <2>3. CASE d # e /\ editors[d].op # "publish"
    BY <1>1, <2>3 DEF ReportsInv, ReportsTyped
  <2> QED BY <2>1, <2>2, <2>3
<1>3. ReportsTyped'
  <2>1. editors' \in [Editors -> {NoEdit} \union SectionEdit \union PublishEdit]
    BY <1>1, <1>2
  <2>2. crossed' \in BOOLEAN
    BY <1>1
  <2> QED BY <1>1, <2>1, <2>2 DEF ReportsInv, ReportsTyped
<1>4. LockedOncePublished' /\ FreezeHoldsTheRow'
  BY <1>1, <1>2 DEF ReportsInv, LockedOncePublished, FreezeHoldsTheRow
<1>5. ShownIsWorkingCopy'
  BY <1>1 DEF ShownIsWorkingCopy, SectionsOpen
<1>6. ReportsAreKept
  <2>1. SubSeq(publications, 1, Len(publications)) = publications
    BY SubSeqFull DEF ReportsInv, ReportsTyped
  <2> QED BY <1>1, <2>1 DEF ReportsInv, LockedOncePublished, ReportsAreKept, ReportLocked
<1> QED BY <1>3, <1>4, <1>5, <1>6 DEF ReportsInv

\* A publication that commits appends what it froze.
LEMMA CommitPublicationKeeps ==
  ASSUME ReportsInv, NEW e \in Editors, CommitPublication(e)
  PROVE  ReportsInv' /\ ReportsAreKept
<1> DEFINE copy == editors[e].payload
<1>1. /\ editors[e] \in PublishEdit /\ editors[e].op = "publish" /\ copy \in ReportCopy
      /\ report' = [report EXCEPT !.status = "published"]
      /\ publications' = Append(publications, copy)
      /\ crossed' = editors[e].crossed /\ crossed' \in BOOLEAN
      /\ editors' = [editors EXCEPT ![e] = NoEdit]
      /\ sections' = sections
      /\ publications \in Seq(ReportCopy) /\ Len(publications) < MaxPublications
      /\ ~editors[e].crossed => copy = WorkingCopy
      /\ \A d \in Editors : editors[d].op = "publish" => d = e
  <2>1. editors[e] \in PublishEdit
    BY EditKinds DEF CommitPublication, ReportsInv, ReportsTyped
  <2> QED
    BY <2>1, EditKinds DEF CommitPublication, ReportsInv, ReportsTyped, FreezeHoldsTheRow
<1> HIDE DEF copy
<1>2. /\ publications' \in Seq(ReportCopy) /\ Len(publications') = Len(publications) + 1
      /\ publications'[Len(publications) + 1] = copy /\ publications' # <<>>
  BY <1>1
<1>3. report'.status = "published" /\ report'.comment = report.comment
  BY <1>1 DEF ReportsInv, ReportsTyped
<1>4. ReportsTyped'
  <2>1. Len(publications') <= MaxPublications
    BY <1>1, <1>2, BlankAssumption
  <2> QED BY <1>1, <1>2, <2>1 DEF ReportsInv, ReportsTyped, ReportStatuses
<1>5. LockedOncePublished' /\ FreezeHoldsTheRow'
  <2>1. \A d \in Editors : editors'[d].op # "publish"
    BY <1>1, EditKinds DEF ReportsInv, ReportsTyped
  <2> QED BY <1>2, <1>3, <2>1 DEF LockedOncePublished, FreezeHoldsTheRow, ReportLocked
<1>6. ShownIsWorkingCopy'
  BY <1>1, <1>2, <1>3 DEF ShownIsWorkingCopy, Shown, WorkingCopy
<1>7. ReportsAreKept
  <2>1. SubSeq(publications', 1, Len(publications)) = publications
    BY <1>1, PrefixIsKept
  <2> QED BY <1>2, <1>3, <2>1 DEF ReportsAreKept, ReportLocked
<1> QED BY <1>4, <1>5, <1>6, <1>7 DEF ReportsInv

\* Every step keeps the invariant, and what was published.
LEMMA ReportsStep ==
  ASSUME ReportsInv, [ReportsNext]_reportVars
  PROVE  ReportsInv' /\ (ReportsAreKept \/ UNCHANGED reportVars)
<1>1. ASSUME NEW e \in Editors, NEW text \in ReportTexts, SaveSection(e, text)
      PROVE  ReportsInv' /\ ReportsAreKept
  <2>1. [op |-> "section", text |-> text] \in SectionEdit
    BY DEF SectionEdit
  <2>2. /\ UNCHANGED <<report, sections, publications, crossed>>
        /\ editors' = [editors EXCEPT ![e] = [op |-> "section", text |-> text]]
    BY <1>1 DEF SaveSection
  <2> QED BY <2>1, <2>2, EditKinds, EditorStepKeeps
<1>2. ASSUME NEW e \in Editors, FreezeReport(e)
      PROVE  ReportsInv' /\ ReportsAreKept
  <2> DEFINE edit == [op |-> "publish", crossed |-> FALSE, payload |-> WorkingCopy]
  <2>1. edit \in PublishEdit
    BY DEF PublishEdit, ReportCopy, WorkingCopy, ReportsInv, ReportsTyped
  <2>2. /\ UNCHANGED <<report, sections, publications, crossed>>
        /\ editors' = [editors EXCEPT ![e] = edit]
        /\ RowFree /\ Len(publications) < MaxPublications /\ edit.payload = WorkingCopy
    BY <1>2 DEF FreezeReport, WorkingCopy
  <2> QED BY <2>1, <2>2, EditorStepKeeps
<1>3. ASSUME NEW e \in Editors, EditFails(e)
      PROVE  ReportsInv' /\ ReportsAreKept
  <2>1. /\ UNCHANGED <<report, sections, publications, crossed>>
        /\ editors' = [editors EXCEPT ![e] = NoEdit]
    BY <1>3 DEF EditFails
  <2> QED BY <2>1, EditKinds, EditorStepKeeps
<1>4. CASE UNCHANGED reportVars
  BY <1>4 DEF reportVars, ReportsInv, ReportsTyped, LockedOncePublished, FreezeHoldsTheRow,
     ShownIsWorkingCopy, Shown, WorkingCopy
<1> QED
  BY <1>1, <1>2, <1>3, <1>4, MoveReportKeeps, WriteCommentKeeps, CommitSectionKeeps,
     CommitPublicationKeeps DEF ReportsNext

\* What was published stays and is what parents are shown; while the report is locked it is
\* the working copy, unless a section was saved across the publication (FreezeReport reads
\* the sections, whose trigger does not lock the report).
THEOREM PublishedReportsStand == ReportsSpec => ReportsStand
<1>1. ReportsInit => ReportsInv
  BY ReportsInvInit
<1>2. ReportsInv /\ [ReportsNext]_reportVars => ReportsInv' /\ [ReportsAreKept]_reportVars
  BY ReportsStep
<1>3. ReportsInv => ReportsTypeOK /\ ShownIsWorkingCopy
  BY EditKinds DEF ReportsInv, ReportsTyped, ReportsTypeOK, ReportCopy
<1>4. ReportsSpec => []ReportsInv /\ [][ReportsAreKept]_reportVars
  BY <1>1, <1>2, PTL DEF ReportsSpec
<1>5. ReportsSpec => [](ReportsTypeOK /\ ShownIsWorkingCopy)
  BY <1>3, <1>4, PTL
<1> QED BY <1>4, <1>5 DEF ReportsStand

(***************************************************************************)
(* Competitions                                                            *)
(***************************************************************************)

ScoreCall == [op : {"score"}, entrant : Entrants, score : 1..MaxScore, open : BOOLEAN]
FreezeCall == [op : {"freeze"}, entries : Seq(Scoreboards)]
JudgeCall == {NoCall} \union [op : {"publish", "complete"}] \union ScoreCall \union FreezeCall

\* The state with its domains, which ContestTypeOK leaves open.
ContestTyped ==
  /\ contest \in [status : {"draft", "published", "completed"}, frozen : BOOLEAN,
                  enabled : BOOLEAN]
  /\ scores \in Scoreboards
  /\ boards \in Seq(Scoreboards)
  /\ judges \in [Judges -> JudgeCall]
  /\ crossings \subseteq {"late", "twice", "disabled"}

\* A score in flight passed its trigger before the freeze, and a completion in flight
\* inserts the board of the scores, unless something crossed it.
CallsAreCurrent ==
  \A j \in Judges :
    /\ judges[j].op = "score" => judges[j].open
    /\ judges[j].op = "freeze" /\ ~contest.frozen /\ crossings = {} =>
         judges[j].entries = <<scores>>

\* The inductive invariant of a competition.
ContestInv == ContestTyped /\ CallsAreCurrent /\ BoardIsTheScores /\ FrozenIsCompleted

\* The calls in flight are told apart by their operation.
LEMMA CallKinds ==
  /\ NoCall.op = "none"
  /\ \A call \in ScoreCall : call.op = "score" /\ call.entrant \in Entrants /\ call.score \in 0..MaxScore
  /\ \A call \in FreezeCall : call.op = "freeze" /\ call.entries \in Seq(Scoreboards)
  /\ \A call \in JudgeCall : /\ call.op = "score" => call \in ScoreCall
                             /\ call.op = "freeze" => call \in FreezeCall
<1> USE DEF NoCall, ScoreCall, FreezeCall, JudgeCall
<1>1. \A call \in ScoreCall : call.score \in 0..MaxScore
  BY MaxScoreAssumption
<1> QED BY <1>1

\* A draft without scores: the invariant holds at first.
LEMMA ContestInvInit == ContestInit => ContestInv
<1> SUFFICES ASSUME ContestInit PROVE ContestInv
  OBVIOUS
<1>1. scores \in Scoreboards
  BY MaxScoreAssumption DEF ContestInit, Scoreboards
<1>2. boards \in Seq(Scoreboards)
  BY DEF ContestInit
<1>3. /\ judges \in [Judges -> JudgeCall]
      /\ \A j \in Judges : judges[j].op = "none"
  BY CallKinds DEF ContestInit, JudgeCall
<1>4. contest.status = "draft" /\ contest.frozen = FALSE
  BY DEF ContestInit
<1>5. ContestTyped
  BY <1>1, <1>2, <1>3 DEF ContestInit, ContestTyped
<1> QED
  BY <1>3, <1>4, <1>5
     DEF ContestInit, ContestInv, CallsAreCurrent, BoardIsTheScores, FrozenIsCompleted

\* The board of a competition is kept by a step that inserts nothing.
LEMMA BoardsUnmoved ==
  ASSUME ContestInv, UNCHANGED boards
  PROVE  SubSeq(boards', 1, Len(boards)) = boards
BY SubSeqFull DEF ContestInv, ContestTyped

\* A step that puts a call in flight, or takes one out, and changes no more of the
\* competition than its status before it is frozen, or the school's switch.
LEMMA CallStepKeeps ==
  ASSUME ContestInv, UNCHANGED <<scores, boards>>,
         NEW j \in Judges, NEW call \in JudgeCall,
         judges' = [judges EXCEPT ![j] = call],
         contest' \in [status : {"draft", "published", "completed"}, frozen : BOOLEAN,
                       enabled : BOOLEAN],
         contest'.frozen = contest.frozen,
         contest'.status = "completed" <=> contest.status = "completed",
         crossings \subseteq crossings', crossings' \subseteq {"late", "twice", "disabled"},
         call.op = "score" => call.open,
         call.op = "freeze" /\ ~contest.frozen /\ crossings' = {} => call.entries = <<scores>>
  PROVE  ContestInv' /\ FrozenStays
<1>1. /\ judges'[j] = call
      /\ \A i \in Judges \ {j} : judges'[i] = judges[i]
      /\ judges' \in [Judges -> JudgeCall]
  BY DEF ContestInv, ContestTyped
<1>2. ContestTyped'
  BY <1>1 DEF ContestInv, ContestTyped
<1>3. CallsAreCurrent'
  BY <1>1 DEF ContestInv, CallsAreCurrent
<1>4. BoardIsTheScores' /\ FrozenIsCompleted'
  BY DEF ContestInv, BoardIsTheScores, FrozenIsCompleted
<1>5. FrozenStays
  BY BoardsUnmoved DEF FrozenStays
<1> QED BY <1>2, <1>3, <1>4, <1>5 DEF ContestInv

\* A score is committed before any board was read, or is remembered as late.
LEMMA ScoreCommitKeeps ==
  ASSUME ContestInv, NEW j \in Judges, ScoreCommit(j)
  PROVE  ContestInv' /\ FrozenStays
<1>1. /\ judges[j] \in ScoreCall /\ judges[j].open
      /\ judges[j].entrant \in Entrants /\ judges[j].score \in 0..MaxScore
  BY CallKinds DEF ContestInv, ContestTyped, CallsAreCurrent, ScoreCommit
<1>2. /\ scores' = [scores EXCEPT ![judges[j].entrant] = judges[j].score]
      /\ judges' = [judges EXCEPT ![j] = NoCall]
      /\ UNCHANGED <<contest, boards>>
      /\ crossings \subseteq crossings' /\ crossings' \subseteq {"late", "twice", "disabled"}
      /\ contest.frozen \/ (\E i \in Judges : judges[i].op = "freeze") => "late" \in crossings'
  BY <1>1 DEF ContestInv, ContestTyped, ScoreCommit, Call, Crossed
<1>3. scores' \in Scoreboards
  BY <1>1, <1>2 DEF ContestInv, ContestTyped, Scoreboards
<1>4. ContestTyped'
  BY <1>2, <1>3 DEF ContestInv, ContestTyped, JudgeCall
<1>5. CallsAreCurrent'
  BY <1>2, CallKinds DEF ContestInv, ContestTyped, CallsAreCurrent
<1>6. BoardIsTheScores' /\ FrozenIsCompleted'
  BY <1>2 DEF ContestInv, BoardIsTheScores, FrozenIsCompleted
<1>7. FrozenStays
  BY <1>2, BoardsUnmoved DEF FrozenStays
<1> QED BY <1>4, <1>5, <1>6, <1>7 DEF ContestInv

\* The first completion freezes the board it read; another one is remembered.
LEMMA FreezeResultsKeeps ==
  ASSUME ContestInv, NEW j \in Judges, FreezeResults(j)
  PROVE  ContestInv' /\ FrozenStays
<1>1. /\ judges[j] \in FreezeCall /\ judges[j].entries \in Seq(Scoreboards)
      /\ boards \in Seq(Scoreboards)
  BY CallKinds DEF ContestInv, ContestTyped, FreezeResults
<1>2. /\ boards' = boards \o judges[j].entries
      /\ contest' = [contest EXCEPT !.status = "completed", !.frozen = TRUE]
      /\ judges' = [judges EXCEPT ![j] = NoCall]
      /\ scores' = scores
      /\ crossings' = IF contest.frozen THEN crossings \union {"twice"} ELSE crossings
  BY DEF FreezeResults, Call, Crossed
<1>3. contest'.frozen /\ contest'.status = "completed"
  BY <1>2 DEF ContestInv, ContestTyped
<1>4. ContestTyped'
  <2>1. boards' \in Seq(Scoreboards)
    BY <1>1, <1>2, ConcatProperties
  <2>2. judges' \in [Judges -> JudgeCall]
    BY <1>2 DEF ContestInv, ContestTyped, JudgeCall
  <2>3. crossings' \subseteq {"late", "twice", "disabled"}
    BY <1>2 DEF ContestInv, ContestTyped
  <2> QED BY <1>2, <2>1, <2>2, <2>3 DEF ContestInv, ContestTyped
<1>5. CallsAreCurrent'
  BY <1>2, <1>3, CallKinds DEF ContestInv, ContestTyped, CallsAreCurrent
<1>6. BoardIsTheScores'
  <2> SUFFICES ASSUME crossings' = {} PROVE boards' = <<scores'>>
    BY DEF BoardIsTheScores
  <2>1. ~contest.frozen /\ crossings = {}
    BY <1>2
  <2>2. boards = <<>> /\ judges[j].entries = <<scores>>
    BY <2>1 DEF ContestInv, FrozenIsCompleted, CallsAreCurrent, FreezeResults
  <2>3. boards' = <<>> \o <<scores>>
    BY <1>2, <2>2
  <2>4. <<scores>> \in Seq(Scoreboards)
    BY DEF ContestInv, ContestTyped
  <2> QED BY <1>2, <2>3, <2>4, ConcatEmptySeq
<1>7. FrozenIsCompleted'
  BY <1>3 DEF FrozenIsCompleted
<1>8. FrozenStays
  BY <1>1, <1>2, <1>3, ConcatKeepsPrefix DEF FrozenStays
<1> QED BY <1>4, <1>5, <1>6, <1>7, <1>8 DEF ContestInv

\* Every step keeps the invariant, and a frozen board.
LEMMA ContestStep ==
  ASSUME ContestInv, [ContestNext]_contestVars
  PROVE  ContestInv' /\ (FrozenStays \/ UNCHANGED contestVars)
<1> DEFINE Goal == ContestInv' /\ FrozenStays
<1>1. /\ NoCall \in JudgeCall /\ NoCall.op = "none"
      /\ \A op \in {"publish", "complete"} : [op |-> op] \in JudgeCall
  BY CallKinds DEF JudgeCall
<1>2. /\ crossings \subseteq {"late", "twice", "disabled"}
      /\ contest \in [status : {"draft", "published", "completed"}, frozen : BOOLEAN,
                      enabled : BOOLEAN]
  BY DEF ContestInv, ContestTyped
<1>3. ASSUME NEW j \in Judges, PublishContestRead(j) \/ CompleteRead(j) \/ CallFails(j)
      PROVE  Goal
  <2>1. \E call \in JudgeCall : /\ call.op \notin {"score", "freeze"}
                                /\ judges' = [judges EXCEPT ![j] = call]
    BY <1>1, <1>3 DEF PublishContestRead, CompleteRead, CallFails, Call
  <2>2. UNCHANGED <<contest, scores, boards, crossings>>
    BY <1>3 DEF PublishContestRead, CompleteRead, CallFails
  <2> QED BY <1>2, <2>1, <2>2, CallStepKeeps
<1>4. ASSUME NEW j \in Judges, PublishContest(j)
      PROVE  Goal
  <2>1. /\ contest' = [contest EXCEPT !.status = "published"] /\ contest.status # "completed"
        /\ judges' = [judges EXCEPT ![j] = NoCall]
        /\ UNCHANGED <<scores, boards, crossings>>
    BY <1>4 DEF PublishContest, Call
  <2>2. /\ contest'.frozen = contest.frozen /\ contest'.status = "published"
        /\ contest' \in [status : {"draft", "published", "completed"}, frozen : BOOLEAN,
                         enabled : BOOLEAN]
    BY <1>2, <2>1
  <2> QED BY <1>1, <1>2, <2>1, <2>2, CallStepKeeps
<1>5. ASSUME NEW j \in Judges, NEW e \in Entrants, NEW score \in 1..MaxScore,
             ScoreStatement(j, e, score)
      PROVE  Goal
  <2> DEFINE call == [op |-> "score", entrant |-> e, score |-> score, open |-> ~contest.frozen]
  <2>1. /\ call \in ScoreCall /\ call.open /\ call.op = "score"
    BY <1>2, <1>5 DEF ScoreStatement, MayScore, ScoreCall
  <2>2. /\ judges' = [judges EXCEPT ![j] = call]
        /\ UNCHANGED <<contest, scores, boards, crossings>>
    BY <1>5 DEF ScoreStatement, Call
  <2>3. call \in JudgeCall
    BY <2>1 DEF JudgeCall
  <2> HIDE DEF call
  <2> QED BY <1>2, <2>1, <2>2, <2>3, CallStepKeeps
<1>6. ASSUME NEW j \in Judges, BuildLeaderboard(j)
      PROVE  Goal
  <2> DEFINE entries == IF ~contest.enabled THEN <<>>
                        ELSE IF contest.frozen THEN boards ELSE <<scores>>
             call == [op |-> "freeze", entries |-> entries]
  <2>1. entries \in Seq(Scoreboards)
    BY DEF ContestInv, ContestTyped
  <2>2. /\ judges' = [judges EXCEPT ![j] = call]
        /\ UNCHANGED <<contest, scores, boards>>
        /\ crossings' = IF ~contest.enabled THEN crossings \union {"disabled"} ELSE crossings
    BY <1>6 DEF BuildLeaderboard, Call, Crossed
  <2>3. ~contest.frozen /\ crossings' = {} => entries = <<scores>>
    BY <2>2
  <2> HIDE DEF entries
  <2>4. call \in JudgeCall /\ call.op = "freeze" /\ call.entries = entries
    BY <2>1 DEF JudgeCall, FreezeCall
  <2> HIDE DEF call
  <2>5. crossings \subseteq crossings' /\ crossings' \subseteq {"late", "twice", "disabled"}
    BY <1>2, <2>2
  <2> QED BY <1>2, <2>2, <2>3, <2>4, <2>5, CallStepKeeps
<1>7. ASSUME NEW on \in BOOLEAN, SwitchCompetitions(on)
      PROVE  Goal
  <2>1. /\ UNCHANGED <<scores, boards, judges, crossings>>
        /\ contest'.frozen = contest.frozen /\ contest'.status = contest.status
        /\ contest' \in [status : {"draft", "published", "completed"}, frozen : BOOLEAN,
                         enabled : BOOLEAN]
    BY <1>2, <1>7 DEF SwitchCompetitions
  <2> QED
    BY <2>1, BoardsUnmoved DEF ContestInv, ContestTyped, CallsAreCurrent, BoardIsTheScores,
       FrozenIsCompleted, FrozenStays
<1>8. CASE UNCHANGED contestVars
  BY <1>8 DEF contestVars, ContestInv, ContestTyped, CallsAreCurrent, BoardIsTheScores,
     FrozenIsCompleted
<1> QED
  BY <1>3, <1>4, <1>5, <1>6, <1>7, <1>8, ScoreCommitKeeps, FreezeResultsKeeps DEF ContestNext

\* A frozen board is neither rewritten nor taken back, and it is the board of the scores,
\* unless a score or a second completion crossed the completion, or competitions were
\* switched off when it was read (freezeCompetitionResults, buildLeaderboard and the
\* trigger of migration 0034).
THEOREM FrozenResultsStand == ContestSpec => ResultsStayFrozen
<1>1. ContestInit => ContestInv
  BY ContestInvInit
<1>2. ContestInv /\ [ContestNext]_contestVars => ContestInv' /\ [FrozenStays]_contestVars
  BY ContestStep
<1>3. ContestInv => ContestTypeOK /\ BoardIsTheScores /\ FrozenIsCompleted
  BY CallKinds DEF ContestInv, ContestTyped, ContestTypeOK, JudgeCall
<1>4. ContestSpec => []ContestInv /\ [][FrozenStays]_contestVars
  BY <1>1, <1>2, PTL DEF ContestSpec
<1>5. ContestSpec => [](ContestTypeOK /\ BoardIsTheScores /\ FrozenIsCompleted)
  BY <1>3, <1>4, PTL
<1> QED BY <1>4, <1>5 DEF ResultsStayFrozen

(***************************************************************************)
(* Practice, XP and rewards                                                *)
(***************************************************************************)

Attempt == [channel : PlayChannels, number : 1..AttemptsAllowed, done : BOOLEAN]
Reward == [kind : {"manual", "learning_activity"}, active : BOOLEAN, xp : 0..1]
StartPlay == [op : {"start"}, channel : PlayChannels, used : 0..(AttemptsAllowed - 1)]
ScoredPlay == [op : {"scored"}, attempt : Nat, grants : BOOLEAN, rewards : BOOLEAN, seen : Nat]
AwardPlay == [op : {"award"}, xp : 0..1, seen : Nat]
Play == {NoPlay} \union StartPlay \union ScoredPlay \union AwardPlay

\* The state with its domains, which PracticeTypeOK leaves open.
PracticeTyped ==
  /\ policy \in [xp : BOOLEAN]
  /\ attempts \in Seq(Attempt)
  /\ xpEvents \in [XpKeys -> Nat]
  /\ rewards \in Seq(Reward)
  /\ badge \in BOOLEAN
  /\ players \in [Players -> Play]
  /\ overlaps \subseteq {"start", "reward", "badge"}

\* Each reward has one row of the XP it awarded, and one that takes it back once it is revoked.
XpIsBooked ==
  /\ \A k \in 1..MaxRewards :
       /\ xpEvents[<<"reward", k>>] = IF k \in 1..Len(rewards) THEN rewards[k].xp ELSE 0
       /\ xpEvents[<<"reversal", k>>] =
            IF k \in 1..Len(rewards) /\ ~rewards[k].active THEN rewards[k].xp ELSE 0
  /\ xpEvents[<<"learning_attempt", ActivityId>>] <= 1
  /\ XpRecorded("learning_attempt", ActivityId) => \E i \in 1..Len(attempts) : attempts[i].done

\* A submission in flight scores an attempt that exists.
ScoresExist ==
  \A r \in Players : players[r].op = "scored" => players[r].attempt \in 1..Len(attempts)

\* Until two starts overlap, the attempts are numbered as they come.
NumberedInOrder ==
  "start" \notin overlaps =>
    /\ Len(attempts) <= AttemptsAllowed
    /\ \A i \in 1..Len(attempts) : attempts[i].number = i

\* The submissions that found no reward of the activity and will insert one.
Rewarding(r) == players[r].op = "scored" /\ players[r].rewards

\* Until two of them overlap, one submission at a time will reward, and finds no reward.
RewardedApart ==
  "reward" \notin overlaps =>
    /\ \A k, l \in ActiveLearning(rewards) : k = l
    /\ \A r \in Players : Rewarding(r) =>
         ActiveLearning(rewards) = {} /\ \A o \in Players : Rewarding(o) => o = r

\* The inductive invariant of practice.
PracticeInv ==
  /\ PracticeTyped
  /\ XpIsBooked
  /\ ScoresExist
  /\ NumberedInOrder
  /\ RewardedApart
  /\ BadgeFollowsPoints

-----------------------------------------------------------------------------
(* The operators *)

\* The plays in flight are told apart by their operation.
LEMMA PlayKinds ==
  /\ NoPlay.op = "none"
  /\ \A play \in Play :
       /\ play.op = "start" => play \in StartPlay
       /\ play.op = "scored" => play \in ScoredPlay
       /\ play.op = "award" => play \in AwardPlay
       /\ play.op \in {"none", "start", "scored", "award"}
BY DEF NoPlay, StartPlay, ScoredPlay, AwardPlay, Play

\* The keys of the XP ledger.
LEMMA KeysOfTheLedger ==
  /\ <<"learning_attempt", ActivityId>> \in XpKeys
  /\ \A k \in 1..MaxRewards : <<"reward", k>> \in XpKeys /\ <<"reversal", k>> \in XpKeys
  /\ \A k : <<"reward", k>> \in XpKeys => k \in 1..MaxRewards
BY DEF XpKeys, ActivityId

\* An insert books a key that is not there, and no other.
LEMMA InsertedOnce ==
  ASSUME NEW source, NEW id, <<source, id>> \in XpKeys, xpEvents \in [XpKeys -> Nat]
  PROVE  /\ XpInserted(source, id) \in [XpKeys -> Nat]
         /\ xpEvents[<<source, id>>] <= 1 => XpInserted(source, id)[<<source, id>>] = 1
         /\ \A key \in XpKeys : key # <<source, id>> => XpInserted(source, id)[key] = xpEvents[key]
BY DEF XpInserted, XpRecorded

\* The active rewards are rows of the list, so they can be counted.
LEMMA ActiveIsFinite ==
  ASSUME NEW rows \in Seq(Reward)
  PROVE  /\ IsFiniteSet(ActiveRewards(rows)) /\ Cardinality(ActiveRewards(rows)) \in Nat
         /\ IsFiniteSet(ActiveLearning(rows)) /\ ActiveLearning(rows) \subseteq ActiveRewards(rows)
<1>1. IsFiniteSet(1..Len(rows))
  BY FS_Interval
<1>2. ActiveRewards(rows) \subseteq 1..Len(rows) /\ ActiveLearning(rows) \subseteq ActiveRewards(rows)
  BY DEF ActiveRewards, ActiveLearning
<1>3. IsFiniteSet(ActiveRewards(rows)) /\ IsFiniteSet(ActiveLearning(rows))
  BY <1>1, <1>2, FS_Subset
<1> QED BY <1>2, <1>3, FS_CardinalityType

\* A reward that is appended is the only new active one.
LEMMA AppendedReward ==
  ASSUME NEW rows \in Seq(Reward), NEW row \in Reward
  PROVE  /\ Append(rows, row) \in Seq(Reward) /\ Len(Append(rows, row)) = Len(rows) + 1
         /\ Append(rows, row)[Len(rows) + 1] = row
         /\ \A k \in 1..Len(rows) : Append(rows, row)[k] = rows[k]
         /\ row.kind = "manual" => ActiveLearning(Append(rows, row)) = ActiveLearning(rows)
         /\ ActiveLearning(Append(rows, row)) \subseteq ActiveLearning(rows) \union {Len(rows) + 1}
<1>1. /\ Append(rows, row) \in Seq(Reward) /\ Len(Append(rows, row)) = Len(rows) + 1
      /\ Append(rows, row)[Len(rows) + 1] = row /\ Len(rows) \in Nat
      /\ \A k \in 1..Len(rows) : Append(rows, row)[k] = rows[k]
  OBVIOUS
<1>2. \A k \in 1..(Len(rows) + 1) : k \in 1..Len(rows) \/ k = Len(rows) + 1
  BY <1>1
<1>3. ActiveLearning(Append(rows, row)) \subseteq ActiveLearning(rows) \union {Len(rows) + 1}
  BY <1>1, <1>2 DEF ActiveLearning, ActiveRewards
<1>4. ASSUME row.kind = "manual" PROVE ActiveLearning(Append(rows, row)) = ActiveLearning(rows)
  <2>1. \A k : k \in ActiveLearning(Append(rows, row)) <=> k \in ActiveLearning(rows)
    BY <1>1, <1>2, <1>4 DEF ActiveLearning, ActiveRewards
  <2> QED BY <2>1
<1> QED BY <1>1, <1>3, <1>4

\* Nothing has been played: the invariant holds at first.
LEMMA PracticeInvInit == PracticeInit => PracticeInv
<1> SUFFICES ASSUME PracticeInit PROVE PracticeInv
  OBVIOUS
<1>1. /\ attempts = <<>> /\ rewards = <<>> /\ overlaps = {} /\ badge = FALSE
      /\ policy \in [xp : BOOLEAN] /\ Len(<<>>) = 0
      /\ \A key \in XpKeys : xpEvents[key] = 0
      /\ \A r \in Players : players[r] = NoPlay
  BY DEF PracticeInit
<1>2. PracticeTyped
  <2>1. xpEvents \in [XpKeys -> Nat]
    BY DEF PracticeInit
  <2>2. players \in [Players -> Play]
    BY DEF PracticeInit, Play
  <2>3. attempts \in Seq(Attempt) /\ rewards \in Seq(Reward)
    BY <1>1
  <2> QED BY <1>1, <2>1, <2>2, <2>3 DEF PracticeTyped
<1>3. XpIsBooked
  BY <1>1, KeysOfTheLedger DEF XpIsBooked, XpRecorded
<1>4. ScoresExist /\ (\A r \in Players : ~Rewarding(r))
  BY <1>1, PlayKinds DEF ScoresExist, Rewarding
<1>5. ActiveRewards(rewards) = {} /\ ActiveLearning(rewards) = {}
  BY <1>1 DEF ActiveRewards, ActiveLearning
<1>6. NumberedInOrder /\ RewardedApart
  BY <1>1, <1>4, <1>5, PracticeAssumption DEF NumberedInOrder, RewardedApart
<1>7. BadgeFollowsPoints
  BY <1>5, FS_EmptySet, PracticeAssumption DEF BadgeFollowsPoints
<1> QED BY <1>2, <1>3, <1>4, <1>6, <1>7 DEF PracticeInv
-----------------------------------------------------------------------------
(* The steps *)

\* The steps that only put a play in flight, or take one out.
LEMMA PlayStepKeeps ==
  ASSUME PracticeInv, UNCHANGED <<policy, attempts, xpEvents, rewards, badge>>,
         NEW r \in Players, NEW play \in Play, players' = [players EXCEPT ![r] = play],
         overlaps \subseteq overlaps', overlaps' \subseteq {"start", "reward", "badge"},
         play.op = "scored" => play.attempt \in 1..Len(attempts),
         "reward" \notin overlaps' /\ play.op = "scored" /\ play.rewards =>
            ActiveLearning(rewards) = {} /\ \A o \in Players \ {r} : ~Rewarding(o)
  PROVE  PracticeInv' /\ CompletedStays
<1>1. /\ players'[r] = play /\ \A o \in Players \ {r} : players'[o] = players[o]
      /\ players' \in [Players -> Play]
  BY DEF PracticeInv, PracticeTyped
<1>2. PracticeTyped'
  BY <1>1 DEF PracticeInv, PracticeTyped
<1>3. XpIsBooked' /\ ScoresExist' /\ NumberedInOrder'
  BY <1>1 DEF PracticeInv, XpIsBooked, XpRecorded, ScoresExist, NumberedInOrder
<1>4. RewardedApart'
  <2> SUFFICES ASSUME "reward" \notin overlaps' PROVE RewardedApart'
    BY DEF RewardedApart
  <2>1. /\ \A k, l \in ActiveLearning(rewards) : k = l
        /\ \A p \in Players : Rewarding(p) =>
             ActiveLearning(rewards) = {} /\ \A o \in Players : Rewarding(o) => o = p
    BY DEF PracticeInv, RewardedApart
  <2>2. /\ \A o \in Players \ {r} : Rewarding(o)' <=> Rewarding(o)
        /\ Rewarding(r)' <=> play.op = "scored" /\ play.rewards
    BY <1>1 DEF Rewarding
  <2>3. ActiveLearning(rewards)' = ActiveLearning(rewards)
    BY DEF ActiveLearning, ActiveRewards
  <2>4. ASSUME NEW p \in Players, Rewarding(p)'
        PROVE  ActiveLearning(rewards) = {} /\ \A o \in Players : Rewarding(o)' => o = p
    <3>1. CASE p = r
      BY <2>2, <2>4, <3>1
    <3>2. CASE p # r
      BY <2>1, <2>2, <2>4, <3>2
    <3> QED BY <3>1, <3>2
  <2> QED BY <2>1, <2>3, <2>4 DEF RewardedApart
<1>5. BadgeFollowsPoints' /\ CompletedStays
  BY DEF PracticeInv, BadgeFollowsPoints, ActiveRewards, CompletedStays
<1> QED BY <1>2, <1>3, <1>4, <1>5 DEF PracticeInv

\* Starting, scoring, awarding and failing, up to the commit.
LEMMA PlaysKeep ==
  ASSUME PracticeInv, NEW r \in Players,
         \/ \E ch \in PlayChannels : StartRead(r, ch)
         \/ \E i \in 1..Len(attempts) : Score(r, i)
         \/ AwardWrite(r)
         \/ PlayFails(r)
  PROVE  PracticeInv' /\ CompletedStays
<1>1. /\ overlaps \subseteq {"start", "reward", "badge"} /\ policy.xp \in BOOLEAN
      /\ Cardinality(ActiveRewards(rewards)) \in Nat /\ Len(attempts) \in Nat
  BY ActiveIsFinite DEF PracticeInv, PracticeTyped
<1>2. ASSUME NEW ch \in PlayChannels, StartRead(r, ch) PROVE PracticeInv' /\ CompletedStays
  <2> DEFINE play == [op |-> "start", channel |-> ch, used |-> Len(attempts)]
  <2>1. play \in Play /\ play.op = "start"
    BY <1>1, <1>2, PracticeAssumption DEF StartRead, Play, StartPlay
  <2>2. /\ players' = [players EXCEPT ![r] = play]
        /\ UNCHANGED <<policy, attempts, xpEvents, rewards, badge, overlaps>>
    BY <1>2 DEF StartRead
  <2> HIDE DEF play
  <2> QED BY <1>1, <2>1, <2>2, PlayStepKeeps
<1>3. ASSUME NEW i \in 1..Len(attempts), Score(r, i) PROVE PracticeInv' /\ CompletedStays
  <2> DEFINE grants == policy.xp /\ ~XpRecorded("learning_attempt", ActivityId)
             rewarding == ActiveLearning(rewards) = {}
             play == [op |-> "scored", attempt |-> i, grants |-> grants, rewards |-> rewarding,
                      seen |-> Cardinality(ActiveRewards(rewards)) + IF rewarding THEN 1 ELSE 0]
  <2>1. play \in Play /\ play.op = "scored" /\ play.attempt = i /\ play.rewards = rewarding
    <3>1. grants \in BOOLEAN /\ rewarding \in BOOLEAN
      BY <1>1
    <3> QED BY <1>1, <3>1 DEF Play, ScoredPlay
  <2>2. /\ players' = [players EXCEPT ![r] = play]
        /\ UNCHANGED <<policy, attempts, xpEvents, rewards, badge>>
        /\ overlaps' = IF rewarding /\ \E o \in Scored : players[o].rewards
                       THEN overlaps \union {"reward"} ELSE overlaps
        /\ players[r] = NoPlay
    BY <1>3 DEF Score
  <2> HIDE DEF play
  <2>3. "reward" \notin overlaps' /\ play.rewards =>
          ActiveLearning(rewards) = {} /\ \A o \in Players \ {r} : ~Rewarding(o)
    BY <2>1, <2>2 DEF Rewarding, Scored
  <2>4. overlaps \subseteq overlaps' /\ overlaps' \subseteq {"start", "reward", "badge"}
    BY <1>1, <2>2
  <2> QED BY <2>1, <2>2, <2>3, <2>4, PlayStepKeeps
<1>4. ASSUME AwardWrite(r) PROVE PracticeInv' /\ CompletedStays
  <2> DEFINE play == [op |-> "award", xp |-> IF policy.xp THEN 1 ELSE 0,
                      seen |-> Cardinality(ActiveRewards(rewards)) + 1]
  <2>1. play \in Play /\ play.op = "award"
    BY <1>1 DEF Play, AwardPlay
  <2>2. /\ players' = [players EXCEPT ![r] = play]
        /\ UNCHANGED <<policy, attempts, xpEvents, rewards, badge, overlaps>>
    BY <1>4 DEF AwardWrite
  <2> HIDE DEF play
  <2> QED BY <1>1, <2>1, <2>2, PlayStepKeeps
<1>5. ASSUME PlayFails(r) PROVE PracticeInv' /\ CompletedStays
  <2>1. /\ players' = [players EXCEPT ![r] = NoPlay] /\ NoPlay \in Play
        /\ UNCHANGED <<policy, attempts, xpEvents, rewards, badge, overlaps>>
    BY <1>5 DEF PlayFails, Idle, Play
  <2> QED BY <1>1, <2>1, PlayKinds, PlayStepKeeps
<1> QED BY <1>2, <1>3, <1>4, <1>5

\* An attempt takes the number after those that its request counted.
LEMMA StartWriteKeeps ==
  ASSUME PracticeInv, NEW r \in Players, StartWrite(r)
  PROVE  PracticeInv' /\ CompletedStays
<1> DEFINE attempt == [channel |-> players[r].channel, number |-> players[r].used + 1,
                       done |-> FALSE]
           n == Len(attempts)
<1>1. /\ players[r] \in StartPlay /\ attempts \in Seq(Attempt) /\ n \in Nat
  BY PlayKinds DEF PracticeInv, PracticeTyped, StartWrite
<1>2. attempt \in Attempt /\ attempt.number = players[r].used + 1
  BY <1>1, PracticeAssumption DEF Attempt, StartPlay
<1>3. /\ attempts' = Append(attempts, attempt)
      /\ overlaps' = IF players[r].used = n THEN overlaps ELSE overlaps \union {"start"}
      /\ players' = [players EXCEPT ![r] = NoPlay]
      /\ UNCHANGED <<policy, xpEvents, rewards, badge>>
  BY DEF StartWrite, Idle
<1> HIDE DEF attempt
<1>4. /\ attempts' \in Seq(Attempt) /\ Len(attempts') = n + 1 /\ attempts'[n + 1] = attempt
      /\ \A i \in 1..n : attempts'[i] = attempts[i]
  BY <1>1, <1>2, <1>3
<1>5. PracticeTyped'
  <2>1. players' \in [Players -> Play]
    BY <1>3 DEF PracticeInv, PracticeTyped, Play
  <2>2. overlaps' \subseteq {"start", "reward", "badge"}
    BY <1>3 DEF PracticeInv, PracticeTyped
  <2> QED BY <1>3, <1>4, <2>1, <2>2 DEF PracticeInv, PracticeTyped
<1>6. XpIsBooked'
  <2>1. XpRecorded("learning_attempt", ActivityId) => \E i \in 1..Len(attempts') : attempts'[i].done
    <3> SUFFICES ASSUME XpRecorded("learning_attempt", ActivityId)
                 PROVE  \E i \in 1..Len(attempts') : attempts'[i].done
      OBVIOUS
    <3>1. PICK i \in 1..n : attempts[i].done
      BY DEF PracticeInv, XpIsBooked
    <3> QED BY <1>1, <1>4, <3>1
  <2> QED BY <1>3, <2>1 DEF PracticeInv, XpIsBooked, XpRecorded
<1>7. ScoresExist'
  <2>1. \A o \in Players : players'[o].op = "scored" => players'[o] = players[o]
    BY <1>3, PlayKinds DEF PracticeInv, PracticeTyped
  <2> QED BY <1>1, <1>4, <2>1 DEF PracticeInv, ScoresExist
<1>8. NumberedInOrder'
  <2> SUFFICES ASSUME "start" \notin overlaps'
               PROVE  Len(attempts') <= AttemptsAllowed /\ \A i \in 1..Len(attempts') : attempts'[i].number = i
    BY DEF NumberedInOrder
  <2>1. players[r].used = n /\ "start" \notin overlaps
    BY <1>3
  <2>2. n + 1 <= AttemptsAllowed
    BY <1>1, <2>1, PracticeAssumption DEF StartPlay
  <2> QED BY <1>1, <1>2, <1>4, <2>1, <2>2 DEF PracticeInv, NumberedInOrder
<1>9. RewardedApart'
  <2>1. /\ \A o \in Players : Rewarding(o)' => Rewarding(o)
        /\ ActiveLearning(rewards)' = ActiveLearning(rewards)
        /\ "reward" \in overlaps' <=> "reward" \in overlaps
    BY <1>3, PlayKinds DEF PracticeInv, PracticeTyped, Rewarding, ActiveLearning, ActiveRewards
  <2> QED BY <2>1 DEF PracticeInv, RewardedApart
<1>10. BadgeFollowsPoints'
  BY <1>3 DEF PracticeInv, BadgeFollowsPoints, ActiveRewards
<1>11. CompletedStays
  BY <1>4 DEF CompletedStays
<1> QED BY <1>5, <1>6, <1>7, <1>8, <1>9, <1>10, <1>11 DEF PracticeInv

\* The badge follows the points that the committing request counted, or the request is
\* remembered as having counted short.
LEMMA BadgeIsEvaluated ==
  ASSUME PracticeInv, NEW seen \in Nat, rewards' \in Seq(Reward), badge' = Evaluated(seen),
         overlaps' = IF CountedShort(seen, rewards') THEN overlaps \union {"badge"} ELSE overlaps
  PROVE  BadgeFollowsPoints' /\ badge' \in BOOLEAN
<1>1. Cardinality(ActiveRewards(rewards')) \in Nat
  BY ActiveIsFinite
<1>2. badge' \in BOOLEAN
  BY PracticeAssumption DEF Evaluated, PracticeInv, PracticeTyped
<1>3. ASSUME Cardinality(ActiveRewards(rewards')) >= BadgeAt, "badge" \notin overlaps' PROVE badge'
  <2>1. seen >= BadgeAt
    BY <1>1, <1>3, PracticeAssumption DEF CountedShort
  <2>2. badge' = (badge \/ seen >= BadgeAt)
    BY DEF Evaluated
  <2> QED BY <2>1, <2>2, Zenon
<1>4. ActiveRewards(rewards)' = ActiveRewards(rewards')
  BY DEF ActiveRewards
<1> QED BY <1>2, <1>3, <1>4 DEF BadgeFollowsPoints
\* What a commit does to the list of rewards: nothing, or one row behind the others; a row
\* of the activity only by a submission that found none.
LEMMA RewardedApartKept ==
  ASSUME PracticeInv, NEW r \in Players, NEW row \in Reward,
         players' = [players EXCEPT ![r] = NoPlay],
         rewards' = rewards \/ rewards' = Append(rewards, row),
         rewards' # rewards => row.kind = "manual" \/ Rewarding(r),
         "reward" \in overlaps => "reward" \in overlaps'
  PROVE  RewardedApart'
<1> SUFFICES ASSUME "reward" \notin overlaps' PROVE RewardedApart'
  BY DEF RewardedApart
<1>1. /\ \A k, l \in ActiveLearning(rewards) : k = l
      /\ \A p \in Players : Rewarding(p) =>
           ActiveLearning(rewards) = {} /\ \A o \in Players : Rewarding(o) => o = p
      /\ rewards \in Seq(Reward)
  BY DEF PracticeInv, PracticeTyped, RewardedApart
<1>2. \A o \in Players : Rewarding(o)' => Rewarding(o) /\ o # r
  BY PlayKinds DEF PracticeInv, PracticeTyped, Rewarding
<1>3. ActiveLearning(rewards)' = ActiveLearning(rewards')
  BY DEF ActiveLearning, ActiveRewards
<1>4. CASE rewards' = rewards \/ row.kind = "manual"
  <2>1. ActiveLearning(rewards') = ActiveLearning(rewards)
    BY <1>1, <1>4, AppendedReward
  <2> QED BY <1>1, <1>2, <1>3, <2>1 DEF RewardedApart
<1>5. CASE rewards' # rewards /\ Rewarding(r)
  <2>1. ActiveLearning(rewards') \subseteq {Len(rewards) + 1}
    BY <1>1, <1>5, AppendedReward
  <2>2. \A o \in Players : ~Rewarding(o)'
    BY <1>1, <1>2, <1>5
  <2> QED BY <1>3, <2>1, <2>2 DEF RewardedApart
<1> QED BY <1>4, <1>5

\* A submission completes its attempt and books what it earned.
LEMMA SubmitCommitKeeps ==
  ASSUME PracticeInv, NEW r \in Players, SubmitCommit(r)
  PROVE  PracticeInv' /\ CompletedStays
<1> DEFINE p == players[r]
           row == [kind |-> "learning_activity", active |-> TRUE, xp |-> 0]
           n == Len(attempts)
<1>1. /\ p \in ScoredPlay /\ p.op = "scored" /\ p.attempt \in 1..n
      /\ p.grants \in BOOLEAN /\ p.rewards \in BOOLEAN /\ p.seen \in Nat
      /\ attempts \in Seq(Attempt) /\ rewards \in Seq(Reward) /\ xpEvents \in [XpKeys -> Nat]
  <2>1. p \in ScoredPlay
    BY PlayKinds DEF PracticeInv, PracticeTyped, SubmitCommit
  <2> QED BY <2>1 DEF PracticeInv, PracticeTyped, ScoresExist, SubmitCommit, ScoredPlay
<1>2. /\ attempts' = [attempts EXCEPT ![p.attempt].done = TRUE]
      /\ xpEvents' = IF p.grants THEN XpInserted("learning_attempt", ActivityId) ELSE xpEvents
      /\ rewards' = IF p.rewards THEN Append(rewards, row) ELSE rewards
      /\ badge' = Evaluated(p.seen)
      /\ overlaps' = IF CountedShort(p.seen, rewards') THEN overlaps \union {"badge"} ELSE overlaps
      /\ players' = [players EXCEPT ![r] = NoPlay]
      /\ policy' = policy
  BY DEF SubmitCommit, Idle
<1>3. row \in Reward /\ row.kind = "learning_activity" /\ row.xp = 0 /\ row.active
  BY DEF Reward
<1> HIDE DEF row
<1>4. /\ attempts' \in Seq(Attempt) /\ Len(attempts') = n /\ attempts'[p.attempt].done
      /\ \A i \in 1..n : /\ attempts[i].done => attempts'[i].done
                         /\ attempts'[i].number = attempts[i].number
  <2> DEFINE a == [attempts[p.attempt] EXCEPT !.done = TRUE]
  <2>1. a \in Attempt /\ a.done /\ a.number = attempts[p.attempt].number
    <3>1. attempts[p.attempt] \in Attempt
      BY <1>1
    <3> QED BY <3>1 DEF Attempt
  <2>2. attempts' = [attempts EXCEPT ![p.attempt] = a]
    BY <1>2
  <2> HIDE DEF a
  <2> QED BY <1>1, <2>1, <2>2
<1>5. /\ rewards' \in Seq(Reward) /\ Len(rewards') \in Nat
      /\ Len(rewards) <= Len(rewards') /\ Len(rewards) \in Nat
      /\ \A k \in 1..Len(rewards) : rewards'[k] = rewards[k]
      /\ \A k \in 1..Len(rewards') : k \notin 1..Len(rewards) => rewards'[k] = row
  BY <1>1, <1>2, <1>3, AppendedReward
<1>6. BadgeFollowsPoints' /\ badge' \in BOOLEAN
  BY <1>1, <1>2, <1>5, BadgeIsEvaluated
<1>7. overlaps \subseteq overlaps' /\ "start" \in overlaps' <=> "start" \in overlaps
  BY <1>2
<1>8. /\ xpEvents' \in [XpKeys -> Nat]
      /\ xpEvents'[<<"learning_attempt", ActivityId>>] <= 1
      /\ \A key \in XpKeys : key # <<"learning_attempt", ActivityId>> => xpEvents'[key] = xpEvents[key]
  <2>1. xpEvents[<<"learning_attempt", ActivityId>>] <= 1
    BY DEF PracticeInv, XpIsBooked
  <2> QED BY <1>1, <1>2, <2>1, InsertedOnce, KeysOfTheLedger
<1>9. PracticeTyped'
  <2>1. players' \in [Players -> Play]
    BY <1>2 DEF PracticeInv, PracticeTyped, Play
  <2>2. overlaps' \subseteq {"start", "reward", "badge"}
    BY <1>2 DEF PracticeInv, PracticeTyped
  <2> QED BY <1>2, <1>4, <1>5, <1>6, <1>8, <2>1, <2>2 DEF PracticeInv, PracticeTyped
<1>10. XpIsBooked'
  <2>1. ASSUME NEW k \in 1..MaxRewards
        PROVE  /\ xpEvents'[<<"reward", k>>] = IF k \in 1..Len(rewards') THEN rewards'[k].xp ELSE 0
               /\ xpEvents'[<<"reversal", k>>] =
                    IF k \in 1..Len(rewards') /\ ~rewards'[k].active THEN rewards'[k].xp ELSE 0
    <3>1. /\ xpEvents'[<<"reward", k>>] = xpEvents[<<"reward", k>>]
          /\ xpEvents'[<<"reversal", k>>] = xpEvents[<<"reversal", k>>]
      BY <1>8, KeysOfTheLedger
    <3>2. /\ xpEvents[<<"reward", k>>] = IF k \in 1..Len(rewards) THEN rewards[k].xp ELSE 0
          /\ xpEvents[<<"reversal", k>>] =
               IF k \in 1..Len(rewards) /\ ~rewards[k].active THEN rewards[k].xp ELSE 0
      BY DEF PracticeInv, XpIsBooked
    <3>3. k \in 1..Len(rewards) => k \in 1..Len(rewards')
      BY <1>5
    <3> QED BY <1>3, <1>5, <3>1, <3>2, <3>3
  <2>2. \E i \in 1..Len(attempts') : attempts'[i].done
    BY <1>1, <1>4
  <2> QED BY <1>8, <2>1, <2>2 DEF XpIsBooked
<1>11. ScoresExist'
  <2>1. \A o \in Players : players'[o].op = "scored" => players'[o] = players[o]
    BY <1>2, PlayKinds DEF PracticeInv, PracticeTyped
  <2> QED BY <1>4, <2>1 DEF PracticeInv, ScoresExist
<1>12. NumberedInOrder'
  BY <1>4, <1>7 DEF PracticeInv, NumberedInOrder
<1>13. RewardedApart'
  BY <1>1, <1>2, <1>3, <1>7, RewardedApartKept DEF Rewarding
<1>14. CompletedStays
  BY <1>4 DEF CompletedStays
<1> QED BY <1>6, <1>9, <1>10, <1>11, <1>12, <1>13, <1>14 DEF PracticeInv

\* A reward given by hand is booked with its XP.
LEMMA AwardCommitKeeps ==
  ASSUME PracticeInv, NEW r \in Players, AwardCommit(r)
  PROVE  PracticeInv' /\ CompletedStays
<1> DEFINE p == players[r]
           n == Len(rewards) + 1
           row == [kind |-> "manual", active |-> TRUE, xp |-> p.xp]
<1>1. /\ p.xp \in 0..1 /\ p.seen \in Nat
      /\ rewards \in Seq(Reward) /\ xpEvents \in [XpKeys -> Nat]
      /\ n \in 1..MaxRewards /\ Len(rewards) \in Nat
  <2>1. p \in AwardPlay
    BY PlayKinds DEF PracticeInv, PracticeTyped, AwardCommit
  <2>2. rewards \in Seq(Reward) /\ xpEvents \in [XpKeys -> Nat] /\ Len(rewards) < MaxRewards
    BY DEF PracticeInv, PracticeTyped, AwardCommit
  <2> QED BY <2>1, <2>2, PracticeAssumption DEF AwardPlay
<1>2. /\ rewards' = Append(rewards, row)
      /\ xpEvents' = IF p.xp > 0 THEN XpInserted("reward", n) ELSE xpEvents
      /\ badge' = Evaluated(p.seen)
      /\ overlaps' = IF CountedShort(p.seen, rewards') THEN overlaps \union {"badge"} ELSE overlaps
      /\ players' = [players EXCEPT ![r] = NoPlay]
      /\ UNCHANGED <<policy, attempts>>
  BY DEF AwardCommit, Idle
<1>3. row \in Reward /\ row.kind = "manual" /\ row.xp = p.xp /\ row.active
  BY <1>1 DEF Reward
<1> HIDE DEF row
<1>4. /\ rewards' \in Seq(Reward) /\ Len(rewards') = n /\ rewards'[n] = row
      /\ \A k \in 1..Len(rewards) : rewards'[k] = rewards[k]
  BY <1>1, <1>2, <1>3, AppendedReward
<1>5. BadgeFollowsPoints' /\ badge' \in BOOLEAN
  BY <1>1, <1>2, <1>4, BadgeIsEvaluated
<1>6. /\ "reward" \in overlaps' <=> "reward" \in overlaps
      /\ "start" \in overlaps' <=> "start" \in overlaps
  BY <1>2
<1>7. /\ xpEvents' \in [XpKeys -> Nat]
      /\ xpEvents'[<<"reward", n>>] = p.xp
      /\ \A key \in XpKeys : key # <<"reward", n>> => xpEvents'[key] = xpEvents[key]
  <2>1. xpEvents[<<"reward", n>>] = 0
    <3>1. n \notin 1..Len(rewards)
      BY <1>1
    <3>2. xpEvents[<<"reward", n>>] = IF n \in 1..Len(rewards) THEN rewards[n].xp ELSE 0
      BY <1>1 DEF PracticeInv, XpIsBooked
    <3> QED BY <3>1, <3>2
  <2>2. <<"reward", n>> \in XpKeys
    BY <1>1, KeysOfTheLedger
  <2>3. CASE p.xp > 0
    <3>1. /\ XpInserted("reward", n) \in [XpKeys -> Nat]
          /\ XpInserted("reward", n)[<<"reward", n>>] = 1
          /\ \A key \in XpKeys : key # <<"reward", n>> => XpInserted("reward", n)[key] = xpEvents[key]
      BY <1>1, <2>1, <2>2, InsertedOnce
    <3> QED BY <1>1, <1>2, <2>3, <3>1
  <2>4. CASE ~(p.xp > 0)
    BY <1>1, <1>2, <2>1, <2>4
  <2> QED BY <2>3, <2>4
<1>8. PracticeTyped'
  <2>1. players' \in [Players -> Play]
    BY <1>2 DEF PracticeInv, PracticeTyped, Play
  <2>2. overlaps' \subseteq {"start", "reward", "badge"}
    BY <1>2 DEF PracticeInv, PracticeTyped
  <2> QED BY <1>2, <1>4, <1>5, <1>7, <2>1, <2>2 DEF PracticeInv, PracticeTyped
<1>9. XpIsBooked'
  <2>1. ASSUME NEW k \in 1..MaxRewards
        PROVE  /\ xpEvents'[<<"reward", k>>] = IF k \in 1..n THEN rewards'[k].xp ELSE 0
               /\ xpEvents'[<<"reversal", k>>] =
                    IF k \in 1..n /\ ~rewards'[k].active THEN rewards'[k].xp ELSE 0
    <3>1. /\ k # n => xpEvents'[<<"reward", k>>] = xpEvents[<<"reward", k>>]
          /\ xpEvents'[<<"reversal", k>>] = xpEvents[<<"reversal", k>>]
      BY <1>7, KeysOfTheLedger
    <3>2. /\ xpEvents[<<"reward", k>>] = IF k \in 1..Len(rewards) THEN rewards[k].xp ELSE 0
          /\ xpEvents[<<"reversal", k>>] =
               IF k \in 1..Len(rewards) /\ ~rewards[k].active THEN rewards[k].xp ELSE 0
      BY DEF PracticeInv, XpIsBooked
    <3>3. k \in 1..n <=> k \in 1..Len(rewards) \/ k = n
      BY <1>1
    <3> QED BY <1>1, <1>3, <1>4, <1>7, <3>1, <3>2, <3>3
  <2>2. /\ xpEvents'[<<"learning_attempt", ActivityId>>] = xpEvents[<<"learning_attempt", ActivityId>>]
        /\ xpEvents[<<"learning_attempt", ActivityId>>] <= 1
        /\ xpEvents[<<"learning_attempt", ActivityId>>] > 0 => \E i \in 1..Len(attempts) : attempts[i].done
    BY <1>7, KeysOfTheLedger DEF PracticeInv, XpIsBooked, XpRecorded
  <2> QED BY <1>2, <1>4, <2>1, <2>2 DEF XpIsBooked, XpRecorded
<1>10. ScoresExist'
  <2>1. \A o \in Players : players'[o].op = "scored" => players'[o] = players[o]
    BY <1>2, PlayKinds DEF PracticeInv, PracticeTyped
  <2> QED BY <1>2, <2>1 DEF PracticeInv, ScoresExist
<1>11. NumberedInOrder' /\ CompletedStays
  BY <1>2, <1>6 DEF PracticeInv, NumberedInOrder, CompletedStays
<1>12. RewardedApart'
  BY <1>2, <1>3, <1>6, RewardedApartKept
<1> QED BY <1>5, <1>8, <1>9, <1>10, <1>11, <1>12 DEF PracticeInv

\* A reward that is revoked, once or again, has its XP taken back once.
LEMMA RevokeRewardKeeps ==
  ASSUME PracticeInv, NEW k \in 1..Len(rewards), RevokeReward(k)
  PROVE  PracticeInv' /\ CompletedStays
<1> DEFINE row == [rewards[k] EXCEPT !.active = FALSE]
           n == Len(rewards)
<1>1. /\ rewards \in Seq(Reward) /\ xpEvents \in [XpKeys -> Nat] /\ n \in Nat
      /\ rewards[k] \in Reward /\ rewards[k].xp \in 0..1
  <2>1. rewards \in Seq(Reward) /\ rewards[k] \in Reward
    BY DEF PracticeInv, PracticeTyped
  <2> QED BY <2>1 DEF PracticeInv, PracticeTyped, Reward
<1>2. /\ rewards' = [rewards EXCEPT ![k] = row]
      /\ xpEvents' = XpReversed(k)
      /\ UNCHANGED <<policy, attempts, badge, players, overlaps>>
  BY DEF RevokeReward
<1>3. row \in Reward /\ ~row.active /\ row.kind = rewards[k].kind /\ row.xp = rewards[k].xp
  BY <1>1 DEF Reward
<1> HIDE DEF row
<1>4. /\ rewards' \in Seq(Reward) /\ Len(rewards') = n /\ rewards'[k] = row
      /\ \A l \in 1..n : l # k => rewards'[l] = rewards[l]
  BY <1>1, <1>2, <1>3
<1>5. /\ ActiveRewards(rewards') \subseteq ActiveRewards(rewards)
      /\ ActiveLearning(rewards') \subseteq ActiveLearning(rewards)
  BY <1>3, <1>4 DEF ActiveRewards, ActiveLearning
<1>6. /\ xpEvents' \in [XpKeys -> Nat]
      /\ \A key \in XpKeys : key # <<"reversal", k>> => xpEvents'[key] = xpEvents[key]
      /\ k \in 1..MaxRewards => xpEvents'[<<"reversal", k>>] = rewards[k].xp
  <2>1. CASE k \notin 1..MaxRewards
    <3>1. xpEvents' = xpEvents
      BY <1>2, <2>1, KeysOfTheLedger DEF XpReversed, XpRecorded
    <3> QED BY <1>1, <2>1, <3>1
  <2>2. CASE k \in 1..MaxRewards
    <3>1. /\ <<"reward", k>> \in XpKeys /\ <<"reversal", k>> \in XpKeys
          /\ xpEvents[<<"reward", k>>] = rewards[k].xp
          /\ xpEvents[<<"reversal", k>>] = IF ~rewards[k].active THEN rewards[k].xp ELSE 0
      BY <2>2, KeysOfTheLedger DEF PracticeInv, XpIsBooked
    <3>2. CASE rewards[k].xp = 0
      <4>1. xpEvents' = xpEvents
        BY <1>2, <3>1, <3>2 DEF XpReversed, XpRecorded
      <4> QED BY <1>1, <3>1, <3>2, <4>1
    <3>3. CASE rewards[k].xp = 1
      <4>1. xpEvents' = XpInserted("reversal", k)
        BY <1>2, <3>1, <3>3 DEF XpReversed, XpRecorded
      <4>2. xpEvents[<<"reversal", k>>] <= 1
        BY <3>1, <3>3
      <4> QED BY <1>1, <3>1, <3>3, <4>1, <4>2, InsertedOnce
    <3> QED BY <1>1, <3>2, <3>3
  <2> QED BY <2>1, <2>2
<1>7. PracticeTyped'
  BY <1>2, <1>4, <1>6 DEF PracticeInv, PracticeTyped
<1>8. XpIsBooked'
  <2>1. ASSUME NEW l \in 1..MaxRewards
        PROVE  /\ xpEvents'[<<"reward", l>>] = IF l \in 1..n THEN rewards'[l].xp ELSE 0
               /\ xpEvents'[<<"reversal", l>>] =
                    IF l \in 1..n /\ ~rewards'[l].active THEN rewards'[l].xp ELSE 0
    <3>1. /\ xpEvents'[<<"reward", l>>] = xpEvents[<<"reward", l>>]
          /\ l # k => xpEvents'[<<"reversal", l>>] = xpEvents[<<"reversal", l>>]
      BY <1>6, KeysOfTheLedger
    <3>2. /\ xpEvents[<<"reward", l>>] = IF l \in 1..n THEN rewards[l].xp ELSE 0
          /\ xpEvents[<<"reversal", l>>] =
               IF l \in 1..n /\ ~rewards[l].active THEN rewards[l].xp ELSE 0
      BY DEF PracticeInv, XpIsBooked
    <3> QED BY <1>3, <1>4, <1>6, <3>1, <3>2
  <2>2. xpEvents'[<<"learning_attempt", ActivityId>>] = xpEvents[<<"learning_attempt", ActivityId>>]
    BY <1>6, KeysOfTheLedger
  <2> QED BY <1>2, <1>4, <2>1, <2>2 DEF PracticeInv, XpIsBooked, XpRecorded
<1>9. ScoresExist' /\ NumberedInOrder' /\ CompletedStays
  BY <1>2 DEF PracticeInv, ScoresExist, NumberedInOrder, CompletedStays
<1>10. RewardedApart'
  <2>1. /\ \A o \in Players : Rewarding(o)' <=> Rewarding(o)
        /\ ActiveLearning(rewards)' = ActiveLearning(rewards')
    BY <1>2 DEF Rewarding, ActiveLearning, ActiveRewards
  <2> QED BY <1>2, <1>5, <2>1 DEF PracticeInv, RewardedApart
<1>11. BadgeFollowsPoints'
  <2>1. /\ Cardinality(ActiveRewards(rewards')) <= Cardinality(ActiveRewards(rewards))
        /\ Cardinality(ActiveRewards(rewards')) \in Nat /\ Cardinality(ActiveRewards(rewards)) \in Nat
    BY <1>1, <1>4, <1>5, ActiveIsFinite, FS_Subset
  <2>2. ActiveRewards(rewards)' = ActiveRewards(rewards')
    BY DEF ActiveRewards
  <2>3. Cardinality(ActiveRewards(rewards')) >= BadgeAt => Cardinality(ActiveRewards(rewards)) >= BadgeAt
    BY <2>1, PracticeAssumption
  <2> QED BY <1>2, <2>2, <2>3 DEF PracticeInv, BadgeFollowsPoints
<1> QED BY <1>7, <1>8, <1>9, <1>10, <1>11 DEF PracticeInv

\* Every step of practice keeps its invariant, and completed attempts.
LEMMA PracticeStep ==
  ASSUME PracticeInv, [PracticeNext]_practiceVars
  PROVE  PracticeInv' /\ (CompletedStays \/ UNCHANGED practiceVars)
<1>1. ASSUME UNCHANGED <<attempts, xpEvents, rewards, badge, players, overlaps>>,
             policy' \in [xp : BOOLEAN]
      PROVE  PracticeInv' /\ CompletedStays
  BY <1>1 DEF PracticeInv, PracticeTyped, XpIsBooked, XpRecorded, ScoresExist, NumberedInOrder,
     RewardedApart, Rewarding, ActiveLearning, ActiveRewards, BadgeFollowsPoints, CompletedStays
<1>2. ASSUME NEW xp \in BOOLEAN, SetPolicy(xp) PROVE PracticeInv' /\ CompletedStays
  BY <1>1, <1>2 DEF SetPolicy
<1>3. CASE UNCHANGED practiceVars
  BY <1>1, <1>3 DEF practiceVars, PracticeInv, PracticeTyped
<1>4. ASSUME NEW r \in Players, SubmitCommit(r) PROVE PracticeInv' /\ CompletedStays
  BY <1>4, SubmitCommitKeeps
<1>5. ASSUME NEW k \in 1..Len(rewards), RevokeReward(k) PROVE PracticeInv' /\ CompletedStays
  BY <1>5, RevokeRewardKeeps
<1> QED
  BY <1>2, <1>3, <1>4, <1>5, PlaysKeep, StartWriteKeeps, AwardCommitKeeps DEF PracticeNext

\* The inductive invariant says what the run checks.
LEMMA PracticeInvImplies ==
  ASSUME PracticeInv
  PROVE  PracticeTypeOK /\ XpFollowsRewards /\ OneLearningReward /\ BadgeFollowsPoints
         /\ AttemptsWithinLimit
<1>1. PracticeTypeOK
  <2>1. \A i \in 1..Len(attempts) : attempts[i] \in Attempt
    BY DEF PracticeInv, PracticeTyped
  <2>2. \A k \in 1..Len(rewards) : rewards[k] \in Reward
    BY DEF PracticeInv, PracticeTyped
  <2>3. \A r \in Players : players[r].op \in {"none", "start", "scored", "award"}
    BY PlayKinds DEF PracticeInv, PracticeTyped
  <2> QED
    BY <2>1, <2>2, <2>3 DEF PracticeInv, PracticeTyped, PracticeTypeOK, Attempt, Reward
<1>2. XpFollowsRewards
  <2>1. ASSUME NEW k \in 1..Len(rewards) \intersect (1..MaxRewards)
        PROVE  xpEvents[<<"reward", k>>] - xpEvents[<<"reversal", k>>]
                 = IF rewards[k].active THEN rewards[k].xp ELSE 0
    <3>1. /\ xpEvents[<<"reward", k>>] = rewards[k].xp
          /\ xpEvents[<<"reversal", k>>] = IF ~rewards[k].active THEN rewards[k].xp ELSE 0
      BY DEF PracticeInv, XpIsBooked
    <3>2. rewards[k].xp \in Int
      <4>1. rewards[k] \in Reward
        BY DEF PracticeInv, PracticeTyped
      <4> QED BY <4>1 DEF Reward
    <3> QED BY <3>1, <3>2
  <2> QED BY <2>1 DEF PracticeInv, XpIsBooked, XpFollowsRewards
<1>3. OneLearningReward
  <2> SUFFICES ASSUME "reward" \notin overlaps PROVE Cardinality(ActiveLearning(rewards)) <= 1
    BY DEF OneLearningReward
  <2>1. \A k, l \in ActiveLearning(rewards) : k = l
    BY DEF PracticeInv, RewardedApart
  <2>2. CASE ActiveLearning(rewards) = {}
    BY <2>2, FS_EmptySet
  <2>3. CASE ActiveLearning(rewards) # {}
    <3>1. PICK k : ActiveLearning(rewards) = {k}
      BY <2>1, <2>3
    <3> QED BY <3>1, FS_Singleton
  <2> QED BY <2>2, <2>3
<1>4. AttemptsWithinLimit
  BY DEF PracticeInv, NumberedInOrder, AttemptsWithinLimit
<1> QED BY <1>1, <1>2, <1>3, <1>4 DEF PracticeInv

\* Attempts, XP and rewards are booked once, XP is compensated and never rewritten, and
\* the limits hold unless the requests named in "overlaps" crossed (the unique keys and
\* triggers of migrations 0034 and 0035 are all that the requests meet in).
THEOREM RewardsStayFair == PracticeSpec => RewardsAreFair
<1>1. PracticeInit => PracticeInv
  BY PracticeInvInit
<1>2. PracticeInv /\ [PracticeNext]_practiceVars => PracticeInv' /\ [CompletedStays]_practiceVars
  BY PracticeStep
<1>3. PracticeInv => PracticeTypeOK /\ XpFollowsRewards /\ OneLearningReward
                     /\ BadgeFollowsPoints /\ AttemptsWithinLimit
  BY PracticeInvImplies
<1>4. PracticeSpec => []PracticeInv /\ [][CompletedStays]_practiceVars
  BY <1>1, <1>2, PTL DEF PracticeSpec
<1>5. PracticeSpec => [](PracticeTypeOK /\ XpFollowsRewards /\ OneLearningReward
                         /\ BadgeFollowsPoints /\ AttemptsWithinLimit)
  BY <1>3, <1>4, PTL
<1> QED BY <1>4, <1>5 DEF RewardsAreFair
===============================================================================
