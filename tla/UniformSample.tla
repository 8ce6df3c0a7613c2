---------------------------- MODULE UniformSample ----------------------------
(***************************************************************************)
(* The command sample-zmap: it streams a uniform sample of a ZMap result   *)
(* into a file of its own (internal/zmapsample/sample.go), records it in a *)
(* metadata file and reuses both in later runs (cmd/sample-zmap/main.go).  *)
(* A run may fail or be killed at any step; the files survive it.          *)
(*                                                                         *)
(* The parquet reader is external: a pass over it yields the rows in order *)
(* and ends at the end of the file, or earlier when a read returns no row. *)
(* Rows are collected under a temporary name, so the sample file changes   *)
(* in one step only, the rename.                                           *)
(***************************************************************************)
EXTENDS Integers, Sequences, FiniteSets, Combinatorics

CONSTANTS
    MaxRows,   \* bound: rows of the source file
    Filtered,  \* TRUE with --reply-type: only some rows are eligible
    Percents,  \* values of --percent the command is run with
    Minimum,   \* --minimum
    MaxRuns    \* bound: times the command is run

ASSUME UniformSampleAssumption ==
    /\ MaxRows \in Nat
    /\ Filtered \in BOOLEAN
    /\ Percents \subseteq 1 .. 100
    /\ Minimum \in Nat \ {0}
    /\ MaxRuns \in Nat

VARIABLES
    source,           \* per row of the source: its reply type is the wanted one
    output,           \* the sample file: does it exist, and its rows
    metadata,         \* the metadata file
    pc,               \* where the command is
    runs,             \* times it was started
    percent,          \* its --percent
    row,              \* next row of the current pass
    total,            \* eligible rows counted
    remainingRows,
    remainingWanted,
    processed,
    selected,         \* rows written to the temporary file
    likelihood,       \* ghost: the probability of the draws so far
    outcome           \* how the last run ended

planVars == <<source, runs, percent>>
countVars == <<row, total>>
drawVars == <<remainingRows, remainingWanted, processed, selected, likelihood>>
fileVars == <<output, metadata>>
vars == <<planVars, countVars, drawVars, fileVars, pc, outcome>>

NoSample == [exists |-> FALSE, rows |-> <<>>]

NoMetadata == [exists |-> FALSE, percent |-> 1, eligible |-> 0, source |-> 0, sample |-> 0]

\* min(total, max(ceil(total*percent/100), minimum))
SampleSizeUncapped(rows, minimum, percentage) ==
    LET percentageRows == (rows * percentage + 99) \div 100
    IN  IF percentageRows > minimum THEN percentageRows ELSE minimum

FixedBaseSampleSize(rows, minimum, percentage) ==
    LET percentageRows == (rows * percentage + 99) \div 100
        requested == IF percentageRows > minimum THEN percentageRows ELSE minimum
    IN  IF rows <= 0 THEN 0 ELSE IF requested > rows THEN rows ELSE requested

Wanted == FixedBaseSampleSize(total, Minimum, percent)

Certain == [num |-> 1, den |-> 1]

\* Without a filter every row is eligible.
Sources ==
    UNION {[1 .. n -> IF Filtered THEN BOOLEAN ELSE {TRUE}] : n \in 0 .. MaxRows}

Init ==
    /\ source \in Sources
    /\ output = NoSample /\ metadata = NoMetadata
    /\ pc = "exit" /\ runs = 0 /\ outcome = "none"
    /\ percent \in Percents
    /\ row = 1 /\ total = 0
    /\ remainingRows = 0 /\ remainingWanted = 0 /\ processed = 0
    /\ selected = <<>>
    /\ likelihood = Certain

Exit(how) == pc' = "exit" /\ outcome' = how

-----------------------------------------------------------------------------
(* main: reuse what exists, or sample *)

\* NumRows of the source, set to zero before the filtered rows are counted.
InitialTotal == IF Filtered THEN 0 ELSE Len(source)

Start ==
    /\ pc = "exit" /\ runs < MaxRuns
    /\ runs' = runs + 1
    /\ percent' \in Percents
    /\ outcome' = "none"
    /\ row' = 1
    /\ total' = InitialTotal
    /\ remainingRows' = 0 /\ remainingWanted' = 0 /\ processed' = 0
    /\ selected' = <<>> /\ likelihood' = Certain
    /\ pc' = IF output.exists \/ metadata.exists THEN "validate"
             ELSE IF Filtered THEN "count" ELSE "plan"
    /\ UNCHANGED <<source, fileVars>>

\* validateExisting; the request names the same ZMap result and reply type.
ExistingUnchecked == metadata.exists

ExistingMatches ==
    /\ metadata.exists /\ output.exists
    /\ metadata.percent = percent
    /\ LET eligibleRows == IF Filtered THEN metadata.eligible ELSE Len(source)
           wanted == FixedBaseSampleSize(eligibleRows, Minimum, percent)
       IN  /\ eligibleRows \in 1 .. Len(source) \/ ~Filtered
           /\ metadata.source = Len(source)
           /\ metadata.sample = wanted /\ Len(output.rows) = wanted

ValidateExisting ==
    /\ pc = "validate"
    /\ Exit(IF ExistingMatches THEN "reused" ELSE "refused")
    /\ UNCHANGED <<planVars, countVars, drawVars, fileVars>>

-----------------------------------------------------------------------------
(* WriteUniformSample *)

\* The first pass counts what the filter lets through.
CountRow ==
    /\ pc = "count" /\ row <= Len(source)
    /\ row' = row + 1
    /\ total' = IF source[row] THEN total + 1 ELSE total
    /\ UNCHANGED <<planVars, drawVars, fileVars, pc, outcome>>

\* A pass ends at the end of the file or with a read that returns no row.
CountEnds ==
    /\ pc = "count"
    /\ pc' = "plan"
    /\ row' = 1
    /\ UNCHANGED <<planVars, total, drawVars, fileVars, outcome>>

Plan ==
    /\ pc = "plan"
    /\ IF total = 0 THEN Exit("error") /\ UNCHANGED <<remainingRows, remainingWanted>>
       ELSE /\ pc' = "sample"
            /\ remainingRows' = total /\ remainingWanted' = Wanted
            /\ UNCHANGED outcome
    /\ UNCHANGED <<planVars, countVars, processed, selected, likelihood, fileVars>>

\* Every remaining row is needed: taken without a draw.
Forced == remainingWanted = remainingRows

\* rng.Int63n(remainingRows) is drawn.
Draws == ~Forced /\ remainingWanted > 0

\* The draws that take the row.
TakingOneMore == {draw \in 0 .. remainingRows - 1 : draw <= remainingWanted}

Taking == {draw \in 0 .. remainingRows - 1 : draw < remainingWanted}

Times(p, ways) ==
    [num |-> p.num * ways, den |-> p.den * remainingRows]

TakeRow ==
    /\ selected' = Append(selected, row)
    /\ remainingWanted' = remainingWanted - 1
    /\ remainingRows' = remainingRows - 1
    /\ processed' = processed + 1

LeaveRow ==
    /\ UNCHANGED <<selected, remainingWanted>>
    /\ remainingRows' = remainingRows - 1
    /\ processed' = processed + 1

\* One row of the second pass.
SampleRow ==
    /\ pc = "sample" /\ row <= Len(source)
    /\ row' = row + 1
    /\ \/ ~source[row] /\ UNCHANGED drawVars
       \/ source[row] /\ Forced /\ TakeRow /\ UNCHANGED likelihood
       \/ source[row] /\ ~Forced /\ ~Draws /\ LeaveRow /\ UNCHANGED likelihood
       \/ /\ source[row] /\ Draws /\ Taking # {}
          /\ TakeRow
          /\ likelihood' = Times(likelihood, Cardinality(Taking))
       \/ /\ source[row] /\ Draws /\ Taking # 0 .. remainingRows - 1
          /\ LeaveRow
          /\ likelihood' = Times(likelihood, remainingRows - Cardinality(Taking))
    /\ UNCHANGED <<planVars, total, fileVars, pc, outcome>>

\* The end of the pass with the accounting check.
AccountsUnchecked == TRUE

AccountsBalance == processed = total /\ remainingWanted = 0 /\ remainingRows = 0

SampleEnds ==
    /\ pc = "sample"
    /\ IF AccountsBalance THEN pc' = "publish" /\ UNCHANGED outcome ELSE Exit("error")
    /\ UNCHANGED <<planVars, countVars, drawVars, fileVars>>

\* The last flush, the close and the rename to the final name.
Publish ==
    /\ pc = "publish"
    /\ output' = [exists |-> TRUE, rows |-> selected]
    /\ pc' = "metadata"
    /\ UNCHANGED <<planVars, countVars, drawVars, metadata, outcome>>

-----------------------------------------------------------------------------
(* main: the metadata, and how a run may end early *)

WriteMetadata ==
    /\ pc = "metadata"
    /\ metadata' = [exists |-> TRUE, percent |-> percent, eligible |-> total,
                    source |-> Len(source), sample |-> Wanted]
    /\ Exit("created")
    /\ UNCHANGED <<planVars, countVars, drawVars, output>>

\* The sample is removed again; the error of the removal is ignored.
MetadataFails ==
    /\ pc = "metadata"
    /\ output' \in {NoSample, output}
    /\ Exit("error")
    /\ UNCHANGED <<planVars, countVars, drawVars, metadata>>

\* Opening, reading, seeking, writing, closing or renaming fails.
Fails ==
    /\ pc \in {"validate", "count", "plan", "sample", "publish"}
    /\ Exit("error")
    /\ UNCHANGED <<planVars, countVars, drawVars, fileVars>>

Killed ==
    /\ pc # "exit"
    /\ Exit("killed")
    /\ UNCHANGED <<planVars, countVars, drawVars, fileVars>>

\* The last of the runs is over.
Over == pc = "exit" /\ runs = MaxRuns /\ UNCHANGED vars

-----------------------------------------------------------------------------
Next ==
    \/ Start \/ ValidateExisting \/ CountRow \/ CountEnds \/ Plan \/ SampleRow
    \/ SampleEnds \/ Publish \/ WriteMetadata \/ MetadataFails \/ Fails \/ Killed
    \/ Over

Spec == Init /\ [][Next]_vars

-----------------------------------------------------------------------------
(* Properties *)

Points == {"exit", "validate", "count", "plan", "sample", "publish", "metadata"}
Outcomes == {"none", "created", "reused", "refused", "error", "killed"}
Metadata ==
    [exists : BOOLEAN, percent : 1 .. 100, eligible : Nat, source : Nat, sample : Nat]

TypeOK ==
    /\ source \in Seq(BOOLEAN)
    /\ output \in [exists : BOOLEAN, rows : Seq(Nat)]
    /\ metadata \in Metadata
    /\ pc \in Points
    /\ runs \in 0 .. MaxRuns
    /\ percent \in Percents
    /\ row \in 1 .. Len(source) + 1
    /\ total \in 0 .. Len(source)
    /\ remainingRows \in Int /\ remainingWanted \in Int
    /\ processed \in Nat
    /\ selected \in Seq(Nat)
    /\ likelihood \in [num : Int, den : Int]
    /\ outcome \in Outcomes

\* Rows of the source with the wanted reply type, in their original order and
\* none of them twice.
InSourceOrder(rows) ==
    /\ \A i \in DOMAIN rows : rows[i] \in DOMAIN source /\ source[rows[i]]
    /\ \A i, j \in DOMAIN rows : i < j => rows[i] < rows[j]

\* The published sample is exact: FixedBaseSampleSize rows, all eligible and in
\* order, also when the two passes of WriteUniformSample see different rows.
PublishedExact ==
    pc = "metadata" => InSourceOrder(output.rows) /\ Len(output.rows) = Wanted

\* What a successful run hands on, sampled now or by an earlier run, is an exact
\* sample for its own request, whichever runs were killed or failed in between.
UsableSample ==
    outcome \in {"created", "reused"} =>
        /\ output.exists /\ metadata.exists
        /\ InSourceOrder(output.rows)
        /\ Len(output.rows) = FixedBaseSampleSize(metadata.eligible, Minimum, percent)

\* rng.Int63n panics unless its argument is positive: no row is drawn for once the
\* counters are used up, though the second pass may yield more rows than counted.
DrawsFromRows == pc = "sample" /\ Draws => remainingRows > 0

\* The sample is uniform: the probability of the draws that lead to a published
\* sample is one over the number of samples of its size.
Uniform ==
    pc = "metadata" => likelihood.num * choose(total, Wanted) = likelihood.den

\* A rerun with the unchanged request resumes: it is not refused on account of
\* what an earlier run left behind.
RerunResumes ==
    outcome = "refused" => metadata.exists /\ metadata.percent # percent

=============================================================================
