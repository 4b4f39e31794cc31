---------------------------- MODULE SourceIntake ----------------------------
(***************************************************************************)
(* POST /pats/intake/runs (app/intake/source-run.router.ts): the files of  *)
(* one upload are analysed one after another, each leaves an artifact, and *)
(* the run that collects them gets the status they add up to.              *)
(*                                                                         *)
(* No transaction holds the run together: every call to the database       *)
(* commits alone, any call may fail, may commit and lose its answer, and   *)
(* the process may stop between two of them.  Uploads share nothing, and a *)
(* client that sends one again starts another run.                         *)
(***************************************************************************)
EXTENDS Naturals, Sequences

CONSTANTS
    Names,            \* file names
    MaxArtifacts      \* files of an upload

VARIABLES
    upload,           \* the files the client sends
    run,              \* the status of the SourceRun row
    stored,           \* its artifacts, oldest first
    statuses,         \* those the process has in memory
    at,               \* what the process does next
    failures          \* the calls that failed or lost an answer

vars == <<upload, run, stored, statuses, at, failures>>

Types == {"WORKBOOK", "PDF", "OTHER"}
File == [name: Names, type: Types]
(* What the analysis of a file can come to: a PDF with issues is PARTIAL,  *)
(* an analyser that throws leaves a FAILED artifact.                       *)
Outcomes(type) ==
    CASE type = "WORKBOOK" -> {"COMPLETED", "FAILED"}
      [] type = "PDF" -> {"COMPLETED", "PARTIAL", "FAILED"}
      [] type = "OTHER" -> {"FAILED"}

Init ==
    /\ upload \in UNION {[1..n -> File] : n \in 0..MaxArtifacts + 1}
    /\ run = "ABSENT"
    /\ stored = <<>>
    /\ statuses = <<>>
    /\ at = "upload"
    /\ failures = 0
-----------------------------------------------------------------------------
Goto(from, to) == at = from /\ at' = to
Fails == failures' = failures + 1

(* No file, or too many: refused before anything is written.               *)
Acceptable == Len(upload) \in 1..MaxArtifacts
Refuse ==
    /\ ~Acceptable
    /\ Goto("upload", "refused")
    /\ UNCHANGED <<upload, run, stored, statuses, failures>>

(* The run is created outside of the try: a lost answer leaves the row.    *)
Create ==
    /\ Acceptable
    /\ Goto("upload", "files")
    /\ run' = "RUNNING"
    /\ UNCHANGED <<upload, stored, statuses, failures>>
CreateFails ==
    /\ Acceptable
    /\ Goto("upload", "error")
    /\ run' \in {run, "RUNNING"}
    /\ Fails
    /\ UNCHANGED <<upload, stored, statuses>>

Left == Len(statuses) < Len(upload)
NextFile == upload[Len(statuses) + 1]
(* Unique: one artifact per file name and run.                             *)
NameTaken == \E k \in 1..Len(stored) : stored[k].name = NextFile.name
WithArtifact(outcome) ==
    Append(stored, [name |-> NextFile.name, status |-> outcome])

(* Mutation: a file whose name is taken is passed over. *)
StoreSkips ==
    /\ Left
    /\ Goto("files", "files")
    /\ \E outcome \in Outcomes(NextFile.type) :
         /\ stored' = IF NameTaken THEN stored ELSE WithArtifact(outcome)
         /\ statuses' = Append(statuses, outcome)
    /\ UNCHANGED <<upload, run, failures>>
(* A file is analysed, and its artifact stored.                            *)
Store ==
    /\ Left /\ ~NameTaken
    /\ Goto("files", "files")
    /\ \E outcome \in Outcomes(NextFile.type) :
         /\ stored' = WithArtifact(outcome)
         /\ statuses' = Append(statuses, outcome)
    /\ UNCHANGED <<upload, run, failures>>
(* The insert is refused or fails, or only its answer does.                *)
StoreFails ==
    /\ Left
    /\ Goto("files", "catch")
    /\ \/ UNCHANGED stored
       \/ /\ ~NameTaken
          /\ \E outcome \in Outcomes(NextFile.type) : stored' = WithArtifact(outcome)
    /\ Fails
    /\ UNCHANGED <<upload, run, statuses>>

Each(status) == \A k \in 1..Len(statuses) : statuses[k] = status
RunStatus ==
    IF Each("FAILED") THEN "FAILED"
    ELSE IF Each("COMPLETED") THEN "COMPLETED"
    ELSE "PARTIAL"
(* The run is finished and its status answered.                            *)
Complete ==
    /\ ~Left
    /\ Goto("files", "answered")
    /\ run' = RunStatus
    /\ UNCHANGED <<upload, stored, statuses, failures>>
CompleteFails ==
    /\ ~Left
    /\ Goto("files", "catch")
    /\ run' \in {run, RunStatus}
    /\ Fails
    /\ UNCHANGED <<upload, stored, statuses>>

(* Mutation: an error is only passed on. *)
CatchOnly ==
    /\ Goto("catch", "error")
    /\ UNCHANGED <<upload, run, stored, statuses, failures>>
(* An error fails the run, whatever it has become, and is passed on.       *)
Catch ==
    /\ Goto("catch", "error")
    /\ run' = "FAILED"
    /\ UNCHANGED <<upload, stored, statuses, failures>>
(* That is best effort.                                                    *)
CatchFails ==
    /\ Goto("catch", "error")
    /\ run' \in {run, "FAILED"}
    /\ Fails
    /\ UNCHANGED <<upload, stored, statuses>>

(* The process stops; nothing takes a run up again.                        *)
Stop ==
    /\ at \in {"files", "catch"}
    /\ at' = "stopped"
    /\ UNCHANGED <<upload, run, stored, statuses, failures>>

Work == Store \/ StoreFails \/ Complete \/ CompleteFails \/ Catch \/ CatchFails
Next == Refuse \/ Create \/ CreateFails \/ Work \/ Stop

Spec == Init /\ [][Next]_vars
-----------------------------------------------------------------------------
Whole ==
    /\ Len(stored) = Len(upload)
    /\ \A k \in 1..Len(upload) : stored[k].name = upload[k].name
Some(status) == \E k \in 1..Len(stored) : stored[k].status = status

(* A run that is COMPLETED has an artifact of every file of the upload, in *)
(* order, each COMPLETED; a PARTIAL one has them all too, and some is of   *)
(* use; a FAILED one in which no call failed has nothing of use.           *)
StatusTellsArtifacts ==
    /\ run = "COMPLETED" => Whole /\ ~Some("PARTIAL") /\ ~Some("FAILED")
    /\ run = "PARTIAL" => Whole /\ (Some("COMPLETED") \/ Some("PARTIAL"))
    /\ run = "FAILED" /\ failures = 0 => Whole /\ ~Some("COMPLETED") /\ ~Some("PARTIAL")

(* No single failed call leaves a run RUNNING for ever, but for the one    *)
(* that makes the run; a process that stops does, and so does a second     *)
(* failure.                                                                *)
RunsEnd ==
    (run = "RUNNING" /\ at = "files")
       ~> (run # "RUNNING" \/ at = "stopped" \/ failures > 1)
=============================================================================
