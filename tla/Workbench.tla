----------------------------- MODULE Workbench -----------------------------
(***************************************************************************)
(* The tool page of the web app: a visitor picks a file, runs a tool and   *)
(* cleans up.  Every await of the page is a point where the visitor, the   *)
(* job or another answer may come in between: a picked JPEG is stripped of *)
(* its EXIF data in the background, a run is five calls and then a poll    *)
(* that gives up after 90 seconds, and a cleanup does not stop the visitor *)
(* from starting the next run.  The buttons are the only guards.           *)
(*                                                                         *)
(* An object is named by the run that made it and by its side, as every    *)
(* run gets an upload key of its own from the API.  The job of a run reads *)
(* the canonical object its completion recorded, which deduplication may   *)
(* have found among the uploads of the runs before.  Uploads of other      *)
(* pages, the text of messages and the options of the tools are left out.  *)
(*                                                                         *)
(* A definition whose name ends in Slip is a mutant of the one after it.   *)
(***************************************************************************)
EXTENDS Naturals, Sequences, FiniteSets

CONSTANTS
  File,      \* the files a visitor picks
  NoFile,    \* nothing is picked, or the dialog was cancelled
  MaxPicks,  \* bound: how often a visitor picks
  MaxRuns,   \* bound: how often a visitor runs the tool
  MaxCleanups  \* bound: cleanups in flight

ASSUME WorkbenchAssumption ==
  /\ NoFile \notin File
  /\ MaxPicks \in Nat /\ MaxRuns \in Nat /\ MaxCleanups \in Nat

VARIABLES
  picks,      \* what was picked so far (fileSelectionIdRef is its length)
  stripping,  \* picks whose stripExif has not resolved
  file,       \* the file state of the page
  runs,       \* runs started so far
  phase,      \* the await the current run is at; "idle" when running is false
  sent,       \* sent[r]: the file that run r closed over
  canonical,  \* canonical[r]: the canonical upload the completion of run r recorded,
              \* as the run that made it; 0 for none
  reads,      \* reads[r]: the upload that is the input of its job, likewise
  input,      \* lastInputKey, as the run that made it; 0 for null
  output,     \* lastOutputKey, likewise
  result,     \* the job shown as finished, as its run; 0 for null
  failed,     \* an error text is shown
  jobs,       \* the job of each run, as the API would report it
  history,    \* the jobs kept in localStorage, newest first
  cleans      \* cleanups in flight, each the objects it names

pickVars == <<picks, stripping, file>>
shownVars == <<input, output, result>>
serverVars == <<canonical, reads, jobs>>
workbenchVars == <<pickVars, runs, phase, sent, canonical, reads, shownVars, failed, jobs,
                   history, cleans>>

Phases == {"init", "post", "complete", "create", "poll"}
JobState == {"none", "queued", "running", "done", "failed"}
Final == {"done", "failed"}
HistoryCap == 20  \* persistJobHistory keeps twenty

Made(run, side) == [run |-> run, side |-> side]

WorkbenchInit ==
  /\ picks = <<>> /\ stripping = {} /\ file = NoFile
  /\ runs = 0 /\ phase = "idle" /\ sent = [r \in 1..MaxRuns |-> NoFile]
  /\ canonical = [r \in 1..MaxRuns |-> 0] /\ reads = [r \in 1..MaxRuns |-> 0]
  /\ input = 0 /\ output = 0 /\ result = 0 /\ failed = FALSE
  /\ jobs = [r \in 1..MaxRuns |-> "none"]
  /\ history = <<>> /\ cleans = {}

----------------------------------------------------------------------------
(* The file input: a pick takes a number; the file it strips is shown only *)
(* when no later pick was made meanwhile.  Until then the file of an       *)
(* earlier pick stays, and can be run.                                     *)

Pick(f) ==
  /\ Len(picks) < MaxPicks
  /\ picks' = Append(picks, f)
  /\ IF f = NoFile
       THEN file' = NoFile /\ UNCHANGED stripping
       ELSE stripping' = stripping \union {Len(picks')} /\ UNCHANGED file
  /\ UNCHANGED <<runs, phase, sent, shownVars, failed, serverVars, history, cleans>>

Stripped(n) ==
  /\ n \in stripping
  /\ stripping' = stripping \ {n}
  /\ file' = IF n = Len(picks) THEN picks[n] ELSE file
  /\ UNCHANGED <<picks, runs, phase, sent, shownVars, failed, serverVars, history, cleans>>

----------------------------------------------------------------------------
(* runPipeline.                                                            *)

\* The output key of the last run is kept.
StartForgetfulSlip ==
  /\ phase = "idle" /\ file # NoFile /\ runs < MaxRuns
  /\ runs' = runs + 1
  /\ phase' = "init" /\ sent' = [sent EXCEPT ![runs'] = file]
  /\ input' = 0 /\ result' = 0 /\ failed' = FALSE
  /\ UNCHANGED <<pickVars, output, serverVars, history, cleans>>

Start ==
  /\ phase = "idle" /\ file # NoFile /\ runs < MaxRuns
  /\ runs' = runs + 1
  /\ phase' = "init" /\ sent' = [sent EXCEPT ![runs'] = file]
  /\ input' = 0 /\ output' = 0 /\ result' = 0 /\ failed' = FALSE
  /\ UNCHANGED <<pickVars, serverVars, history, cleans>>

\* The catch and the finally of the pipeline.
Stop ==
  /\ phase' = "idle" /\ failed' = TRUE
  /\ UNCHANGED <<pickVars, runs, sent, cleans>>

\* Any of the five calls may fail; so may the poll, or its 90 seconds pass.
Abandon ==
  /\ phase # "idle"
  /\ Stop
  /\ UNCHANGED <<shownVars, serverVars, history>>

Advance(from, to) ==
  /\ phase = from /\ phase' = to
  /\ UNCHANGED <<pickVars, runs, sent, failed, history, cleans>>

UploadInitialized ==
  /\ Advance("init", "post")
  /\ input' = runs
  /\ UNCHANGED <<output, result, serverVars>>

UploadPosted == Advance("post", "complete") /\ UNCHANGED <<shownVars, serverVars>>

\* The completion takes the upload itself for its canonical object, or that of an
\* earlier run of the same file; which of those are still there is left open.
Completed ==
  /\ \E c \in {runs} \union {r \in 1..runs : canonical[r] = r /\ sent[r] = sent[runs]} :
       canonical' = [canonical EXCEPT ![runs] = c]
  /\ UNCHANGED <<reads, jobs>>

UploadCompleted == Advance("complete", "create") /\ Completed /\ UNCHANGED shownVars

\* An upload is completed although the answer is lost.
UploadCompletedUnheard ==
  /\ phase = "complete"
  /\ Completed
  /\ Stop
  /\ UNCHANGED <<shownVars, history>>

\* The page names the key it uploaded to (the answer repeats it); the API has the job
\* read the canonical object that the completion recorded for that key.
Created ==
  /\ jobs' = [jobs EXCEPT ![runs] = "queued"]
  /\ reads' = [reads EXCEPT ![runs] = canonical[runs]]
  /\ UNCHANGED canonical

JobCreated == Advance("create", "poll") /\ Created /\ UNCHANGED shownVars

\* A job is created although its answer is lost.
JobCreatedUnheard ==
  /\ phase = "create"
  /\ Created
  /\ Stop
  /\ UNCHANGED <<shownVars, history>>

\* The history without the entry of a run: it holds one at most.
Others(run) ==
  LET places == {i \in DOMAIN history : history[i].run = run}
      i == CHOOSE i \in places : TRUE
  IN  IF places = {} THEN history
      ELSE SubSeq(history, 1, i - 1) \o SubSeq(history, i + 1, Len(history))

Remember(run) ==
  LET next == <<[run |-> run, status |-> jobs[run]]>> \o Others(run)
  IN  history' = SubSeq(next, 1, IF Len(next) < HistoryCap THEN Len(next) ELSE HistoryCap)

PollDone ==
  /\ phase = "poll" /\ jobs[runs] = "done"
  /\ phase' = "idle" /\ result' = runs /\ output' = runs
  /\ Remember(runs)
  /\ UNCHANGED <<pickVars, runs, sent, input, failed, serverVars, cleans>>

PollFailed ==
  /\ phase = "poll" /\ jobs[runs] = "failed"
  /\ Remember(runs)
  /\ Stop
  /\ UNCHANGED <<shownVars, serverVars>>

\* The worker, as the status route reports it; a redelivery runs a job again.
JobMoves(run, to) ==
  /\ \/ jobs[run] = "queued" /\ to = "running"
     \/ jobs[run] = "running" /\ to \in Final
     \/ jobs[run] = "failed" /\ to = "running"
  /\ jobs' = [jobs EXCEPT ![run] = to]
  /\ UNCHANGED <<pickVars, runs, phase, sent, canonical, reads, shownVars, failed, history,
                 cleans>>

----------------------------------------------------------------------------
(* cleanupRun: both buttons are disabled while a run is under way, but not *)
(* while another cleanup is.                                               *)

SendCleanup(withOutput) ==
  /\ phase = "idle" /\ input # 0
  /\ withOutput => output # 0
  /\ Cardinality(cleans) < MaxCleanups
  /\ cleans' = cleans \union
       {{Made(input, "input")} \union
        (IF withOutput THEN {Made(output, "output")} ELSE {})}
  /\ failed' = FALSE
  /\ UNCHANGED <<pickVars, runs, phase, sent, shownVars, serverVars, history>>

\* The answer; a refusal is shown even when another run has started.
Cleaned(keys) ==
  /\ keys \in cleans
  /\ cleans' = cleans \ {keys}
  /\ failed' \in {failed, TRUE}
  /\ UNCHANGED <<pickVars, runs, phase, sent, shownVars, serverVars, history>>

WorkbenchNext ==
  \/ \E f \in File \union {NoFile} : Pick(f)
  \/ \E n \in stripping : Stripped(n)
  \/ Start
  \/ Abandon
  \/ UploadInitialized
  \/ UploadPosted
  \/ UploadCompleted
  \/ UploadCompletedUnheard
  \/ JobCreated
  \/ JobCreatedUnheard
  \/ PollDone
  \/ PollFailed
  \/ \E r \in 1..MaxRuns, s \in JobState : JobMoves(r, s)
  \/ \E b \in BOOLEAN : SendCleanup(b)
  \/ \E keys \in cleans : Cleaned(keys)

WorkbenchSpec == WorkbenchInit /\ [][WorkbenchNext]_workbenchVars

----------------------------------------------------------------------------
\* What the API and the runs keep.
ServerTypeOK ==
  /\ sent \in [1..MaxRuns -> File \union {NoFile}]
  /\ canonical \in [1..MaxRuns -> 0..MaxRuns] /\ reads \in [1..MaxRuns -> 0..MaxRuns]
  /\ jobs \in [1..MaxRuns -> JobState]

\* Every variable stays in its type.
WorkbenchTypeOK ==
  /\ picks \in Seq(File \union {NoFile}) /\ stripping \subseteq DOMAIN picks
  /\ file \in File \union {NoFile}
  /\ runs \in 0..MaxRuns /\ phase \in Phases \union {"idle"}
  /\ {input, output, result} \subseteq 0..runs
  /\ failed \in BOOLEAN
  /\ history \in Seq([run : 1..runs, status : Final]) /\ Len(history) <= HistoryCap
  /\ cleans \subseteq SUBSET [run : 1..runs, side : {"input", "output"}]
  /\ ServerTypeOK

\* A cleanup of the page (tool-workbench.tsx:430) names what one run made: it never
\* pairs the upload of one run with the output of an earlier one, whatever step of
\* the later run failed and whichever answers came late, and never names what the
\* run under way made.  What that run reads it may take away, but only if an
\* earlier run uploaded the same file.
CleansOneRun ==
  \A keys \in cleans :
    /\ \A k, l \in keys : k.run = l.run
    /\ phase # "idle" =>
         \A k \in keys : /\ k.run # runs
                         /\ k = Made(reads[runs], "input") => sent[k.run] = sent[runs]
============================================================================
