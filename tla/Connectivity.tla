---------------------------- MODULE Connectivity ----------------------------
(***************************************************************************)
(* `tc connectivity readiness` and `tc connectivity probe` as writers of   *)
(* the run directory (cli.py, connectivity/readiness.py and probe.py):     *)
(* own artifact, then a key of metadata.json, then a journal line, then a  *)
(* section of report.md.  The states they record are data here.            *)
(***************************************************************************)
EXTENDS Workspace

VARIABLES
    connFile,   \* connectivity_readiness.json, connectivity_probe.json: the author
    text        \* per invocation: the report text in its memory

connVars == <<connFile, text>>

PatchEntryName(o) ==
    IF o = "readiness" THEN "connectivity_readiness_evaluated"
    ELSE "connectivity_probe_evaluated"

ConnTypeOK ==
    /\ connFile \in [PatchOps -> Proc \cup NoFile]
    /\ text \in [Proc -> ReportContent]

ConnInit ==
    /\ connFile = [o \in PatchOps |-> Absent]
    /\ text = [p \in Proc |-> EmptyReport]

-----------------------------------------------------------------------------
(* Mutated forms: slips that the code could contain. *)

\* The key goes into a dict of the command's own, not into the file's.
SectionReadFresh(p) ==
    /\ Goto(p, "section_read", "section_open")
    /\ held' = [held EXCEPT ![p].sections = {op[p]}]
    /\ UNCHANGED <<files, op, seen, before, connVars>>

\* The journal line is written before the evaluation.
CheckFilesLogged(p) ==
    /\ Goto(p, "check_files",
            IF runDir /\ metadata # Absent /\ journal # Absent
            THEN "artifact_open" ELSE "failed")
    /\ journal' = IF runDir /\ metadata # Absent /\ journal # Absent
                  THEN Append(journal, [event |-> PatchEntryName(op[p]), by |-> p])
                  ELSE journal
    /\ UNCHANGED <<stateFile, events, runDir, runSpec, metadata, metrics, report,
                   op, seen, held, before, connVars>>

\* An invalid target is recorded in metadata.json instead of reported.
InvalidTargetRecorded(p) ==
    /\ op[p] = "probe"
    /\ Goto(p, "artifact_open", "section_read")
    /\ UNCHANGED <<files, op, seen, held, before, connVars>>

-----------------------------------------------------------------------------
PatchBegin(p) ==
    /\ \E o \in PatchOps : Begin(p, o, "check_files")
    /\ UNCHANGED <<files, seen, held, connVars>>

\* The command needs the directory and both files, parseable or not.
CheckFiles(p) ==
    /\ Goto(p, "check_files",
            IF runDir /\ metadata # Absent /\ journal # Absent
            THEN "artifact_open" ELSE "failed")
    /\ UNCHANGED <<files, op, seen, held, before, connVars>>

\* validate_loopback_probe_url raises before anything is written.
InvalidTarget(p) ==
    /\ op[p] = "probe"
    /\ Goto(p, "artifact_open", "failed")
    /\ UNCHANGED <<files, op, seen, held, before, connVars>>

ArtifactOpen(p) ==
    /\ Goto(p, "artifact_open", "artifact_flush")
    /\ connFile' = [connFile EXCEPT ![op[p]] = Empty]
    /\ UNCHANGED <<files, op, seen, held, before, text>>

ArtifactFlush(p) ==
    /\ Goto(p, "artifact_flush", "section_read")
    /\ \E f \in Flush(connFile[op[p]], p) : connFile' = [connFile EXCEPT ![op[p]] = f]
    /\ UNCHANGED <<files, op, seen, held, before, text>>

SectionRead(p) ==
    /\ IF Malformed(metadata)
       THEN Goto(p, "section_read", "failed") /\ UNCHANGED held
       ELSE /\ Goto(p, "section_read", "section_open")
            /\ held' = [held EXCEPT ![p] =
                  [metadata EXCEPT !.sections = @ \cup {op[p]}]]
    /\ UNCHANGED <<files, op, seen, before, connVars>>

SectionOpen(p) ==
    /\ Goto(p, "section_open", "section_flush")
    /\ metadata' = Empty
    /\ UNCHANGED <<stateFile, events, runDir, runSpec, journal, metrics, report,
                   op, seen, held, before, connVars>>

SectionFlush(p) ==
    /\ Goto(p, "section_flush", "section_entry")
    /\ metadata' \in Flush(metadata, held[p])
    /\ UNCHANGED <<stateFile, events, runDir, runSpec, journal, metrics, report,
                   op, seen, held, before, connVars>>

SectionEntry(p) ==
    /\ Goto(p, "section_entry", "report_read")
    /\ journal' = Append(journal, [event |-> PatchEntryName(op[p]), by |-> p])
    /\ UNCHANGED <<stateFile, events, runDir, runSpec, metadata, metrics, report,
                   op, seen, held, before, connVars>>

\* The section is replaced between its markers, or added at the end.
ReportRead(p) ==
    /\ IF report = Absent
       THEN Goto(p, "report_read", "done") /\ UNCHANGED text
       ELSE /\ Goto(p, "report_read", "report_open")
            /\ text' = [text EXCEPT ![p] =
                  [report EXCEPT !.sections = @ \cup {op[p]}]]
    /\ UNCHANGED <<files, op, seen, held, before, connFile>>

ReportOpen(p) ==
    /\ Goto(p, "report_open", "report_flush")
    /\ report' = EmptyReport
    /\ UNCHANGED <<stateFile, events, runDir, runSpec, metadata, journal, metrics,
                   op, seen, held, before, connVars>>

ReportFlush(p) ==
    /\ Goto(p, "report_flush", "done")
    /\ report' \in FlushText(report, text[p])
    /\ UNCHANGED <<stateFile, events, runDir, runSpec, metadata, journal, metrics,
                   op, seen, held, before, connVars>>

PatchStep(p) ==
    \/ CheckFiles(p) \/ InvalidTarget(p) \/ ArtifactOpen(p) \/ ArtifactFlush(p)
    \/ SectionRead(p) \/ SectionOpen(p) \/ SectionFlush(p) \/ SectionEntry(p)
    \/ ReportRead(p) \/ ReportOpen(p) \/ ReportFlush(p)
=============================================================================
