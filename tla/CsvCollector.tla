----------------------------- MODULE CsvCollector ----------------------------
(***************************************************************************)
(* The collector of the CSV files machines write into a directory          *)
(* (machine_csv_collector.py).  One thread observes a file until it is     *)
(* stable, moves it to _processing, imports it and deletes it; a file that *)
(* is not imported goes to _failed and then gets a failed report.  Each of *)
(* these is a step, each move may fail, and the collector may die after    *)
(* any of them; what it left in _processing returns to the input when it   *)
(* scans again.  A move across volumes copies the file and then deletes    *)
(* it: it may fail half-way, and a copy stays where the file was.          *)
(*                                                                         *)
(* Two files may have one content: a machine writes a report twice, or an  *)
(* operator copies it.  Reports are keyed by content.                      *)
(***************************************************************************)
EXTENDS Tables, Naturals

CONSTANTS Files, Oversized,   \* ids of files, and those of more than 5 MB
          Contents, ContentOf,  \* the content of each file; of an oversized one its size
          NoFile

ASSUME CollectorAssumption ==
    /\ Oversized \subseteq Files /\ NoFile \notin Files
    /\ ContentOf \in [Files -> Contents]

\* A file whose writing pauses for longer than csv_stable_seconds is read
\* before it is complete.
Payload == [content : Contents, oversized : BOOLEAN, complete : BOOLEAN]
Held == [file : Files, payload : Payload, stage : {"taken", "imported", "rejected", "isolated"}]

\* A row is no mark of a missing one.
ASSUME CollectorRowAssumption == NoRow \notin Payload /\ NoCall \notin Held

VARIABLES place,     \* where each file is
          complete,  \* files their machine has finished writing
          observed,  \* _observed: "new" once seen, "stable" when unchanged since
          report,    \* iot_inspection_report, by payload
          kept,      \* its archive_path: the isolated file of a failed report
          current,   \* the file in hand and how far it got
          read,      \* history: the payload each file was last read as
          stranded   \* history: files isolated, and then neither reported nor moved back

collectorVars == <<place, complete, observed, report, kept, current, read, stranded>>

CollectorInit ==
    /\ place = [f \in Files |-> "none"]
    /\ complete = {}
    /\ observed = [f \in Files |-> "no"]
    /\ report = [x \in Payload |-> "none"]
    /\ kept = [x \in Payload |-> NoFile]
    /\ current = NoCall
    /\ read = [f \in Files |-> NoRow]
    /\ stranded = {}

PayloadOf(f) ==
    [content |-> ContentOf[f], oversized |-> f \in Oversized, complete |-> f \in complete]
InHand(stage) == current # NoCall /\ current.stage = stage
Advance(stage) == current' = [current EXCEPT !.stage = stage]

-----------------------------------------------------------------------------
(* The machines.                                                           *)

WriteFile(f) ==
    /\ place[f] = "none"
    /\ place' = [place EXCEPT ![f] = "input"]
    /\ UNCHANGED <<complete, observed, report, kept, current, read, stranded>>

\* The signature changes, so what was observed no longer counts.  A file that
\* was moved while it was being written keeps growing where it is.
CompleteFile(f) ==
    /\ place[f] \notin {"none", "gone"} /\ f \notin complete
    /\ complete' = complete \cup {f}
    /\ observed' = [observed EXCEPT ![f] = IF @ = "no" THEN "no" ELSE "changed"]
    /\ UNCHANGED <<place, report, kept, current, read, stranded>>

-----------------------------------------------------------------------------
(* A scan.                                                                 *)

Idle == current = NoCall

\* _recover_processing, of some files (max_files) at the start of a scan
Recover(f) ==
    /\ Idle /\ place[f] = "processing"
    /\ place' = [place EXCEPT ![f] = "input"]
    /\ UNCHANGED <<complete, observed, report, kept, current, read, stranded>>

Observe(f) ==
    /\ Idle /\ place[f] = "input" /\ f \notin Oversized
    /\ observed[f] \in {"no", "changed", "new"}
    /\ observed' = [observed EXCEPT ![f] = IF @ = "new" THEN "stable" ELSE "new"]
    /\ UNCHANGED <<place, complete, report, kept, current, read, stranded>>

Take(f) ==
    /\ Idle /\ place[f] = "input"
    /\ observed[f] = "stable"
    /\ place' = [place EXCEPT ![f] = "processing"]
    /\ observed' = [observed EXCEPT ![f] = "no"]
    /\ current' = [file |-> f, payload |-> PayloadOf(f), stage |-> "taken"]
    /\ read' = [read EXCEPT ![f] = PayloadOf(f)]
    /\ UNCHANGED <<complete, report, kept, stranded>>

\* Taken without being observed, and failed unread: its payload is its size.
TakeOversized(f) ==
    /\ Idle /\ place[f] = "input" /\ f \in Oversized
    /\ place' = [place EXCEPT ![f] = "processing"]
    /\ current' = [file |-> f, payload |-> PayloadOf(f), stage |-> "rejected"]
    /\ read' = [read EXCEPT ![f] = PayloadOf(f)]
    /\ UNCHANGED <<complete, observed, report, kept, stranded>>

\* A payload that has a report, even a failed one, counts as imported.
ImportFile ==
    /\ InHand("taken")
    /\ report' = [report EXCEPT ![current.payload] = IF @ = "none" THEN "imported" ELSE @]
    /\ Advance("imported")
    /\ UNCHANGED <<place, complete, observed, kept, read, stranded>>

FaultyRejectFile ==   \* the file is unlinked whether it was imported or not
    /\ InHand("taken")
    /\ place' = [place EXCEPT ![current.file] = "gone"]
    /\ current' = NoCall
    /\ UNCHANGED <<complete, observed, report, kept, read, stranded>>

RejectFile ==
    /\ InHand("taken")
    /\ Advance("rejected")
    /\ UNCHANGED <<place, complete, observed, report, kept, read, stranded>>

DeleteFile ==
    /\ InHand("imported")
    /\ place' = [place EXCEPT ![current.file] = "gone"]
    /\ current' = NoCall
    /\ UNCHANGED <<complete, observed, report, kept, read, stranded>>

\* The file cannot be unlinked: an exception after the import.
FailToDelete ==
    /\ InHand("imported")
    /\ Advance("rejected")
    /\ UNCHANGED <<place, complete, observed, report, kept, read, stranded>>

Isolate ==
    /\ InHand("rejected")
    /\ place' = [place EXCEPT ![current.file] = "failed"]
    /\ Advance("isolated")
    /\ UNCHANGED <<complete, observed, report, kept, read, stranded>>

\* It cannot be moved: the next scan recovers it.
FailToIsolate ==
    /\ InHand("rejected")
    /\ current' = NoCall
    /\ UNCHANGED <<place, complete, observed, report, kept, read, stranded>>

RecordFailure ==
    /\ InHand("isolated")
    /\ LET x == current.payload
       IN IF report[x] # "none" THEN UNCHANGED <<report, kept>>
          ELSE /\ report' = [report EXCEPT ![x] = "failed"]
               /\ kept' = [kept EXCEPT ![x] = current.file]
    /\ current' = NoCall
    /\ UNCHANGED <<place, complete, observed, read, stranded>>

\* The report cannot be written: the file is moved back,
FailToRecord ==
    /\ InHand("isolated")
    /\ place' = [place EXCEPT ![current.file] = "input"]
    /\ current' = NoCall
    /\ UNCHANGED <<complete, observed, report, kept, read, stranded>>

\* or cannot be moved back either and stays among the failed ones.
FailToReturn ==
    /\ InHand("isolated")
    /\ stranded' = stranded \cup {current.file}
    /\ current' = NoCall
    /\ UNCHANGED <<place, complete, observed, report, kept, read>>

\* The collector dies, and what it had observed with it.
Die ==
    /\ observed' = [f \in Files |-> "no"]
    /\ stranded' = IF InHand("isolated") THEN stranded \cup {current.file} ELSE stranded
    /\ current' = NoCall
    /\ UNCHANGED <<place, complete, report, kept, read>>

-----------------------------------------------------------------------------
(* Moves that fail half-way: f is moved, and g is the copy left behind.    *)

HalfMoved(f, g, to) ==
    /\ place[g] = "none" /\ ContentOf[g] = ContentOf[f] /\ (g \in Oversized <=> f \in Oversized)
    /\ place' = [place EXCEPT ![f] = to, ![g] = place[f]]
    /\ complete' = IF f \in complete THEN complete \cup {g} ELSE complete
    /\ UNCHANGED <<report, kept>>

HalfRecover(f, g) ==
    /\ Idle /\ place[f] = "processing"
    /\ HalfMoved(f, g, "input")
    /\ read' = [read EXCEPT ![g] = read[f]]
    /\ UNCHANGED <<observed, current, stranded>>

\* The file taken is then isolated, one that is too large only left.
HalfTake(f, g) ==
    /\ Idle /\ place[f] = "input"
    /\ f \in Oversized \/ observed[f] = "stable"
    /\ HalfMoved(f, g, "processing")
    /\ observed' = [observed EXCEPT ![f] = "no"]
    /\ current' = IF f \in Oversized THEN NoCall
                  ELSE [file |-> f, payload |-> PayloadOf(f), stage |-> "rejected"]
    /\ read' = [read EXCEPT ![f] = PayloadOf(f)]
    /\ UNCHANGED stranded

HalfIsolate(g) ==
    /\ InHand("rejected")
    /\ HalfMoved(current.file, g, "failed")
    /\ read' = [read EXCEPT ![g] = read[current.file]]
    /\ stranded' = stranded \cup {current.file}
    /\ current' = NoCall
    /\ UNCHANGED observed

HalfReturn(g) ==
    /\ InHand("isolated")
    /\ HalfMoved(current.file, g, "input")
    /\ read' = [read EXCEPT ![g] = read[current.file]]
    /\ stranded' = stranded \cup {g}
    /\ current' = NoCall
    /\ UNCHANGED observed

CollectorNext ==
    \/ \E f \in Files :
          \/ WriteFile(f) \/ CompleteFile(f)
          \/ Recover(f) \/ Observe(f) \/ Take(f) \/ TakeOversized(f)
          \/ \E g \in Files : HalfRecover(f, g) \/ HalfTake(f, g)
          \/ HalfIsolate(f) \/ HalfReturn(f)
    \/ ImportFile \/ RejectFile \/ DeleteFile \/ FailToDelete
    \/ Isolate \/ FailToIsolate \/ RecordFailure \/ FailToRecord \/ FailToReturn \/ Die

CollectorSpec == CollectorInit /\ [][CollectorNext]_collectorVars

-----------------------------------------------------------------------------
(* Properties.                                                             *)

\* The variables have values of their types.
CollectorTypeOK ==
    /\ place \in [Files -> {"none", "input", "processing", "failed", "gone"}]
    /\ complete \subseteq Files /\ stranded \subseteq Files
    /\ observed \in [Files -> {"no", "changed", "new", "stable"}]
    /\ report \in [Payload -> {"none", "imported", "failed"}]
    /\ kept \in [Payload -> Files \cup {NoFile}]
    /\ current \in Held \cup {NoCall}
    /\ read \in [Files -> Payload \cup {NoRow}]

\* Whatever steps fail, wherever the collector dies and whichever files share a
\* content: a file is deleted only when what was read of it has a report, a
\* file among the failed ones has one too, unless the collector is about to
\* write it, died in between or could neither write it nor move the file back,
\* and the file a failed report names is still there with that payload, to be
\* imported again.
NoFileForgotten ==
    /\ \A f \in Files : place[f] = "gone" => report[read[f]] # "none"
    /\ \A f \in Files : place[f] = "failed" =>
          \/ report[read[f]] # "none"
          \/ InHand("isolated") /\ current.file = f
          \/ f \in stranded
    /\ \A x \in Payload : report[x] = "failed" =>
          /\ kept[x] # NoFile
          /\ place[kept[x]] = "failed" /\ read[kept[x]] = x
=============================================================================
