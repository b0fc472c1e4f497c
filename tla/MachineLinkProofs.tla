-------------------------- MODULE MachineLinkProofs --------------------------
(***************************************************************************)
(* Proofs about the links to machines: the CSV collector, the bridge that  *)
(* sends AIM events, and the gateway with its manager, its processes and   *)
(* their connections.                                                      *)
(*                                                                         *)
(* Collector. NoFileForgotten speaks of what each file was last read as;   *)
(* to keep it through a step one needs to know that a file that was taken  *)
(* was read (TakenMeansRead), that the file in hand is read as what the    *)
(* collector remembers, where it lies, and that no failed report names it  *)
(* yet (HandTells): a file that cannot be reported goes back to the input, *)
(* and a failed report that named it would then name nothing.  A move      *)
(* back that fails leaves it among the failed ones, stranded.              *)
(*                                                                         *)
(* Bridge. What a carrier does rests on what it has read before, and that  *)
(* does not go away (CarriersKnow): a report an importer is about to give  *)
(* an event is stored, has no number and is in no other importer's hands,  *)
(* every other carrier has a row in hand, and one the sink has accepted    *)
(* was received.  The numbers up to the last are those of the rows and     *)
(* those that failed imports have used up (Counted).                       *)
(*                                                                         *)
(* Gateway. RuntimeTellsTruth compares rows with processes, and what keeps *)
(* them alike is the manager's table: its processes are there, of their    *)
(* endpoints and none of them closing, while a process it does not manage  *)
(* outlived one (ProcessesFit); what a sync still has to spawn is not      *)
(* there, and it ends one process at a time (SyncFits). An endpoint whose  *)
(* process has ended is told of until its rows are written, and not when   *)
(* they could not be (Truthful). A connection is served by a process that  *)
(* listens (LinksFit), so one that is only starting or connecting again    *)
(* may go without a word.                                                  *)
(*                                                                         *)
(* Feed. The sequence numbers make a queue of the reports, those without   *)
(* an event among them (NumberingFits), and a row that somebody has        *)
(* claimed is not struck off (OwnedIsPending): the bridge implements       *)
(* EventFeed.                                                              *)
(***************************************************************************)
EXTENDS CsvCollector, AimEventBridge, MachineGateway, FiniteSetTheorems, SequenceTheorems,
        TLAPS

-----------------------------------------------------------------------------
(***************************************************************************)
(* COLLECTOR                                                               *)
(***************************************************************************)

HandTells ==
    current # NoCall =>
       /\ read[current.file] = current.payload
       /\ place[current.file] = IF current.stage = "isolated" THEN "failed" ELSE "processing"
       /\ current.stage = "imported" => report[current.payload] # "none"
       /\ \A x \in Payload : report[x] = "failed" => kept[x] # current.file

TakenMeansRead ==
    \A f \in Files : place[f] \in {"processing", "failed", "gone"} => read[f] \in Payload

CollectorInv == CollectorTypeOK /\ NoFileForgotten /\ HandTells /\ TakenMeansRead

LEMMA CollectorStarts == CollectorInit => CollectorInv
<1> SUFFICES ASSUME CollectorInit PROVE CollectorInv
  OBVIOUS
<1>1. CollectorTypeOK
  BY DEF CollectorInit, CollectorTypeOK
<1>2. NoFileForgotten
  BY DEF CollectorInit, NoFileForgotten
<1>3. HandTells
  BY DEF CollectorInit, HandTells
<1>4. TakenMeansRead
  BY DEF CollectorInit, TakenMeansRead
<1> QED
  BY <1>1, <1>2, <1>3, <1>4 DEF CollectorInv

LEMMA PayloadOfFile == ASSUME CollectorTypeOK, NEW f \in Files PROVE PayloadOf(f) \in Payload
  BY CollectorAssumption DEF PayloadOf, Payload

-----------------------------------------------------------------------------
(* Steps that move a file which is neither failed nor in hand.             *)

LEMMA WriteFileStep ==
  ASSUME CollectorInv, NEW f \in Files, WriteFile(f)
  PROVE  CollectorInv'
<1>1. /\ place[f] = "none" /\ place'[f] = "input"
      /\ \A g \in Files \ {f} : place'[g] = place[g]
      /\ UNCHANGED <<complete, observed, report, kept, current, read, stranded>>
  BY DEF WriteFile, CollectorInv, CollectorTypeOK
<1>2. CollectorTypeOK'
  BY DEF WriteFile, CollectorInv, CollectorTypeOK
<1>3. NoFileForgotten'
  BY <1>1, CollectorAssumption DEF CollectorInv, CollectorTypeOK, NoFileForgotten, InHand
<1>4. HandTells'
  BY <1>1 DEF CollectorInv, CollectorTypeOK, HandTells, Held
<1>5. TakenMeansRead'
  BY <1>1 DEF CollectorInv, TakenMeansRead
<1> QED
  BY <1>2, <1>3, <1>4, <1>5 DEF CollectorInv

\* Nothing but what is complete and what has been observed changes.
LEMMA WatchStep ==
  ASSUME CollectorInv, CollectorTypeOK', UNCHANGED <<place, report, kept, current, read, stranded>>
  PROVE  CollectorInv'
  BY DEF CollectorInv, NoFileForgotten, HandTells, TakenMeansRead, InHand

LEMMA CompleteFileStep ==
  ASSUME CollectorInv, NEW f \in Files, CompleteFile(f)
  PROVE  CollectorInv'
<1>1. CollectorTypeOK'
  BY DEF CompleteFile, CollectorInv, CollectorTypeOK
<1> QED
  BY <1>1, WatchStep DEF CompleteFile

LEMMA ObserveStep ==
  ASSUME CollectorInv, NEW f \in Files, Observe(f)
  PROVE  CollectorInv'
<1>1. CollectorTypeOK'
  BY DEF Observe, CollectorInv, CollectorTypeOK
<1> QED
  BY <1>1, WatchStep DEF Observe

LEMMA RecoverStep ==
  ASSUME CollectorInv, NEW f \in Files, Recover(f)
  PROVE  CollectorInv'
<1>1. /\ place[f] = "processing" /\ place'[f] = "input" /\ current = NoCall
      /\ \A g \in Files \ {f} : place'[g] = place[g]
      /\ UNCHANGED <<complete, observed, report, kept, current, read, stranded>>
  BY DEF Recover, Idle, CollectorInv, CollectorTypeOK
<1>2. CollectorTypeOK'
  BY DEF Recover, CollectorInv, CollectorTypeOK
<1>3. NoFileForgotten'
  BY <1>1, CollectorAssumption DEF CollectorInv, CollectorTypeOK, NoFileForgotten, InHand
<1>4. HandTells'
  BY <1>1 DEF HandTells
<1>5. TakenMeansRead'
  BY <1>1 DEF CollectorInv, TakenMeansRead
<1> QED
  BY <1>2, <1>3, <1>4, <1>5 DEF CollectorInv

\* Taking a file, to import it or because it is too large.
LEMMA TakeSteps ==
  ASSUME CollectorInv, NEW f \in Files, Take(f) \/ TakeOversized(f)
  PROVE  CollectorInv'
<1> DEFINE x == PayloadOf(f)
<1>1. x \in Payload
  BY PayloadOfFile DEF CollectorInv
<1> HIDE DEF x
<1>2. PICK stage \in {"taken", "rejected"} :
        /\ Idle /\ place[f] = "input"
        /\ place' = [place EXCEPT ![f] = "processing"]
        /\ current' = [file |-> f, payload |-> x, stage |-> stage]
        /\ read' = [read EXCEPT ![f] = x]
        /\ UNCHANGED <<complete, report, kept, stranded>>
        /\ observed' \in [Files -> {"no", "changed", "new", "stable"}]
  BY DEF Take, TakeOversized, x, CollectorInv, CollectorTypeOK
<1>3. /\ place'[f] = "processing" /\ read'[f] = x
      /\ \A g \in Files \ {f} : place'[g] = place[g] /\ read'[g] = read[g]
  BY <1>2 DEF CollectorInv, CollectorTypeOK
<1>4. current' \in Held /\ current'.file = f /\ current'.payload = x /\ current'.stage = stage
  BY <1>1, <1>2 DEF Held
<1>5. CollectorTypeOK'
  BY <1>1, <1>2, <1>4 DEF CollectorInv, CollectorTypeOK
<1>6. NoFileForgotten'
  <2>1. current = NoCall
    BY <1>2 DEF Idle
  <2> QED
    BY <1>2, <1>3, <2>1, CollectorAssumption DEF CollectorInv, CollectorTypeOK, NoFileForgotten, InHand
<1>7. HandTells'
  BY <1>2, <1>3, <1>4 DEF CollectorInv, NoFileForgotten, HandTells
<1>8. TakenMeansRead'
  BY <1>1, <1>3 DEF CollectorInv, TakenMeansRead
<1> QED
  BY <1>5, <1>6, <1>7, <1>8 DEF CollectorInv

-----------------------------------------------------------------------------
(* Steps of the file in hand.                                              *)

\* What is known of the file in hand.
LEMMA FileInHand ==
  ASSUME CollectorInv, current # NoCall
  PROVE  /\ current \in Held /\ current.file \in Files /\ current.payload \in Payload
         /\ current.stage \in {"taken", "imported", "rejected", "isolated"}
         /\ read[current.file] = current.payload
  BY DEF CollectorInv, CollectorTypeOK, Held, HandTells

\* Advance changes the stage alone.
LEMMA Advancing ==
  ASSUME CollectorInv, current # NoCall, NEW stage \in {"imported", "rejected", "isolated"}, Advance(stage)
  PROVE  /\ current' \in Held /\ current' # NoCall
         /\ current'.file = current.file /\ current'.payload = current.payload
         /\ current'.stage = stage
  BY FileInHand, CollectorRowAssumption DEF Advance, Held

LEMMA ImportFileStep ==
  ASSUME CollectorInv, ImportFile
  PROVE  CollectorInv'
<1>1. /\ current # NoCall /\ current.stage = "taken" /\ Advance("imported")
      /\ report' = [report EXCEPT ![current.payload] = IF @ = "none" THEN "imported" ELSE @]
      /\ UNCHANGED <<place, complete, observed, kept, read, stranded>>
  BY DEF ImportFile, InHand
<1>2. /\ report' \in [Payload -> {"none", "imported", "failed"}]
      /\ report'[current.payload] # "none"
      /\ \A x \in Payload : /\ report[x] # "none" => report'[x] = report[x]
                            /\ report'[x] = "failed" => report[x] = "failed"
  BY <1>1, FileInHand DEF CollectorInv, CollectorTypeOK
<1>3. CollectorTypeOK'
  BY <1>1, <1>2, Advancing DEF CollectorInv, CollectorTypeOK
<1>4. NoFileForgotten'
  <2>1. ASSUME NEW f \in Files, report[read[f]] # "none", read[f] \in Payload
        PROVE  report'[read[f]] # "none"
    BY <1>2, <2>1
  <2>2. ASSUME NEW f \in Files, place[f] = "gone" \/ place[f] = "failed"
        PROVE  /\ place[f] = "gone" => report'[read'[f]] # "none"
               /\ place[f] = "failed" => report'[read'[f]] # "none" \/ f \in stranded'
    <3>1. read[f] \in Payload
      BY <2>2 DEF CollectorInv, TakenMeansRead
    <3> QED
      BY <1>1, <2>2, <2>1, <3>1 DEF CollectorInv, NoFileForgotten, InHand
  <2>3. \A x \in Payload : report'[x] = "failed" =>
           kept'[x] # NoFile /\ place'[kept'[x]] = "failed" /\ read'[kept'[x]] = x
    BY <1>1, <1>2 DEF CollectorInv, NoFileForgotten
  <2> QED
    BY <1>1, <2>2, <2>3 DEF NoFileForgotten
<1>5. HandTells'
  BY <1>1, <1>2, Advancing, FileInHand DEF CollectorInv, HandTells
<1>6. TakenMeansRead'
  BY <1>1 DEF CollectorInv, TakenMeansRead
<1> QED
  BY <1>3, <1>4, <1>5, <1>6 DEF CollectorInv

\* The file in hand is to be isolated.
LEMMA RejectSteps ==
  ASSUME CollectorInv, RejectFile \/ FailToDelete
  PROVE  CollectorInv'
<1>1. /\ current # NoCall /\ current.stage \in {"taken", "imported"} /\ Advance("rejected")
      /\ UNCHANGED <<place, complete, observed, report, kept, read, stranded>>
  BY DEF RejectFile, FailToDelete, InHand
<1>2. CollectorTypeOK'
  BY <1>1, Advancing DEF CollectorInv, CollectorTypeOK
<1>3. NoFileForgotten'
  BY <1>1 DEF CollectorInv, NoFileForgotten, InHand
<1>4. HandTells'
  BY <1>1, Advancing DEF CollectorInv, HandTells
<1>5. TakenMeansRead'
  BY <1>1 DEF CollectorInv, TakenMeansRead
<1> QED
  BY <1>2, <1>3, <1>4, <1>5 DEF CollectorInv

LEMMA DeleteFileStep ==
  ASSUME CollectorInv, DeleteFile
  PROVE  CollectorInv'
<1>1. /\ current # NoCall /\ current.stage = "imported" /\ current' = NoCall
      /\ place' = [place EXCEPT ![current.file] = "gone"]
      /\ UNCHANGED <<complete, observed, report, kept, read, stranded>>
  BY DEF DeleteFile, InHand
<1>2. /\ place'[current.file] = "gone"
      /\ \A g \in Files \ {current.file} : place'[g] = place[g]
  BY <1>1, FileInHand DEF CollectorInv, CollectorTypeOK
<1>3. CollectorTypeOK'
  BY <1>1, FileInHand DEF CollectorInv, CollectorTypeOK
<1>4. NoFileForgotten'
  BY <1>1, <1>2, FileInHand, CollectorAssumption
     DEF CollectorInv, CollectorTypeOK, NoFileForgotten, HandTells, InHand
<1>5. HandTells'
  BY <1>1 DEF HandTells
<1>6. TakenMeansRead'
  BY <1>1, <1>2, FileInHand DEF CollectorInv, TakenMeansRead
<1> QED
  BY <1>3, <1>4, <1>5, <1>6 DEF CollectorInv

LEMMA IsolateStep ==
  ASSUME CollectorInv, Isolate
  PROVE  CollectorInv'
<1>1. /\ current # NoCall /\ current.stage = "rejected" /\ Advance("isolated")
      /\ place' = [place EXCEPT ![current.file] = "failed"]
      /\ UNCHANGED <<complete, observed, report, kept, read, stranded>>
  BY DEF Isolate, InHand
<1>2. /\ place[current.file] = "processing" /\ place'[current.file] = "failed"
      /\ \A g \in Files \ {current.file} : place'[g] = place[g]
  BY <1>1, FileInHand DEF CollectorInv, CollectorTypeOK, HandTells
<1>3. CollectorTypeOK'
  BY <1>1, FileInHand, Advancing DEF CollectorInv, CollectorTypeOK
<1>4. NoFileForgotten'
  BY <1>1, <1>2, FileInHand, Advancing, CollectorAssumption
     DEF CollectorInv, CollectorTypeOK, NoFileForgotten, InHand
<1>5. HandTells'
  BY <1>1, <1>2, Advancing, FileInHand DEF CollectorInv, NoFileForgotten, HandTells
<1>6. TakenMeansRead'
  BY <1>1, <1>2, FileInHand DEF CollectorInv, TakenMeansRead
<1> QED
  BY <1>3, <1>4, <1>5, <1>6 DEF CollectorInv

LEMMA FailToIsolateStep ==
  ASSUME CollectorInv, FailToIsolate
  PROVE  CollectorInv'
<1>1. /\ current # NoCall /\ current.stage = "rejected" /\ current' = NoCall
      /\ UNCHANGED <<place, complete, observed, report, kept, read, stranded>>
  BY DEF FailToIsolate, InHand
<1>2. CollectorTypeOK'
  BY <1>1 DEF CollectorInv, CollectorTypeOK
<1>3. NoFileForgotten'
  BY <1>1 DEF CollectorInv, NoFileForgotten, InHand
<1>4. HandTells'
  BY <1>1 DEF HandTells
<1>5. TakenMeansRead'
  BY <1>1 DEF CollectorInv, TakenMeansRead
<1> QED
  BY <1>2, <1>3, <1>4, <1>5 DEF CollectorInv

LEMMA RecordFailureStep ==
  ASSUME CollectorInv, RecordFailure
  PROVE  CollectorInv'
<1> DEFINE x == current.payload
           f == current.file
<1>1. /\ current # NoCall /\ current.stage = "isolated" /\ current' = NoCall
      /\ \/ report[x] # "none" /\ UNCHANGED <<report, kept>>
         \/ /\ report[x] = "none"
            /\ report' = [report EXCEPT ![x] = "failed"]
            /\ kept' = [kept EXCEPT ![x] = f]
      /\ UNCHANGED <<place, complete, observed, read, stranded>>
  BY DEF RecordFailure, InHand
<1>2. /\ f \in Files /\ x \in Payload /\ read[f] = x /\ place[f] = "failed" /\ f # NoFile
  BY <1>1, FileInHand, CollectorAssumption DEF CollectorInv, HandTells
<1>3. /\ report'[x] # "none"
      /\ \A y \in Payload \ {x} : report'[y] = report[y] /\ kept'[y] = kept[y]
      /\ \/ report'[x] = report[x] /\ kept'[x] = kept[x]
         \/ report'[x] = "failed" /\ kept'[x] = f
  BY <1>1, <1>2 DEF CollectorInv, CollectorTypeOK
<1>4. CollectorTypeOK'
  BY <1>1, <1>2 DEF CollectorInv, CollectorTypeOK
<1> HIDE DEF x, f
<1>5. NoFileForgotten'
  <2>1. ASSUME NEW y \in Payload PROVE report[y] # "none" => report'[y] # "none"
    BY <1>2, <1>3
  <2>2. ASSUME NEW g \in Files
        PROVE  /\ place[g] = "gone" => report'[read[g]] # "none"
               /\ place[g] = "failed" => report'[read[g]] # "none" \/ g \in stranded
    <3>1. place[g] \in {"gone", "failed"} => read[g] \in Payload
      BY DEF CollectorInv, TakenMeansRead
    <3>2. CASE g = f
      BY <1>2, <1>3, <3>2
    <3>3. CASE g # f
      <4>1. /\ place[g] = "gone" => report[read[g]] # "none"
            /\ place[g] = "failed" => report[read[g]] # "none" \/ g \in stranded
        BY <3>3 DEF CollectorInv, NoFileForgotten, InHand, f
      <4> QED
        BY <2>1, <3>1, <4>1
    <3> QED
      BY <3>2, <3>3
  <2>3. ASSUME NEW y \in Payload, report'[y] = "failed"
        PROVE  kept'[y] # NoFile /\ place[kept'[y]] = "failed" /\ read[kept'[y]] = y
    BY <1>2, <1>3, <2>3 DEF CollectorInv, NoFileForgotten
  <2> QED
    BY <1>1, <2>2, <2>3 DEF NoFileForgotten
<1>6. HandTells'
  BY <1>1 DEF HandTells
<1>7. TakenMeansRead'
  BY <1>1 DEF CollectorInv, TakenMeansRead
<1> QED
  BY <1>4, <1>5, <1>6, <1>7 DEF CollectorInv

LEMMA FailToRecordStep ==
  ASSUME CollectorInv, FailToRecord
  PROVE  CollectorInv'
<1>1. /\ current # NoCall /\ current.stage = "isolated" /\ current' = NoCall
      /\ place' = [place EXCEPT ![current.file] = "input"]
      /\ UNCHANGED <<complete, observed, report, kept, read, stranded>>
  BY DEF FailToRecord, InHand
<1>2. /\ place'[current.file] = "input"
      /\ \A g \in Files \ {current.file} : place'[g] = place[g]
  BY <1>1, FileInHand DEF CollectorInv, CollectorTypeOK
<1>3. CollectorTypeOK'
  BY <1>1, FileInHand DEF CollectorInv, CollectorTypeOK
<1>4. NoFileForgotten'
  BY <1>1, <1>2, FileInHand, CollectorAssumption
     DEF CollectorInv, CollectorTypeOK, NoFileForgotten, HandTells, InHand
<1>5. HandTells'
  BY <1>1 DEF HandTells
<1>6. TakenMeansRead'
  BY <1>1, <1>2 DEF CollectorInv, TakenMeansRead
<1> QED
  BY <1>3, <1>4, <1>5, <1>6 DEF CollectorInv

LEMMA FailToReturnStep ==
  ASSUME CollectorInv, FailToReturn
  PROVE  CollectorInv'
<1>1. /\ current # NoCall /\ current.stage = "isolated" /\ current' = NoCall
      /\ stranded' = stranded \cup {current.file}
      /\ UNCHANGED <<place, complete, observed, report, kept, read>>
  BY DEF FailToReturn, InHand
<1>2. CollectorTypeOK'
  BY <1>1, FileInHand DEF CollectorInv, CollectorTypeOK
<1>3. NoFileForgotten'
  BY <1>1 DEF CollectorInv, NoFileForgotten, InHand
<1>4. HandTells'
  BY <1>1 DEF HandTells
<1>5. TakenMeansRead'
  BY <1>1 DEF CollectorInv, TakenMeansRead
<1> QED
  BY <1>2, <1>3, <1>4, <1>5 DEF CollectorInv

\* A move that fails half-way puts f elsewhere and its copy where f was.
LEMMA Halves ==
  ASSUME CollectorInv, NEW f \in Files, NEW g \in Files, NEW to \in {"input", "processing", "failed"},
         place[f] # "none", HalfMoved(f, g, to)
  PROVE  /\ f # g /\ place[g] = "none" /\ place'[f] = to /\ place'[g] = place[f]
         /\ \A h \in Files \ {f, g} : place'[h] = place[h]
         /\ place' \in [Files -> {"none", "input", "processing", "failed", "gone"}]
         /\ complete' \subseteq Files /\ UNCHANGED <<report, kept>>
         /\ \A x \in Payload : report[x] = "failed" => kept[x] # g
<1>1. /\ place \in [Files -> {"none", "input", "processing", "failed", "gone"}] /\ complete \subseteq Files
  BY DEF CollectorInv, CollectorTypeOK
<1>2. /\ place[g] = "none" /\ place' = [place EXCEPT ![f] = to, ![g] = place[f]]
      /\ UNCHANGED <<report, kept>>
  BY DEF HalfMoved
<1>3. f # g /\ place[f] \in {"none", "input", "processing", "failed", "gone"}
  BY <1>1, <1>2
<1>4. complete' \subseteq Files
  BY <1>1 DEF HalfMoved
<1>5. \A x \in Payload : report[x] = "failed" => kept[x] # g
  BY <1>2 DEF CollectorInv, NoFileForgotten
<1> QED
  BY <1>1, <1>2, <1>3, <1>4, <1>5

LEMMA HalfRecoverStep ==
  ASSUME CollectorInv, NEW f \in Files, NEW g \in Files, HalfRecover(f, g)
  PROVE  CollectorInv'
<1>1. /\ current = NoCall /\ place[f] = "processing" /\ HalfMoved(f, g, "input")
      /\ read' = [read EXCEPT ![g] = read[f]] /\ UNCHANGED <<observed, current, stranded>>
  BY DEF HalfRecover, Idle
<1>2. read[f] \in Payload
  BY <1>1 DEF CollectorInv, TakenMeansRead
<1>3. /\ read' \in [Files -> Payload \cup {NoRow}] /\ read'[g] = read[f]
      /\ \A h \in Files \ {g} : read'[h] = read[h]
  BY <1>1, <1>2 DEF CollectorInv, CollectorTypeOK
<1>4. CollectorTypeOK'
  BY <1>1, <1>3, Halves DEF CollectorInv, CollectorTypeOK
<1>5. NoFileForgotten'
  BY <1>1, <1>3, Halves, CollectorAssumption DEF CollectorInv, CollectorTypeOK, NoFileForgotten, InHand
<1>6. HandTells'
  BY <1>1 DEF HandTells
<1>7. TakenMeansRead'
  BY <1>1, <1>2, <1>3, Halves DEF CollectorInv, TakenMeansRead
<1> QED
  BY <1>4, <1>5, <1>6, <1>7 DEF CollectorInv

LEMMA HalfTakeStep ==
  ASSUME CollectorInv, NEW f \in Files, NEW g \in Files, HalfTake(f, g)
  PROVE  CollectorInv'
<1> DEFINE x == PayloadOf(f)
           taken == [file |-> f, payload |-> x, stage |-> "rejected"]
<1>1. x \in Payload
  BY PayloadOfFile DEF CollectorInv
<1>2. /\ current = NoCall /\ place[f] = "input" /\ HalfMoved(f, g, "processing")
      /\ observed' = [observed EXCEPT ![f] = "no"] /\ current' \in {NoCall, taken}
      /\ read' = [read EXCEPT ![f] = x] /\ UNCHANGED stranded
  BY DEF HalfTake, Idle
<1>3. taken \in Held /\ taken.file = f /\ taken.payload = x /\ taken.stage = "rejected"
  BY <1>1 DEF Held
<1> HIDE DEF x, taken
<1>4. /\ read' \in [Files -> Payload \cup {NoRow}] /\ read'[f] = x
      /\ \A h \in Files \ {f} : read'[h] = read[h]
  BY <1>1, <1>2 DEF CollectorInv, CollectorTypeOK
<1>5. CollectorTypeOK'
  BY <1>2, <1>3, <1>4, Halves DEF CollectorInv, CollectorTypeOK
<1>6. NoFileForgotten'
  BY <1>2, <1>3, <1>4, Halves, CollectorAssumption
     DEF CollectorInv, CollectorTypeOK, NoFileForgotten, InHand
<1>7. HandTells'
  BY <1>2, <1>3, <1>4, Halves DEF CollectorInv, NoFileForgotten, HandTells
<1>8. TakenMeansRead'
  BY <1>1, <1>2, <1>4, Halves DEF CollectorInv, TakenMeansRead
<1> QED
  BY <1>5, <1>6, <1>7, <1>8 DEF CollectorInv

LEMMA HalfIsolateStep ==
  ASSUME CollectorInv, NEW g \in Files, HalfIsolate(g)
  PROVE  CollectorInv'
<1> DEFINE f == current.file
<1>1. /\ current # NoCall /\ current.stage = "rejected" /\ HalfMoved(f, g, "failed")
      /\ read' = [read EXCEPT ![g] = read[f]] /\ stranded' = stranded \cup {f}
      /\ current' = NoCall /\ UNCHANGED observed
  BY DEF HalfIsolate, InHand
<1>2. f \in Files /\ place[f] = "processing" /\ read[f] \in Payload
  BY <1>1, FileInHand DEF CollectorInv, HandTells
<1> HIDE DEF f
<1>3. /\ read' \in [Files -> Payload \cup {NoRow}] /\ read'[g] = read[f]
      /\ \A h \in Files \ {g} : read'[h] = read[h]
  BY <1>1, <1>2 DEF CollectorInv, CollectorTypeOK
<1>4. CollectorTypeOK'
  BY <1>1, <1>2, <1>3, Halves DEF CollectorInv, CollectorTypeOK
<1>5. NoFileForgotten'
  BY <1>1, <1>2, <1>3, Halves, CollectorAssumption
     DEF CollectorInv, CollectorTypeOK, NoFileForgotten, InHand
<1>6. HandTells'
  BY <1>1 DEF HandTells
<1>7. TakenMeansRead'
  BY <1>1, <1>2, <1>3, Halves DEF CollectorInv, TakenMeansRead
<1> QED
  BY <1>4, <1>5, <1>6, <1>7 DEF CollectorInv

LEMMA HalfReturnStep ==
  ASSUME CollectorInv, NEW g \in Files, HalfReturn(g)
  PROVE  CollectorInv'
<1> DEFINE f == current.file
<1>1. /\ current # NoCall /\ current.stage = "isolated" /\ HalfMoved(f, g, "input")
      /\ read' = [read EXCEPT ![g] = read[f]] /\ stranded' = stranded \cup {g}
      /\ current' = NoCall /\ UNCHANGED observed
  BY DEF HalfReturn, InHand
<1>2. /\ f \in Files /\ place[f] = "failed" /\ read[f] \in Payload
      /\ \A x \in Payload : report[x] = "failed" => kept[x] # f
  BY <1>1, FileInHand DEF CollectorInv, HandTells
<1>3. \A h \in Files : place[h] = "failed" /\ h # f => report[read[h]] # "none" \/ h \in stranded
  BY DEF CollectorInv, NoFileForgotten, f
<1> HIDE DEF f
<1>4. /\ read' \in [Files -> Payload \cup {NoRow}] /\ read'[g] = read[f]
      /\ \A h \in Files \ {g} : read'[h] = read[h]
  BY <1>1, <1>2 DEF CollectorInv, CollectorTypeOK
<1>5. CollectorTypeOK'
  BY <1>1, <1>2, <1>4, Halves DEF CollectorInv, CollectorTypeOK
<1>6. NoFileForgotten'
  BY <1>1, <1>2, <1>3, <1>4, Halves, CollectorAssumption DEF CollectorInv, CollectorTypeOK, NoFileForgotten
<1>7. HandTells'
  BY <1>1 DEF HandTells
<1>8. TakenMeansRead'
  BY <1>1, <1>2, <1>4, Halves DEF CollectorInv, TakenMeansRead
<1> QED
  BY <1>5, <1>6, <1>7, <1>8 DEF CollectorInv

LEMMA DieStep ==
  ASSUME CollectorInv, Die
  PROVE  CollectorInv'
<1>1. CollectorTypeOK'
  BY FileInHand DEF Die, CollectorInv, CollectorTypeOK, InHand
<1>2. NoFileForgotten'
  BY DEF Die, CollectorInv, NoFileForgotten, InHand
<1>3. HandTells'
  BY DEF Die, HandTells
<1>4. TakenMeansRead'
  BY DEF Die, CollectorInv, TakenMeansRead
<1> QED
  BY <1>1, <1>2, <1>3, <1>4 DEF CollectorInv

LEMMA CollectorStepKeepsInv ==
  ASSUME CollectorInv, CollectorNext
  PROVE  CollectorInv'
<1>1. ASSUME NEW f \in Files,
             \/ WriteFile(f) \/ CompleteFile(f)
             \/ Recover(f) \/ Observe(f) \/ Take(f) \/ TakeOversized(f)
      PROVE  CollectorInv'
  BY <1>1, WriteFileStep, CompleteFileStep, RecoverStep, ObserveStep, TakeSteps
<1>2. ASSUME NEW f \in Files, NEW g \in Files, HalfRecover(f, g) \/ HalfTake(f, g)
      PROVE  CollectorInv'
  BY <1>2, HalfRecoverStep, HalfTakeStep
<1>3. ASSUME NEW f \in Files, HalfIsolate(f) \/ HalfReturn(f) PROVE CollectorInv'
  BY <1>3, HalfIsolateStep, HalfReturnStep
<1> QED
  BY <1>1, <1>2, <1>3, FailToReturnStep, ImportFileStep, RejectSteps, DeleteFileStep, IsolateStep, FailToIsolateStep,
     RecordFailureStep, FailToRecordStep, DieStep DEF CollectorNext

LEMMA CollectorStutterKeepsInv ==
  ASSUME CollectorInv, UNCHANGED collectorVars
  PROVE  CollectorInv'
<1>1. CollectorTypeOK'
  BY DEF CollectorInv, CollectorTypeOK, collectorVars
<1> QED
  BY <1>1, WatchStep DEF collectorVars

-----------------------------------------------------------------------------
(* The theorems.                                                           *)

\* CollectorInv is inductive.
THEOREM CollectorInvariant == CollectorSpec => []CollectorInv
<1>1. CollectorInit => CollectorInv
  BY CollectorStarts
<1>2. CollectorInv /\ [CollectorNext]_collectorVars => CollectorInv'
  BY CollectorStepKeepsInv, CollectorStutterKeepsInv
<1> QED
  BY <1>1, <1>2, PTL DEF CollectorSpec

\* The directories, what the collector has observed and the reports have values
\* of their types, for any files and contents.
THEOREM CollectorTypes == CollectorSpec => []CollectorTypeOK
<1>1. CollectorInv => CollectorTypeOK
  BY DEF CollectorInv
<1> QED
  BY <1>1, CollectorInvariant, PTL

\* For any files, however many share a content and wherever the collector
\* fails or dies: none is deleted without a report of what was read of it, or
\* left among the failed ones without one unless the collector died before it
\* wrote it or could neither write it nor move the file back; and every failed
\* report names a file that is still there to be imported again.
THEOREM FilesAreKept == CollectorSpec => []NoFileForgotten
<1>1. CollectorInv => NoFileForgotten
  BY DEF CollectorInv
<1> QED
  BY <1>1, CollectorInvariant, PTL

-----------------------------------------------------------------------------
(***************************************************************************)
(* BRIDGE                                                                  *)
(***************************************************************************)

CarriersKnow ==
    /\ \A r \in Numbered : r \in reported
    /\ \A r \in Reports : outbox[r] # NoRow => skipped[r] = 0
    /\ \A c \in Carriers : carrying[c] # NoCall =>
          /\ Is(c, "imported") => /\ carrying[c].report \in reported
                                  /\ carrying[c].report \notin Numbered
          /\ ~ Is(c, "imported") => outbox[carrying[c].report] # NoRow
          /\ Is(c, "taken") => carrying[c].report \in received
    /\ \A c, d \in Carriers : Is(c, "imported") /\ Is(d, "imported")
          /\ carrying[c].report = carrying[d].report => c = d

\* The two parts of BridgeLosesNothing.
Stored == {r \in Reports : outbox[r] # NoRow}
Counted ==
    /\ {NumberOf(r) : r \in Numbered} = 1 .. sequence
    /\ \A r, s \in Numbered : NumberOf(r) = NumberOf(s) => r = s
    /\ \A r \in Numbered \ Stored : r \in lost
Carried ==
    /\ \A r \in Stored : outbox[r].dispatched => r \in received
    /\ \A r \in reported \ (Stored \cup lost) :
          \E c \in Carriers : Is(c, "imported") /\ carrying[c].report = r

BridgeInv == BridgeTypeOK /\ Counted /\ Carried /\ CarriersKnow

LEMMA Parts == Counted /\ Carried <=> BridgeLosesNothing
  BY DEF Counted, Carried, Stored, BridgeLosesNothing

LEMMA BridgeStarts == BridgeInit => BridgeInv
<1> SUFFICES ASSUME BridgeInit PROVE BridgeInv
  OBVIOUS
<1>1. BridgeTypeOK
  BY DEF BridgeInit, BridgeTypeOK
<1>2. Stored = {} /\ Numbered = {}
  BY DEF BridgeInit, Stored, Numbered
<1>3. Counted
  <2>1. 1 .. 0 = {}
    OBVIOUS
  <2> QED
    BY <1>2, <2>1 DEF BridgeInit, Counted
<1>4. Carried
  BY <1>2 DEF BridgeInit, Carried
<1>5. CarriersKnow
  BY <1>2 DEF BridgeInit, CarriersKnow, Is
<1> QED
  BY <1>1, <1>3, <1>4, <1>5 DEF BridgeInv

-----------------------------------------------------------------------------
(* What a carrier has in hand.                                             *)

LEMMA CarriedRow ==
  ASSUME BridgeInv, NEW c \in Carriers, carrying[c] # NoCall
  PROVE  carrying[c] \in Carrying /\ carrying[c].report \in Reports
  BY DEF BridgeInv, BridgeTypeOK, Carrying

LEMMA Moving ==
  ASSUME BridgeInv, NEW c \in Carriers, carrying[c] # NoCall,
         NEW stage \in {"imported", "chosen", "claimed", "taken", "refused"}, Move(c, stage)
  PROVE  /\ carrying' \in [Carriers -> Carrying \cup {NoCall}]
         /\ carrying'[c] # NoCall /\ carrying'[c].stage = stage
         /\ carrying'[c].report = carrying[c].report
         /\ \A d \in Carriers \ {c} : carrying'[d] = carrying[d]
<1>1. carrying'[c] = [carrying[c] EXCEPT !.stage = stage]
  BY DEF Move, BridgeInv, BridgeTypeOK
<1>2. carrying'[c] \in Carrying /\ carrying'[c].stage = stage
      /\ carrying'[c].report = carrying[c].report
  BY <1>1, CarriedRow DEF Carrying
<1> QED
  BY <1>2, BridgeRowAssumption DEF Move, BridgeInv, BridgeTypeOK

LEMMA Dropping ==
  ASSUME BridgeInv, NEW c \in Carriers, Drop(c)
  PROVE  /\ carrying' \in [Carriers -> Carrying \cup {NoCall}]
         /\ carrying'[c] = NoCall
         /\ \A d \in Carriers \ {c} : carrying'[d] = carrying[d]
  BY DEF Drop, BridgeInv, BridgeTypeOK

\* A step that leaves the numbers alone.
LEMMA NumbersSame ==
  ASSUME Counted, UNCHANGED <<sequence, skipped>>, lost \subseteq lost',
         \A r \in Reports : /\ outbox'[r] # NoRow <=> outbox[r] # NoRow
                            /\ outbox[r] # NoRow => outbox'[r].sequence = outbox[r].sequence
  PROVE  Counted'
<1>1. Numbered' = Numbered /\ Stored' = Stored
  BY DEF Numbered, Stored
<1>2. \A r \in Numbered : NumberOf(r)' = NumberOf(r)
  BY DEF NumberOf, Numbered
<1>3. {NumberOf(r)' : r \in Numbered} = {NumberOf(r) : r \in Numbered}
  BY <1>2
<1> QED
  BY <1>1, <1>2, <1>3 DEF Counted

\* A step that gives report r the next number.
LEMMA NumberGiven ==
  ASSUME BridgeTypeOK, Counted, NEW r \in Reports, r \notin Numbered,
         sequence' = sequence + 1, lost \subseteq lost',
         \A s \in Reports \ {r} : outbox'[s] = outbox[s] /\ skipped'[s] = skipped[s],
         r \in Numbered', NumberOf(r)' = sequence + 1, r \in Stored' \/ r \in lost'
  PROVE  Counted'
<1>1. Numbered' = Numbered \cup {r}
  BY DEF Numbered
<1>2. \A s \in Numbered : NumberOf(s)' = NumberOf(s) /\ NumberOf(s) \in 1 .. sequence
  BY DEF NumberOf, Numbered, Counted
<1>3. sequence \in Nat /\ sequence + 1 \notin 1 .. sequence
  BY DEF BridgeTypeOK
<1>4. {NumberOf(s)' : s \in Numbered \cup {r}} = 1 .. sequence + 1
  <2>1. {NumberOf(s)' : s \in Numbered \cup {r}} = {NumberOf(s) : s \in Numbered} \cup {sequence + 1}
    BY <1>2
  <2>2. (1 .. sequence) \cup {sequence + 1} = 1 .. sequence + 1
    BY <1>3
  <2> QED
    BY <2>1, <2>2 DEF Counted
<1>5. \A s, t \in Numbered \cup {r} : NumberOf(s)' = NumberOf(t)' => s = t
  BY <1>2, <1>3 DEF Counted
<1>6. \A s \in (Numbered \cup {r}) \ Stored' : s \in lost'
  BY DEF Counted, Stored, Numbered
<1> QED
  BY <1>1, <1>4, <1>5, <1>6 DEF Counted

\* A step of a carrier that has a row in hand, or takes one, and leaves the
\* numbers of the rows and the imports alone.
LEMMA CarryStep ==
  ASSUME BridgeInv, BridgeTypeOK', NEW c \in Carriers, ~ Is(c, "imported"),
         UNCHANGED <<reported, sequence, lost, skipped>>, received \subseteq received',
         \A d \in Carriers \ {c} : carrying'[d] = carrying[d],
         carrying'[c] # NoCall =>
            /\ carrying'[c].stage # "imported"
            /\ outbox[carrying'[c].report] # NoRow
            /\ carrying'[c].stage = "taken" => carrying'[c].report \in received',
         \A r \in Reports :
            /\ outbox'[r] # NoRow <=> outbox[r] # NoRow
            /\ outbox[r] # NoRow =>
                  /\ outbox'[r].sequence = outbox[r].sequence
                  /\ outbox'[r].dispatched => r \in received'
  PROVE  BridgeInv'
<1>1. Stored' = Stored
  BY DEF Stored
<1>2. Counted'
  BY NumbersSame DEF BridgeInv
<1>3. Numbered' = Numbered
  BY DEF Numbered
<1>4. \A d \in Carriers : Is(d, "imported")' <=> Is(d, "imported")
  BY DEF Is
<1>5. \A d \in Carriers : Is(d, "imported") => carrying'[d] = carrying[d]
  OBVIOUS
<1>6. Carried'
  <2>1. \A r \in Stored : outbox'[r].dispatched => r \in received'
    BY DEF Stored
  <2>2. ASSUME NEW r \in reported \ (Stored \cup lost)
        PROVE  \E d \in Carriers : Is(d, "imported")' /\ carrying'[d].report = r
    BY <1>4, <1>5 DEF BridgeInv, Carried
  <2> QED
    BY <1>1, <2>1, <2>2 DEF Carried
<1>7. CarriersKnow'
  <2>1. /\ \A r \in Numbered' : r \in reported'
        /\ \A r \in Reports : outbox'[r] # NoRow => skipped'[r] = 0
    BY <1>3 DEF BridgeInv, CarriersKnow
  <2>2. ASSUME NEW d \in Carriers, carrying'[d] # NoCall
        PROVE  /\ Is(d, "imported")' => /\ carrying'[d].report \in reported'
                                        /\ carrying'[d].report \notin Numbered'
               /\ ~ Is(d, "imported")' => outbox'[carrying'[d].report] # NoRow
               /\ Is(d, "taken")' => carrying'[d].report \in received'
    <3>1. carrying'[d].report \in Reports
      BY <2>2 DEF BridgeTypeOK, Carrying
    <3>2. CASE d = c
      BY <2>2, <3>1, <3>2 DEF Is
    <3>3. CASE d # c
      BY <1>3, <2>2, <3>1, <3>3 DEF Is, BridgeInv, CarriersKnow
    <3> QED
      BY <3>2, <3>3
  <2>3. ASSUME NEW d \in Carriers, NEW b \in Carriers, Is(d, "imported")', Is(b, "imported")',
               carrying'[d].report = carrying'[b].report
        PROVE  d = b
    BY <1>4, <1>5, <2>3 DEF BridgeInv, CarriersKnow
  <2> QED
    BY <2>1, <2>2, <2>3 DEF CarriersKnow
<1> QED
  BY <1>2, <1>6, <1>7 DEF BridgeInv

-----------------------------------------------------------------------------
(* The steps.                                                              *)

LEMMA ImportReportStep ==
  ASSUME BridgeInv, NEW c \in Carriers, NEW r \in Reports, ImportReport(c, r)
  PROVE  BridgeInv'
<1> DEFINE hand == [report |-> r, stage |-> "imported"]
<1>1. hand \in Carrying /\ hand # NoCall /\ hand.report = r /\ hand.stage = "imported"
  BY BridgeRowAssumption DEF Carrying
<1>2. /\ carrying[c] = NoCall /\ r \notin reported
      /\ reported' = reported \cup {r}
      /\ carrying' = [carrying EXCEPT ![c] = hand]
      /\ UNCHANGED <<sequence, outbox, received, lost, skipped>>
  BY DEF ImportReport
<1> HIDE DEF hand
<1>3. carrying'[c] = hand /\ \A d \in Carriers \ {c} : carrying'[d] = carrying[d]
  BY <1>2 DEF BridgeInv, BridgeTypeOK
<1>4. BridgeTypeOK'
  BY <1>1, <1>2 DEF BridgeInv, BridgeTypeOK
<1>5. r \notin Numbered /\ Numbered' = Numbered
  BY <1>2 DEF BridgeInv, CarriersKnow, Numbered
<1>6. Counted'
  BY <1>2, NumbersSame DEF BridgeInv
<1>7. \A d \in Carriers \ {c} : Is(d, "imported")' <=> Is(d, "imported")
  BY <1>3 DEF Is
<1>8. Is(c, "imported")' /\ ~ Is(c, "imported")
  BY <1>1, <1>2, <1>3 DEF Is
<1>9. Carried'
  BY <1>1, <1>2, <1>3, <1>7, <1>8 DEF BridgeInv, Carried, Stored
<1>10. CarriersKnow'
  <2>1. /\ \A s \in Numbered' : s \in reported'
        /\ \A s \in Reports : outbox'[s] # NoRow => skipped'[s] = 0
    BY <1>2, <1>5 DEF BridgeInv, CarriersKnow
  <2>2. ASSUME NEW d \in Carriers, carrying'[d] # NoCall
        PROVE  /\ Is(d, "imported")' => /\ carrying'[d].report \in reported'
                                        /\ carrying'[d].report \notin Numbered'
               /\ ~ Is(d, "imported")' => outbox'[carrying'[d].report] # NoRow
               /\ Is(d, "taken")' => carrying'[d].report \in received'
    <3>1. CASE d = c
      BY <1>1, <1>2, <1>3, <1>5, <1>8, <3>1 DEF Is
    <3>2. CASE d # c
      BY <1>2, <1>3, <1>5, <2>2, <3>2 DEF Is, BridgeInv, CarriersKnow
    <3> QED
      BY <3>1, <3>2
  <2>3. ASSUME NEW d \in Carriers, NEW b \in Carriers, Is(d, "imported")', Is(b, "imported")',
               carrying'[d].report = carrying'[b].report
        PROVE  d = b
    <3>1. \A a \in Carriers \ {c} : Is(a, "imported") => carrying[a].report # r
      BY <1>2 DEF Is, BridgeInv, CarriersKnow
    <3> QED
      BY <1>1, <1>3, <1>7, <2>3, <3>1 DEF BridgeInv, CarriersKnow
  <2> QED
    BY <2>1, <2>2, <2>3 DEF CarriersKnow
<1> QED
  BY <1>4, <1>6, <1>9, <1>10 DEF BridgeInv

LEMMA EnqueueStep ==
  ASSUME BridgeInv, NEW c \in Carriers, Enqueue(c)
  PROVE  BridgeInv'
<1> DEFINE row == [sequence |-> sequence + 1, dispatched |-> FALSE, owner |-> NoCarrier,
                   leased |-> FALSE]
<1>1. PICK r \in Reports :
        /\ r = carrying[c].report
        /\ Is(c, "imported") /\ Move(c, "chosen")
        /\ sequence' = sequence + 1
        /\ outbox' = [outbox EXCEPT ![r] = row]
        /\ UNCHANGED <<reported, received, lost, skipped>>
  BY CarriedRow DEF Enqueue, Is
<1>2. /\ row \in Outbox /\ row # NoRow
      /\ row.sequence = sequence + 1 /\ ~ row.dispatched
  <2>1. sequence + 1 \in Nat
    BY DEF BridgeInv, BridgeTypeOK
  <2>2. row \in Outbox
    BY <2>1 DEF Outbox
  <2> QED
    BY <2>2, BridgeRowAssumption
<1> HIDE DEF row
<1>3. /\ carrying' \in [Carriers -> Carrying \cup {NoCall}]
      /\ carrying[c] # NoCall /\ carrying'[c] # NoCall /\ carrying'[c].stage = "chosen"
      /\ carrying'[c].report = r
      /\ \A d \in Carriers \ {c} : carrying'[d] = carrying[d]
  BY <1>1, Moving DEF Is
<1>4. /\ r \notin Numbered /\ outbox[r] = NoRow /\ skipped[r] = 0
      /\ outbox'[r] = row /\ r \in reported
      /\ \A s \in Reports \ {r} : outbox'[s] = outbox[s]
  BY <1>1, <1>3 DEF BridgeInv, BridgeTypeOK, CarriersKnow, Numbered
<1>5. BridgeTypeOK'
  BY <1>1, <1>2, <1>3 DEF BridgeInv, BridgeTypeOK
<1>6. Stored' = Stored \cup {r} /\ r \notin Stored
  BY <1>2, <1>4 DEF Stored
<1>7. Counted' /\ Numbered' = Numbered \cup {r}
  <2>1. Numbered' = Numbered \cup {r} /\ NumberOf(r)' = sequence + 1
    BY <1>1, <1>2, <1>4 DEF Numbered, NumberOf
  <2>2. r \in Numbered' /\ \A s \in Reports \ {r} : outbox'[s] = outbox[s] /\ skipped'[s] = skipped[s]
    BY <1>1, <1>4, <2>1
  <2>3. Counted'
    BY <1>1, <1>4, <1>6, <2>1, <2>2, NumberGiven DEF BridgeInv
  <2> QED
    BY <2>1, <2>3
<1>8. Carried'
  <2>1. \A s \in Stored' : outbox'[s].dispatched => s \in received'
    BY <1>1, <1>2, <1>4, <1>6 DEF Stored, BridgeInv, Carried
  <2>2. ASSUME NEW s \in reported' \ (Stored' \cup lost')
        PROVE  \E d \in Carriers : Is(d, "imported")' /\ carrying'[d].report = s
    <3>1. PICK d \in Carriers : Is(d, "imported") /\ carrying[d].report = s
      BY <1>1, <1>6 DEF BridgeInv, Carried
    <3>2. d # c
      BY <1>1, <1>6, <3>1
    <3> QED
      BY <1>3, <3>1, <3>2 DEF Is
  <2> QED
    BY <2>1, <2>2 DEF Carried
<1>9. CarriersKnow'
  <2>1. /\ \A s \in Numbered' : s \in reported'
        /\ \A s \in Reports : outbox'[s] # NoRow => skipped'[s] = 0
    BY <1>1, <1>4, <1>7 DEF BridgeInv, CarriersKnow
  <2>2. ASSUME NEW d \in Carriers, carrying'[d] # NoCall
        PROVE  /\ Is(d, "imported")' => /\ carrying'[d].report \in reported'
                                        /\ carrying'[d].report \notin Numbered'
               /\ ~ Is(d, "imported")' => outbox'[carrying'[d].report] # NoRow
               /\ Is(d, "taken")' => carrying'[d].report \in received'
    <3>1. CASE d = c
      BY <1>1, <1>2, <1>3, <1>4, <3>1 DEF Is
    <3>2. CASE d # c
      <4>1. carrying'[d] = carrying[d] /\ carrying[d] # NoCall /\ carrying[d].report \in Reports
        BY <1>3, <2>2, <3>2, CarriedRow
      <4>2. Is(d, "imported") => carrying[d].report # r
        BY <1>1, <3>2 DEF BridgeInv, CarriersKnow
      <4> QED
        BY <1>1, <1>2, <1>4, <1>7, <4>1, <4>2 DEF Is, BridgeInv, CarriersKnow
    <3> QED
      BY <3>1, <3>2
  <2>3. ASSUME NEW d \in Carriers, NEW b \in Carriers, Is(d, "imported")', Is(b, "imported")',
               carrying'[d].report = carrying'[b].report
        PROVE  d = b
    BY <1>3, <2>3 DEF Is, BridgeInv, CarriersKnow
  <2> QED
    BY <2>1, <2>2, <2>3 DEF CarriersKnow
<1> QED
  BY <1>5, <1>7, <1>8, <1>9 DEF BridgeInv

LEMMA StopCarrierStep ==
  ASSUME BridgeInv, NEW c \in Carriers, StopCarrier(c)
  PROVE  BridgeInv'
<1>1. /\ carrying[c] # NoCall /\ Drop(c)
      /\ lost' = IF Is(c, "imported") THEN lost \cup {carrying[c].report} ELSE lost
      /\ UNCHANGED <<reported, sequence, outbox, received, skipped>>
  BY DEF StopCarrier
<1>2. /\ carrying' \in [Carriers -> Carrying \cup {NoCall}] /\ carrying'[c] = NoCall
      /\ \A d \in Carriers \ {c} : carrying'[d] = carrying[d]
  BY <1>1, Dropping
<1>3. BridgeTypeOK'
  BY <1>1, <1>2, CarriedRow DEF BridgeInv, BridgeTypeOK
<1>4. Stored' = Stored /\ Numbered' = Numbered /\ Counted'
  <2>1. lost \subseteq lost'
    BY <1>1
  <2> QED
    BY <1>1, <2>1, NumbersSame DEF BridgeInv, Numbered, Stored
<1>5. Carried'
  <2>1. \A r \in Stored' : outbox'[r].dispatched => r \in received'
    BY <1>1, <1>4 DEF BridgeInv, Carried
  <2>2. ASSUME NEW r \in reported' \ (Stored' \cup lost')
        PROVE  \E d \in Carriers : Is(d, "imported")' /\ carrying'[d].report = r
    <3>1. PICK d \in Carriers : Is(d, "imported") /\ carrying[d].report = r
      BY <1>1, <1>4 DEF BridgeInv, Carried
    <3>2. d # c
      BY <1>1, <3>1
    <3> QED
      BY <1>2, <3>1, <3>2 DEF Is
  <2> QED
    BY <2>1, <2>2 DEF Carried
<1>6. CarriersKnow'
  BY <1>1, <1>2, <1>4 DEF Is, BridgeInv, CarriersKnow
<1> QED
  BY <1>3, <1>4, <1>5, <1>6 DEF BridgeInv

\* A number without a row, or neither.
LEMMA FailToEnqueueStep ==
  ASSUME BridgeInv, NEW c \in Carriers, FailToEnqueue(c)
  PROVE  BridgeInv'
<1>1. PICK r \in Reports :
        /\ r = carrying[c].report /\ carrying[c] # NoCall
        /\ Is(c, "imported") /\ Drop(c)
        /\ lost' = lost \cup {r}
        /\ \/ UNCHANGED <<sequence, skipped>>
           \/ sequence' = sequence + 1 /\ skipped' = [skipped EXCEPT ![r] = sequence + 1]
        /\ UNCHANGED <<reported, outbox, received>>
  BY CarriedRow DEF FailToEnqueue, Is
<1>2. /\ carrying' \in [Carriers -> Carrying \cup {NoCall}] /\ carrying'[c] = NoCall
      /\ \A d \in Carriers \ {c} : carrying'[d] = carrying[d]
  BY <1>1, Dropping
<1>3. /\ r \notin Numbered /\ outbox[r] = NoRow /\ r \in reported /\ Stored' = Stored /\ sequence \in Nat
      /\ skipped \in [Reports -> Nat]
  BY <1>1 DEF BridgeInv, BridgeTypeOK, CarriersKnow, Numbered, Stored
<1>4. BridgeTypeOK'
  BY <1>1, <1>2, <1>3 DEF BridgeInv, BridgeTypeOK
<1>5. /\ \A s \in Reports \ {r} : skipped'[s] = skipped[s]
      /\ Numbered' \subseteq Numbered \cup {r} /\ Numbered \subseteq Numbered'
  BY <1>1, <1>3 DEF Numbered
<1>6. Counted'
  <2>1. CASE UNCHANGED <<sequence, skipped>>
    BY <1>1, <2>1, NumbersSame DEF BridgeInv
  <2>2. CASE sequence' = sequence + 1 /\ skipped' = [skipped EXCEPT ![r] = sequence + 1]
    <3>1. r \in Numbered' /\ NumberOf(r)' = sequence + 1
      BY <1>1, <1>3, <2>2 DEF Numbered, NumberOf
    <3>2. /\ lost \subseteq lost' /\ r \in lost' /\ BridgeTypeOK /\ Counted
          /\ \A s \in Reports \ {r} : outbox'[s] = outbox[s] /\ skipped'[s] = skipped[s]
      BY <1>1, <1>5 DEF BridgeInv
    <3> QED
      BY <1>3, <2>2, <3>1, <3>2, NumberGiven
  <2> QED
    BY <1>1, <2>1, <2>2
<1>7. Carried'
  <2>1. \A s \in Stored' : outbox'[s].dispatched => s \in received'
    BY <1>1, <1>3 DEF BridgeInv, Carried
  <2>2. ASSUME NEW s \in reported' \ (Stored' \cup lost')
        PROVE  \E d \in Carriers : Is(d, "imported")' /\ carrying'[d].report = s
    <3>1. PICK d \in Carriers : Is(d, "imported") /\ carrying[d].report = s
      BY <1>1, <1>3 DEF BridgeInv, Carried
    <3>2. d # c
      BY <1>1, <3>1
    <3> QED
      BY <1>2, <3>1, <3>2 DEF Is
  <2> QED
    BY <2>1, <2>2 DEF Carried
<1>8. CarriersKnow'
  <2>1. \A s \in Numbered' : s \in reported'
    BY <1>1, <1>3, <1>5 DEF BridgeInv, CarriersKnow
  <2>2. \A s \in Reports : outbox'[s] # NoRow => skipped'[s] = 0
    BY <1>1, <1>3, <1>5 DEF BridgeInv, CarriersKnow
  <2>3. ASSUME NEW d \in Carriers, Is(d, "imported")' PROVE carrying'[d].report \notin Numbered'
    <3>1. d # c /\ carrying'[d] = carrying[d] /\ Is(d, "imported")
      BY <1>2, <2>3 DEF Is
    <3>2. carrying[d].report # r /\ carrying[d].report \notin Numbered
      BY <1>1, <3>1 DEF BridgeInv, CarriersKnow, Is
    <3> QED
      BY <1>5, <3>1, <3>2
  <2> QED
    BY <1>1, <1>2, <2>1, <2>2, <2>3 DEF Is, BridgeInv, CarriersKnow
<1> QED
  BY <1>4, <1>6, <1>7, <1>8 DEF BridgeInv

LEMMA ChooseEventStep ==
  ASSUME BridgeInv, NEW c \in Carriers, NEW r \in Reports, ChooseEvent(c, r)
  PROVE  BridgeInv'
<1> DEFINE hand == [report |-> r, stage |-> "chosen"]
<1>1. hand \in Carrying /\ hand.report = r /\ hand.stage = "chosen"
  BY DEF Carrying
<1>2. /\ carrying[c] = NoCall /\ outbox[r] # NoRow
      /\ carrying' = [carrying EXCEPT ![c] = hand]
      /\ UNCHANGED <<reported, sequence, outbox, received, lost, skipped>>
  BY DEF ChooseEvent, Undispatched
<1> HIDE DEF hand
<1>3. carrying'[c] = hand /\ \A d \in Carriers \ {c} : carrying'[d] = carrying[d]
  BY <1>2 DEF BridgeInv, BridgeTypeOK
<1>4. BridgeTypeOK'
  BY <1>1, <1>2 DEF BridgeInv, BridgeTypeOK
<1>5. ~ Is(c, "imported")
  BY <1>2 DEF Is
<1>6. \A s \in Reports : outbox[s] # NoRow /\ outbox[s].dispatched => s \in received
  BY DEF BridgeInv, Carried, Stored
<1> QED
  BY <1>1, <1>2, <1>3, <1>4, <1>5, <1>6, CarryStep

LEMMA ClaimEventStep ==
  ASSUME BridgeInv, NEW c \in Carriers, ClaimEvent(c)
  PROVE  BridgeInv'
<1>1. PICK r \in Reports :
        /\ r = carrying[c].report
        /\ Is(c, "chosen")
        /\ \/ /\ outbox[r] # NoRow
              /\ outbox' = [outbox EXCEPT ![r].owner = c, ![r].leased = TRUE] /\ Move(c, "claimed")
           \/ UNCHANGED outbox /\ Drop(c)
        /\ UNCHANGED <<reported, sequence, received, lost, skipped>>
  BY CarriedRow DEF ClaimEvent, Is, Undispatched
<1>2. /\ carrying[c] # NoCall /\ ~ Is(c, "imported") /\ outbox[r] # NoRow
      /\ \A s \in Reports : outbox[s] # NoRow /\ outbox[s].dispatched => s \in received
  BY <1>1 DEF Is, BridgeInv, CarriersKnow, Carried, Stored
<1>3. CASE outbox' = [outbox EXCEPT ![r].owner = c, ![r].leased = TRUE] /\ Move(c, "claimed")
  <2>1. /\ outbox'[r] = [outbox[r] EXCEPT !.owner = c, !.leased = TRUE]
        /\ \A s \in Reports \ {r} : outbox'[s] = outbox[s]
    BY <1>3 DEF BridgeInv, BridgeTypeOK
  <2>2. outbox[r] \in Outbox
    BY <1>2 DEF BridgeInv, BridgeTypeOK
  <2>3. /\ outbox'[r] \in Outbox /\ outbox'[r].sequence = outbox[r].sequence
        /\ outbox'[r].dispatched = outbox[r].dispatched
    BY <2>1, <2>2 DEF Outbox
  <2>4. /\ carrying' \in [Carriers -> Carrying \cup {NoCall}]
        /\ carrying'[c].stage = "claimed" /\ carrying'[c].report = r
        /\ \A d \in Carriers \ {c} : carrying'[d] = carrying[d]
    BY <1>1, <1>2, <1>3, Moving
  <2>5. BridgeTypeOK'
    BY <1>1, <1>3, <2>1, <2>3, <2>4 DEF BridgeInv, BridgeTypeOK
  <2>6. \A s \in Reports :
           /\ outbox'[s] # NoRow <=> outbox[s] # NoRow
           /\ outbox[s] # NoRow => /\ outbox'[s].sequence = outbox[s].sequence
                                   /\ outbox'[s].dispatched => s \in received'
    BY <1>1, <1>2, <2>1, <2>3, BridgeRowAssumption
  <2> QED
    BY <1>1, <1>2, <2>4, <2>5, <2>6, CarryStep
<1>4. CASE UNCHANGED outbox /\ Drop(c)
  <2>1. /\ carrying' \in [Carriers -> Carrying \cup {NoCall}] /\ carrying'[c] = NoCall
        /\ \A d \in Carriers \ {c} : carrying'[d] = carrying[d]
    BY <1>4, Dropping
  <2>2. BridgeTypeOK'
    BY <1>1, <1>4, <2>1 DEF BridgeInv, BridgeTypeOK
  <2> QED
    BY <1>1, <1>2, <1>4, <2>1, <2>2, CarryStep
<1> QED
  BY <1>1, <1>3, <1>4

LEMMA SinkSteps ==
  ASSUME BridgeInv, NEW c \in Carriers, SinkTakes(c) \/ SinkRefuses(c)
  PROVE  BridgeInv'
<1>1. PICK stage \in {"taken", "refused"}, r \in Reports :
        /\ r = carrying[c].report
        /\ Is(c, "claimed") /\ Move(c, stage)
        /\ received' = IF stage = "taken" THEN received \cup {r} ELSE received
        /\ UNCHANGED <<reported, sequence, outbox, lost, skipped>>
  BY CarriedRow DEF SinkTakes, SinkRefuses, Is
<1>2. /\ carrying[c] # NoCall /\ ~ Is(c, "imported") /\ outbox[r] # NoRow
      /\ \A s \in Reports : outbox[s] # NoRow /\ outbox[s].dispatched => s \in received
  BY <1>1 DEF Is, BridgeInv, CarriersKnow, Carried, Stored
<1>3. /\ carrying' \in [Carriers -> Carrying \cup {NoCall}]
      /\ carrying'[c].stage = stage /\ carrying'[c].report = r
      /\ \A d \in Carriers \ {c} : carrying'[d] = carrying[d]
  BY <1>1, <1>2, Moving
<1>4. BridgeTypeOK'
  BY <1>1, <1>3 DEF BridgeInv, BridgeTypeOK
<1> QED
  BY <1>1, <1>2, <1>3, <1>4, CarryStep

LEMMA SettleStep ==
  ASSUME BridgeInv, NEW c \in Carriers, Settle(c)
  PROVE  BridgeInv'
<1> DEFINE r == carrying[c].report
           taken == Is(c, "taken")
<1>0. r \in Reports /\ taken \in BOOLEAN
  BY CarriedRow DEF Settle, Is
<1>1. /\ r = carrying[c].report
      /\ Is(c, "taken") \/ Is(c, "refused")
      /\ taken = Is(c, "taken")
      /\ \/ UNCHANGED outbox
         \/ outbox' = [outbox EXCEPT ![r].dispatched = taken,
                                     ![r].owner = NoCarrier, ![r].leased = FALSE]
      /\ Drop(c)
      /\ UNCHANGED <<reported, sequence, received, lost, skipped>>
  BY DEF Settle
<1> HIDE DEF r, taken
<1>2. /\ carrying[c] # NoCall /\ ~ Is(c, "imported") /\ outbox[r] # NoRow
      /\ taken => r \in received
      /\ \A s \in Reports : outbox[s] # NoRow /\ outbox[s].dispatched => s \in received
  BY <1>0, <1>1 DEF Is, BridgeInv, CarriersKnow, Carried, Stored
<1>3. /\ carrying' \in [Carriers -> Carrying \cup {NoCall}] /\ carrying'[c] = NoCall
      /\ \A d \in Carriers \ {c} : carrying'[d] = carrying[d]
  BY <1>1, Dropping
<1>4. /\ \A s \in Reports \ {r} : outbox'[s] = outbox[s]
      /\ outbox'[r] \in Outbox /\ outbox'[r].sequence = outbox[r].sequence
      /\ outbox'[r].dispatched => r \in received
  <2>1. CASE UNCHANGED outbox
    BY <1>0, <1>2, <2>1 DEF BridgeInv, BridgeTypeOK
  <2>2. CASE outbox' = [outbox EXCEPT ![r].dispatched = taken,
                                      ![r].owner = NoCarrier, ![r].leased = FALSE]
    <3>1. /\ outbox'[r] = [outbox[r] EXCEPT !.dispatched = taken,
                                            !.owner = NoCarrier, !.leased = FALSE]
          /\ \A s \in Reports \ {r} : outbox'[s] = outbox[s]
      BY <1>0, <2>2 DEF BridgeInv, BridgeTypeOK
    <3>2. outbox[r] \in Outbox
      BY <1>0, <1>2 DEF BridgeInv, BridgeTypeOK
    <3> QED
      BY <1>0, <1>2, <3>1, <3>2 DEF Outbox
  <2> QED
    BY <1>1, <2>1, <2>2
<1>5. BridgeTypeOK'
  BY <1>0, <1>1, <1>3, <1>4 DEF BridgeInv, BridgeTypeOK
<1>6. \A s \in Reports :
         /\ outbox'[s] # NoRow <=> outbox[s] # NoRow
         /\ outbox[s] # NoRow => /\ outbox'[s].sequence = outbox[s].sequence
                                 /\ outbox'[s].dispatched => s \in received'
  BY <1>0, <1>1, <1>2, <1>4, BridgeRowAssumption
<1> QED
  BY <1>0, <1>1, <1>2, <1>3, <1>5, <1>6, CarryStep

LEMMA LeaseEndsStep ==
  ASSUME BridgeInv, NEW r \in Reports, LeaseEnds(r)
  PROVE  BridgeInv'
<1>1. /\ outbox[r] # NoRow
      /\ outbox' = [outbox EXCEPT ![r].leased = FALSE]
      /\ UNCHANGED <<reported, sequence, carrying, received, lost, skipped>>
  BY DEF LeaseEnds
<1>2. /\ outbox'[r] = [outbox[r] EXCEPT !.leased = FALSE]
      /\ \A s \in Reports \ {r} : outbox'[s] = outbox[s]
  BY <1>1 DEF BridgeInv, BridgeTypeOK
<1>3. outbox[r] \in Outbox
  BY <1>1 DEF BridgeInv, BridgeTypeOK
<1>4. /\ outbox'[r] \in Outbox /\ outbox'[r].sequence = outbox[r].sequence
      /\ outbox'[r].dispatched = outbox[r].dispatched
  BY <1>2, <1>3 DEF Outbox
<1>5. BridgeTypeOK'
  BY <1>1, <1>2, <1>4 DEF BridgeInv, BridgeTypeOK
<1>6. /\ Stored' = Stored
      /\ \A s \in Stored : /\ outbox'[s].sequence = outbox[s].sequence
                           /\ outbox'[s].dispatched = outbox[s].dispatched
  BY <1>1, <1>2, <1>4, BridgeRowAssumption DEF Stored
<1>7. Counted' /\ Numbered' = Numbered
  <2>1. \A s \in Reports : /\ outbox'[s] # NoRow <=> outbox[s] # NoRow
                           /\ outbox[s] # NoRow => outbox'[s].sequence = outbox[s].sequence
    BY <1>1, <1>2, <1>4, BridgeRowAssumption
  <2>2. Counted /\ UNCHANGED <<sequence, skipped>> /\ lost \subseteq lost'
    BY <1>1 DEF BridgeInv
  <2>3. Counted'
    BY <2>1, <2>2, NumbersSame
  <2>4. Numbered' = Numbered
    BY <2>1, <2>2 DEF Numbered
  <2> QED
    BY <2>3, <2>4
<1>8. Carried'
  BY <1>1, <1>6 DEF BridgeInv, Carried, Is
<1>9. CarriersKnow'
  <2>1. \A s \in Reports : outbox'[s] # NoRow <=> outbox[s] # NoRow
    BY <1>1, <1>2, <1>4, BridgeRowAssumption
  <2> QED
    BY <1>1, <1>7, <2>1, CarriedRow DEF BridgeInv, CarriersKnow, Is
<1> QED
  BY <1>5, <1>7, <1>8, <1>9 DEF BridgeInv

LEMMA BridgeStepKeepsInv ==
  ASSUME BridgeInv, BridgeNext
  PROVE  BridgeInv'
<1>1. ASSUME NEW c \in Carriers,
             \/ \E r \in Reports : ImportReport(c, r) \/ ChooseEvent(c, r)
             \/ Enqueue(c) \/ FailToEnqueue(c) \/ StopCarrier(c) \/ ClaimEvent(c)
             \/ SinkTakes(c) \/ SinkRefuses(c) \/ Settle(c)
      PROVE  BridgeInv'
  BY <1>1, ImportReportStep, ChooseEventStep, EnqueueStep, FailToEnqueueStep, StopCarrierStep,
     ClaimEventStep, SinkSteps, SettleStep
<1> QED
  BY <1>1, LeaseEndsStep DEF BridgeNext

LEMMA BridgeStutterKeepsInv ==
  ASSUME BridgeInv, UNCHANGED bridgeVars
  PROVE  BridgeInv'
<1>1. UNCHANGED <<reported, sequence, outbox, carrying, received, lost, skipped>>
  BY DEF bridgeVars
<1>2. Numbered' = Numbered /\ Stored' = Stored
  BY <1>1 DEF Numbered, Stored
<1>3. Counted'
  BY <1>1, NumbersSame DEF BridgeInv
<1> QED
  BY <1>1, <1>2, <1>3 DEF BridgeInv, BridgeTypeOK, Carried, CarriersKnow, Is

-----------------------------------------------------------------------------
(* The theorems.                                                           *)

\* BridgeInv is inductive.
THEOREM BridgeInvariant == BridgeSpec => []BridgeInv
<1>1. BridgeInit => BridgeInv
  BY BridgeStarts
<1>2. BridgeInv /\ [BridgeNext]_bridgeVars => BridgeInv'
  BY BridgeStepKeepsInv, BridgeStutterKeepsInv
<1> QED
  BY <1>1, <1>2, PTL DEF BridgeSpec

\* The tables of the bridge hold rows of their types, for any reports and
\* carriers.
THEOREM BridgeTypes == BridgeSpec => []BridgeTypeOK
<1>1. BridgeInv => BridgeTypeOK
  BY DEF BridgeInv
<1> QED
  BY <1>1, BridgeInvariant, PTL

\* For any number of reports, importers and dispatchers that overlap, stop,
\* fail or lose their lease: every number up to the last was counted for one
\* report, which has its event or failed there, what counts as dispatched was
\* received, and only a report whose importer stopped or failed between its two
\* transactions has no event.
THEOREM EventsAreKept == BridgeSpec => []BridgeLosesNothing
<1>1. BridgeInv => BridgeLosesNothing
  BY Parts DEF BridgeInv
<1> QED
  BY <1>1, BridgeInvariant, PTL

-----------------------------------------------------------------------------
(***************************************************************************)
(* GATEWAY                                                                 *)
(***************************************************************************)

\* The manager's processes are there and are those of their endpoints; a
\* process without a manager outlived one.
ProcessesFit ==
    /\ \A e \in Endpoints : managed[e] # NoChild =>
          /\ child[managed[e]] # NoRow /\ child[managed[e]].endpoint = e
          /\ child[managed[e]].state # "closing"
    /\ \A p \in Children : child[p] # NoRow /\ Orphan(p) => child[p].endpoint \in overrun
\* What a sync still has to spawn is not there, and it waits for one process.
SyncFits ==
    /\ monitor = "down" => \A e \in Endpoints : managed[e] = NoChild
    /\ monitor = "spawning" => \A e \in todo : managed[e] = NoChild
    /\ monitor # "dead" => \A e \in Endpoints : failures[e] <= MaxFailures
    /\ \A e \in Endpoints : ending[e] \in SyncEndings =>
          monitor = "checking" /\ \A f \in Endpoints : ending[f] \in SyncEndings => f = e

\* A connection is served by a process that listens, for the endpoint of its session.
LinksFit ==
    \A s \in Sessions : link[s] # NoChild =>
        /\ session[s] # NoRow /\ child[link[s]] # NoRow
        /\ child[link[s]].state \in {"listening", "closing"}
        /\ child[link[s]].endpoint = session[s].endpoint

\* The parts of RuntimeTellsTruth.
ServedBy(p) == {s \in Sessions : link[s] = p}
SlotsFit ==
    \A p \in Children : child[p] # NoRow =>
        Cardinality(ServedBy(p)) <= IF child[p].kind = "reader" THEN 1 ELSE slots[p]
OnlineTold ==
    \A s \in Sessions \ astray :
        session[s] # NoRow /\ session[s].online /\ session[s].endpoint \notin overrun =>
            link[s] # NoChild \/ Unnoticed(session[s].endpoint) \/ ending[session[s].endpoint] # "no"
Truthful(e) == e \notin overrun /\ e \notin stale /\ ending[e] = "no"
StatusTold ==
    \A e \in Endpoints : Truthful(e) /\ status[e] = "listening" =>
        /\ managed[e] # NoChild
        /\ \/ child[managed[e]].state \in {"listening", "exited"}
           \/ ChildIs(managed[e], "reader", "read")

GatewayInv ==
    GatewayTypeOK /\ ProcessesFit /\ SyncFits /\ LinksFit /\ SlotsFit /\ OnlineTold /\ StatusTold

-----------------------------------------------------------------------------
(* Rows.                                                                   *)

LEMMA RowsAreRows ==
  /\ \A x \in Child : x # NoRow
  /\ \A x \in SessionRow : x # NoRow
  /\ NoChild \notin Children /\ 0 \notin Versions
BY GatewayAssumption, GatewayRowAssumption

\* A process with another state.
LEMMA StateChanges ==
  ASSUME NEW c \in Child, NEW st \in {"spawned", "read", "listening", "closing", "exited"}
  PROVE  LET r == [c EXCEPT !.state = st]
         IN /\ r \in Child /\ r # NoRow /\ r.endpoint = c.endpoint /\ r.kind = c.kind /\ r.state = st
<1>1. [c EXCEPT !.state = st] \in Child
  BY DEF Child
<1> QED
  BY <1>1, RowsAreRows DEF Child

LEMMA ChildState ==
  ASSUME GatewayTypeOK, NEW p \in Children, child[p] # NoRow
  PROVE  /\ child[p] \in Child /\ child[p].endpoint \in Endpoints
         /\ \A st : [child EXCEPT ![p].state = st] = [child EXCEPT ![p] = [child[p] EXCEPT !.state = st]]
<1>1. child[p] \in Child
  BY DEF GatewayTypeOK
<1> QED
  BY <1>1 DEF GatewayTypeOK, Child

LEMMA ServedFinite == \A p : IsFiniteSet(ServedBy(p)) /\ Cardinality(ServedBy(p)) \in Nat
<1> TAKE p
<1>1. ServedBy(p) \subseteq Sessions
  BY DEF ServedBy
<1>2. IsFiniteSet(ServedBy(p))
  BY <1>1, GatewayAssumption, FS_Subset
<1> QED
  BY <1>2, FS_CardinalityType

\* The manager's processes are of different endpoints, and a process that is
\* not one of them outlived a manager.
LEMMA ManagedByOne ==
  ASSUME GatewayTypeOK, ProcessesFit, NEW p \in Children, child[p] # NoRow
  PROVE  /\ \A e \in Endpoints : managed[e] = p => e = child[p].endpoint
         /\ child[p].endpoint \notin overrun => managed[child[p].endpoint] = p
         /\ child[p].state = "closing" => Orphan(p)
<1>1. \A e \in Endpoints : managed[e] = p => e = child[p].endpoint /\ child[p].state # "closing"
  BY RowsAreRows DEF ProcessesFit
<1>2. ASSUME child[p].endpoint \notin overrun PROVE managed[child[p].endpoint] = p
  <2>1. ~ Orphan(p)
    BY <1>2 DEF ProcessesFit
  <2> QED
    BY <1>1, <2>1 DEF Orphan
<1> QED
  BY <1>1, <1>2 DEF Orphan

-----------------------------------------------------------------------------
(* What the manager does.                                                  *)

\* Sessions that are closed.
LEMMA ClosedSessions ==
  ASSUME GatewayTypeOK, NEW es, session' = Closed(es)
  PROVE  /\ session' \in [Sessions -> SessionRow \cup {NoRow}]
         /\ \A s \in Sessions :
               /\ session'[s] = NoRow <=> session[s] = NoRow
               /\ session[s] # NoRow => /\ session'[s].endpoint = session[s].endpoint
                                        /\ session'[s].online =>
                                              session[s].online /\ session[s].endpoint \notin es
<1>1. ASSUME NEW s \in Sessions
      PROVE  /\ session'[s] \in SessionRow \cup {NoRow}
             /\ session'[s] = NoRow <=> session[s] = NoRow
             /\ session[s] # NoRow => /\ session'[s].endpoint = session[s].endpoint
                                      /\ session'[s].online =>
                                            session[s].online /\ session[s].endpoint \notin es
  <2>1. session'[s] = IF session[s] # NoRow /\ session[s].endpoint \in es
                      THEN [session[s] EXCEPT !.online = FALSE] ELSE session[s]
    BY DEF Closed
  <2>2. session[s] \in SessionRow \cup {NoRow}
    BY DEF GatewayTypeOK
  <2>3. CASE session[s] \in SessionRow /\ session[s].endpoint \in es
    <3>1. session'[s] = [session[s] EXCEPT !.online = FALSE] /\ session[s] # NoRow
      BY <2>1, <2>3, RowsAreRows
    <3>2. session'[s] \in SessionRow /\ session'[s].endpoint = session[s].endpoint /\ session'[s].online = FALSE
      BY <2>3, <3>1 DEF SessionRow
    <3> QED
      BY <3>1, <3>2, RowsAreRows
  <2>4. CASE ~ (session[s] \in SessionRow /\ session[s].endpoint \in es)
    <3>1. session'[s] = session[s]
      BY <2>1, <2>2, <2>4
    <3>2. session[s] # NoRow => session[s].endpoint \notin es
      BY <2>2, <2>4
    <3> QED
      BY <2>2, <3>1, <3>2
  <2> QED
    BY <2>3, <2>4
<1>2. session' = [s \in Sessions |-> session'[s]]
  BY DEF Closed
<1> QED
  BY <1>1, <1>2

\* A process is ended; what the tables say of it is not yet written.
LEMMA TerminateKeeps ==
  ASSUME GatewayInv, NEW e \in Endpoints, NEW why \in SyncEndings \cup {"halted"}, managed[e] # NoChild,
         Terminate(e, why), UNCHANGED <<status, session, astray, overrun, stale>>
  PROVE  /\ child' \in [Children -> Child \cup {NoRow}] /\ managed' \in [Endpoints -> Children \cup {NoChild}]
         /\ ending' \in [Endpoints -> SyncEndings \cup {"halted", "no"}]
         /\ link' \in [Sessions -> Children \cup {NoChild}] /\ slots' \in [Children -> 0 .. Capacity]
         /\ managed'[e] = NoChild /\ \A f \in Endpoints \ {e} : managed'[f] = managed[f]
         /\ ProcessesFit' /\ LinksFit' /\ SlotsFit' /\ OnlineTold' /\ StatusTold'
<1>0. GatewayTypeOK /\ ProcessesFit /\ LinksFit /\ SlotsFit /\ OnlineTold /\ StatusTold
  BY DEF GatewayInv
<1>1. PICK p \in Children : p = managed[e] /\ child[p] # NoRow /\ child[p].endpoint = e
  BY <1>0 DEF GatewayTypeOK, ProcessesFit
<1>2. /\ child' = [child EXCEPT ![p] = NoRow]
      /\ managed' = [managed EXCEPT ![e] = NoChild]
      /\ ending' = [ending EXCEPT ![e] = why]
      /\ link' = [s \in Sessions |-> IF link[s] \in {p} THEN NoChild ELSE link[s]]
      /\ slots' = [q \in Children |-> IF q \in {p} THEN 0 ELSE slots[q]]
  BY <1>1 DEF Terminate, Unlinked, Vacated
<1>3. /\ child' \in [Children -> Child \cup {NoRow}] /\ child'[p] = NoRow
      /\ \A q \in Children \ {p} : child'[q] = child[q]
      /\ managed' \in [Endpoints -> Children \cup {NoChild}] /\ managed'[e] = NoChild
      /\ \A f \in Endpoints \ {e} : managed'[f] = managed[f]
  BY <1>0, <1>2 DEF GatewayTypeOK
<1>4. /\ ending' \in [Endpoints -> SyncEndings \cup {"halted", "no"}] /\ ending'[e] # "no"
      /\ \A f \in Endpoints \ {e} : ending'[f] = ending[f]
  BY <1>0, <1>2 DEF GatewayTypeOK, SyncEndings
<1>5. link' \in [Sessions -> Children \cup {NoChild}] /\ slots' \in [Children -> 0 .. Capacity]
  BY <1>0, <1>2, GatewayAssumption DEF GatewayTypeOK
<1>6. \A f \in Endpoints \ {e} : managed[f] # NoChild => managed[f] \in Children \ {p}
  BY <1>0, <1>1 DEF GatewayTypeOK, ProcessesFit
<1>7. ProcessesFit'
  <2>1. ASSUME NEW f \in Endpoints, managed'[f] # NoChild
        PROVE  child'[managed'[f]] # NoRow /\ child'[managed'[f]].endpoint = f /\ child'[managed'[f]].state # "closing"
    <3>1. f # e /\ managed'[f] = managed[f] /\ child'[managed[f]] = child[managed[f]]
      BY <1>3, <1>6, <2>1
    <3> QED
      BY <1>0, <2>1, <3>1 DEF ProcessesFit
  <2>2. ASSUME NEW q \in Children, child'[q] # NoRow, Orphan(q)' PROVE child'[q].endpoint \in overrun
    <3>1. q # p /\ child'[q] = child[q]
      BY <1>3, <2>2
    <3>2. Orphan(q)
      BY <1>1, <1>3, <2>2, <3>1 DEF Orphan
    <3> QED
      BY <1>0, <2>2, <3>1, <3>2 DEF ProcessesFit
  <2> QED
    BY <2>1, <2>2 DEF ProcessesFit
<1>8. \A s \in Sessions : link'[s] # NoChild => link'[s] = link[s] /\ link[s] # p /\ child'[link[s]] = child[link[s]]
  BY <1>0, <1>2, <1>3 DEF GatewayTypeOK
<1>9. LinksFit'
  BY <1>0, <1>8 DEF LinksFit
<1>10. SlotsFit'
  <2> SUFFICES ASSUME NEW q \in Children, child'[q] # NoRow
               PROVE  Cardinality(ServedBy(q)') <= IF child'[q].kind = "reader" THEN 1 ELSE slots'[q]
    BY DEF SlotsFit
  <2>1. q # p /\ child'[q] = child[q] /\ slots'[q] = slots[q]
    BY <1>2, <1>3
  <2>2. ServedBy(q)' = ServedBy(q)
    BY <1>2, <2>1, RowsAreRows DEF ServedBy
  <2> QED
    BY <1>0, <2>1, <2>2 DEF SlotsFit
<1>11. OnlineTold'
  <2> SUFFICES ASSUME NEW s \in Sessions \ astray, session[s] # NoRow, session[s].online,
                      NEW f, f = session[s].endpoint, f \notin overrun, ending'[f] = "no"
               PROVE  link'[s] # NoChild \/ Unnoticed(f)'
    BY DEF OnlineTold, Unnoticed
  <2>1. f \in Endpoints \ {e}
    BY <1>0, <1>4 DEF GatewayTypeOK, SessionRow
  <2>2. CASE link[s] # NoChild
    <3>1. link[s] # p
      BY <1>0, <1>1, <2>1, <2>2 DEF LinksFit
    <3> QED
      BY <1>2, <2>2, <3>1
  <2>3. CASE Unnoticed(f)
    BY <1>3, <1>6, <2>1, <2>3 DEF Unnoticed
  <2> QED
    BY <1>0, <1>4, <2>1, <2>2, <2>3 DEF OnlineTold
<1>12. StatusTold'
  <2> SUFFICES ASSUME NEW f \in Endpoints, Truthful(f)', status[f] = "listening"
               PROVE  /\ managed'[f] # NoChild
                      /\ \/ child'[managed'[f]].state \in {"listening", "exited"}
                         \/ child'[managed'[f]] # NoRow /\ child'[managed'[f]].kind = "reader"
                            /\ child'[managed'[f]].state = "read"
    BY DEF StatusTold, ChildIs
  <2>1. f # e /\ Truthful(f)
    BY <1>4 DEF Truthful
  <2>2. managed'[f] = managed[f] /\ managed[f] # NoChild /\ child'[managed[f]] = child[managed[f]]
    BY <1>0, <1>3, <1>6, <2>1 DEF StatusTold
  <2> QED
    BY <1>0, <2>1, <2>2 DEF StatusTold, ChildIs
<1> QED
  BY <1>3, <1>4, <1>5, <1>7, <1>9, <1>10, <1>11, <1>12

\* What keeps the tables of processes and links fitting when the manager reads,
\* judges or waits.
LEMMA QuietKeeps ==
  ASSUME ProcessesFit, LinksFit, SlotsFit, OnlineTold, StatusTold,
         UNCHANGED <<status, child, managed, ending, session, link, slots, astray, overrun, stale>>
  PROVE  ProcessesFit' /\ LinksFit' /\ SlotsFit' /\ OnlineTold' /\ StatusTold'
<1>1. ProcessesFit'
  BY DEF ProcessesFit, Orphan
<1>2. LinksFit'
  BY DEF LinksFit
<1>3. SlotsFit'
  BY DEF SlotsFit, ServedBy
<1>4. OnlineTold'
  BY DEF OnlineTold, Unnoticed
<1>5. StatusTold'
  BY DEF StatusTold, Truthful, ChildIs
<1> QED
  BY <1>1, <1>2, <1>3, <1>4, <1>5

LEMMA QuietStep ==
  ASSUME GatewayInv,
         \/ \E e \in Endpoints : \/ \E enabled \in BOOLEAN, v \in Versions : Reconfigure(e, enabled, v)
                                 \/ OverflowDelay(e) \/ KeepRunning(e) \/ DelayEnds(e) \/ MissProcess(e)
         \/ BeginStop \/ BeginSync \/ BeginSpawning \/ EndSync
         \/ UNCHANGED gatewayVars
  PROVE  GatewayInv'
<1>0. GatewayTypeOK /\ ProcessesFit /\ SyncFits /\ LinksFit /\ SlotsFit /\ OnlineTold /\ StatusTold
  BY DEF GatewayInv
<1>1. UNCHANGED <<status, child, managed, ending, session, link, slots, astray, overrun, stale>>
  BY DEF Reconfigure, OverflowDelay, KeepRunning, DelayEnds, MissProcess, BeginStop, BeginSync, BeginSpawning,
         EndSync, gatewayVars, managerVars, stopVars, serverVars
<1>2. ProcessesFit' /\ LinksFit' /\ SlotsFit' /\ OnlineTold' /\ StatusTold'
  BY <1>0, <1>1, QuietKeeps
<1>3. config' \in [Endpoints -> [enabled : BOOLEAN, version : Versions]]
  <2>1. ASSUME NEW e \in Endpoints, NEW enabled \in BOOLEAN, NEW v \in Versions, Reconfigure(e, enabled, v)
        PROVE  config' \in [Endpoints -> [enabled : BOOLEAN, version : Versions]]
    <3>1. [enabled |-> enabled, version |-> v] \in [enabled : BOOLEAN, version : Versions]
      BY <2>1
    <3> QED
      BY <1>0, <2>1, <3>1 DEF Reconfigure, GatewayTypeOK
  <2>2. config' = config \/ \E e \in Endpoints, enabled \in BOOLEAN, v \in Versions : Reconfigure(e, enabled, v)
    BY DEF OverflowDelay, KeepRunning, DelayEnds, MissProcess, BeginStop, BeginSync, BeginSpawning, EndSync,
           gatewayVars
  <2> QED
    BY <1>0, <2>1, <2>2 DEF GatewayTypeOK
<1>4. /\ signature' = signature /\ delayed' \subseteq Endpoints /\ todo' \subseteq Endpoints
      /\ halting' \subseteq Endpoints /\ stopping' \in BOOLEAN
      /\ monitor' \in {"down", "idle", "checking", "spawning", "dead"}
      /\ seen' \in [Endpoints -> Versions \cup {0}]
  BY <1>0 DEF GatewayTypeOK, Reconfigure, OverflowDelay, KeepRunning, DelayEnds, MissProcess, BeginStop,
              BeginSync, BeginSpawning, EndSync, gatewayVars, managerVars, stopVars
<1>5. failures' \in [Endpoints -> 0 .. MaxFailures + 1]
  <2>1. ASSUME NEW e \in Endpoints, OverflowDelay(e) PROVE failures' \in [Endpoints -> 0 .. MaxFailures + 1]
    <3>1. failures[e] <= MaxFailures /\ failures[e] \in 0 .. MaxFailures + 1
      BY <1>0, <2>1 DEF GatewayTypeOK, SyncFits, OverflowDelay, Exited, Checking
    <3>2. failures[e] + 1 \in 0 .. MaxFailures + 1
      BY <3>1, GatewayAssumption
    <3> QED
      BY <1>0, <2>1, <3>2 DEF GatewayTypeOK, OverflowDelay
  <2>2. ASSUME NEW e \in Endpoints, KeepRunning(e) PROVE failures' \in [Endpoints -> 0 .. MaxFailures + 1]
    BY <1>0, <2>2, GatewayAssumption DEF GatewayTypeOK, KeepRunning
  <2>3. failures' = failures \/ \E e \in Endpoints : OverflowDelay(e) \/ KeepRunning(e)
    BY DEF Reconfigure, DelayEnds, MissProcess, BeginStop, BeginSync, BeginSpawning, EndSync, gatewayVars,
           managerVars
  <2> QED
    BY <1>0, <2>1, <2>2, <2>3 DEF GatewayTypeOK
<1>6. GatewayTypeOK'
  BY <1>0, <1>1, <1>3, <1>4, <1>5 DEF GatewayTypeOK
<1>7. SyncFits'
  <2>1. ASSUME NEW e \in Endpoints, KeepRunning(e) PROVE SyncFits'
    <3>1. /\ monitor' = monitor /\ monitor = "checking" /\ managed' = managed
          /\ \A f \in Endpoints : ending'[f] \notin SyncEndings
      BY <1>1, <2>1 DEF KeepRunning, Running, Checking, Waiting
    <3>2. \A f \in Endpoints : failures'[f] <= MaxFailures
      <4>1. \A f \in Endpoints : failures'[f] = failures[f] \/ failures'[f] = 0
        BY <1>0, <2>1 DEF KeepRunning, GatewayTypeOK
      <4> QED
        BY <1>0, <3>1, <4>1, GatewayAssumption DEF SyncFits
    <3> QED
      BY <1>0, <3>1, <3>2 DEF SyncFits
  <2>2. CASE BeginSync \/ EndSync
    BY <1>0, <1>1, <2>2 DEF SyncFits, BeginSync, EndSync
  <2>3. CASE BeginSpawning
    BY <1>0, <1>1, <2>3 DEF SyncFits, BeginSpawning, Waiting
  <2>4. CASE BeginStop
    BY <1>0, <1>1, <2>4 DEF SyncFits, BeginStop
  <2>5. ASSUME NEW e \in Endpoints, OverflowDelay(e) PROVE SyncFits'
    BY <1>0, <1>1, <2>5 DEF SyncFits, OverflowDelay, Exited, Checking, Waiting
  <2>6. ASSUME NEW e \in Endpoints, MissProcess(e) PROVE SyncFits'
    BY <1>0, <1>1, <2>6 DEF SyncFits, MissProcess, Waiting
  <2>7. ASSUME UNCHANGED <<monitor, todo, failures>> PROVE SyncFits'
    BY <1>0, <1>1, <2>7 DEF SyncFits
  <2>8. \/ UNCHANGED <<monitor, todo, failures>>
        \/ \E e \in Endpoints : KeepRunning(e) \/ OverflowDelay(e) \/ MissProcess(e)
        \/ BeginStop \/ BeginSync \/ BeginSpawning \/ EndSync
    BY DEF Reconfigure, DelayEnds, gatewayVars, managerVars
  <2> QED
    BY <2>1, <2>2, <2>3, <2>4, <2>5, <2>6, <2>7, <2>8
<1> QED
  BY <1>2, <1>6, <1>7 DEF GatewayInv

\* A sync or a stop ends a process.
LEMMA EndingStep ==
  ASSUME GatewayInv, NEW e \in Endpoints,
         StopDisabled(e) \/ NoticeExit(e) \/ StopChanged(e) \/ StopProcess(e)
  PROVE  GatewayInv'
<1>0. GatewayTypeOK /\ SyncFits /\ ProcessesFit /\ LinksFit /\ SlotsFit /\ OnlineTold /\ StatusTold
  BY DEF GatewayInv
<1>1. /\ UNCHANGED <<config, status, signature, monitor, seen, stopping, session, astray, overrun, stale>>
      /\ todo' \subseteq todo /\ halting' \subseteq halting /\ delayed' \subseteq delayed \cup {e}
  BY DEF StopDisabled, NoticeExit, StopChanged, StopProcess
<1>2. \/ /\ managed[e] = NoChild /\ UNCHANGED <<child, managed, ending, link, slots>>
      \/ managed[e] # NoChild /\ \E why \in SyncEndings \cup {"halted"} : Terminate(e, why)
  BY DEF StopDisabled, NoticeExit, StopChanged, StopProcess, Checking, Exited, Running, SyncEndings
<1>3. /\ child' \in [Children -> Child \cup {NoRow}] /\ managed' \in [Endpoints -> Children \cup {NoChild}]
      /\ ending' \in [Endpoints -> SyncEndings \cup {"halted", "no"}]
      /\ link' \in [Sessions -> Children \cup {NoChild}] /\ slots' \in [Children -> 0 .. Capacity]
      /\ \A f \in Endpoints : managed[f] = NoChild => managed'[f] = NoChild
      /\ ProcessesFit' /\ LinksFit' /\ SlotsFit' /\ OnlineTold' /\ StatusTold'
  <2>1. CASE managed[e] = NoChild /\ UNCHANGED <<child, managed, ending, link, slots>>
    <3>1. ProcessesFit' /\ LinksFit' /\ SlotsFit' /\ OnlineTold' /\ StatusTold'
      BY <1>0, <1>1, <2>1, QuietKeeps
    <3> QED
      BY <1>0, <2>1, <3>1 DEF GatewayTypeOK
  <2>2. CASE managed[e] # NoChild /\ \E why \in SyncEndings \cup {"halted"} : Terminate(e, why)
    BY <1>1, <2>2, TerminateKeeps
  <2> QED
    BY <1>2, <2>1, <2>2
<1>4. /\ failures' \in [Endpoints -> 0 .. MaxFailures + 1]
      /\ monitor # "dead" => \A f \in Endpoints : failures'[f] <= MaxFailures
  <2>1. CASE failures' = failures
    BY <1>0, <2>1 DEF GatewayTypeOK, SyncFits
  <2>2. CASE NoticeExit(e)
    <3>1. failures[e] + 1 \in 0 .. MaxFailures
      BY <1>0, <2>2, GatewayAssumption DEF NoticeExit, GatewayTypeOK
    <3>2. failures' = [failures EXCEPT ![e] = failures[e] + 1]
      BY <1>0, <2>2 DEF NoticeExit, GatewayTypeOK
    <3> QED
      BY <1>0, <3>1, <3>2, GatewayAssumption DEF GatewayTypeOK, SyncFits
  <2>3. failures' = failures \/ NoticeExit(e)
    BY DEF StopDisabled, StopChanged, StopProcess
  <2> QED
    BY <2>1, <2>2, <2>3
<1>5. SyncFits'
  <2>1. ASSUME NEW d \in Endpoints, ending'[d] \in SyncEndings
        PROVE  monitor = "checking" /\ \A f \in Endpoints : ending'[f] \in SyncEndings => f = d
    <3>1. CASE StopProcess(e)
      <4>1. \A f \in Endpoints : ending'[f] \in SyncEndings => ending[f] \in SyncEndings
        BY <1>0, <3>1 DEF StopProcess, Terminate, GatewayTypeOK, SyncEndings
      <4> QED
        BY <1>0, <2>1, <4>1 DEF SyncFits
    <3>2. CASE StopDisabled(e) \/ NoticeExit(e) \/ StopChanged(e)
      <4>1. monitor = "checking" /\ ~ Waiting /\ \A f \in Endpoints \ {e} : ending'[f] = ending[f]
        BY <1>0, <3>2 DEF StopDisabled, NoticeExit, StopChanged, Checking, Exited, Running, Terminate, GatewayTypeOK
      <4> QED
        BY <2>1, <4>1 DEF Waiting
    <3> QED
      BY <3>1, <3>2
  <2> QED
    BY <1>0, <1>1, <1>3, <1>4, <2>1 DEF SyncFits, GatewayTypeOK
<1>6. GatewayTypeOK'
  BY <1>0, <1>1, <1>3, <1>4 DEF GatewayTypeOK
<1> QED
  BY <1>3, <1>5, <1>6 DEF GatewayInv

\* What is so of an ended process is written, or is not and the rows are stale.
LEMMA EndedStep ==
  ASSUME GatewayInv, NEW e \in Endpoints, UpdateRuntime(e) \/ FailToUpdate(e) \/ FailSync(e)
  PROVE  GatewayInv'
<1>0. GatewayTypeOK /\ SyncFits /\ ProcessesFit /\ LinksFit /\ SlotsFit /\ OnlineTold /\ StatusTold
  BY DEF GatewayInv
<1>1. /\ UNCHANGED <<config, child, managed, seen, stopping, halting, link, slots, overrun>>
      /\ ending' = [ending EXCEPT ![e] = "no"]
      /\ \/ UNCHANGED <<monitor, todo>>
         \/ monitor' = "idle" /\ todo' = {} /\ FailSync(e)
  <2>1. CASE FailSync(e)
    BY <2>1 DEF FailSync
  <2>2. CASE UpdateRuntime(e) \/ FailToUpdate(e)
    BY <2>2 DEF UpdateRuntime, FailToUpdate, Ended
  <2> QED
    BY <2>1, <2>2
<1>2. /\ ending' \in [Endpoints -> SyncEndings \cup {"halted", "no"}]
      /\ ending'[e] = "no" /\ \A f \in Endpoints \ {e} : ending'[f] = ending[f]
  BY <1>0, <1>1 DEF GatewayTypeOK
<1>3. /\ failures' \in [Endpoints -> 0 .. MaxFailures + 1] /\ delayed' \subseteq Endpoints
      /\ signature' \in [Endpoints -> Versions \cup {0}]
      /\ \A f \in Endpoints : failures'[f] = failures[f] \/ failures'[f] = 0
  <2>1. 0 \in 0 .. MaxFailures + 1
    BY GatewayAssumption
  <2>2. failures' = failures \/ failures' = [failures EXCEPT ![e] = 0]
    BY DEF UpdateRuntime, FailToUpdate, FailSync, Ended
  <2>3. delayed' \subseteq delayed /\ (signature' = signature \/ signature' = [signature EXCEPT ![e] = 0])
    BY DEF UpdateRuntime, FailToUpdate, FailSync, Ended
  <2>4. delayed' \subseteq Endpoints /\ signature' \in [Endpoints -> Versions \cup {0}]
    BY <1>0, <2>3 DEF GatewayTypeOK
  <2>5. failures' \in [Endpoints -> 0 .. MaxFailures + 1] /\ \A f \in Endpoints : failures'[f] = failures[f] \/ failures'[f] = 0
    BY <1>0, <2>1, <2>2 DEF GatewayTypeOK
  <2> QED
    BY <2>4, <2>5
<1>4. ProcessesFit' /\ SlotsFit'
  BY <1>0, <1>1 DEF ProcessesFit, Orphan, SlotsFit, ServedBy
<1>5. CASE UpdateRuntime(e)
  <2>1. /\ status' = [status EXCEPT ![e] = IF ending[e] = "exited" THEN "error" ELSE "stopped"]
        /\ session' = Closed({e}) /\ stale' = stale \ {e} /\ astray' = astray
        /\ monitor' = monitor /\ todo' = todo
    BY <1>5 DEF UpdateRuntime
  <2>2. /\ session' \in [Sessions -> SessionRow \cup {NoRow}]
        /\ \A s \in Sessions :
              /\ session'[s] = NoRow <=> session[s] = NoRow
              /\ session[s] # NoRow => /\ session'[s].endpoint = session[s].endpoint
                                       /\ session'[s].online =>
                                             session[s].online /\ session[s].endpoint \notin {e}
    BY <1>0, <2>1, ClosedSessions
  <2>3. /\ status' \in [Endpoints -> {"stopped", "starting", "listening", "error"}] /\ status'[e] # "listening"
        /\ \A f \in Endpoints \ {e} : status'[f] = status[f]
    BY <1>0, <2>1 DEF GatewayTypeOK
  <2>4. GatewayTypeOK'
    BY <1>0, <1>1, <1>2, <1>3, <2>1, <2>2, <2>3 DEF GatewayTypeOK
  <2>5. SyncFits'
    BY <1>0, <1>1, <1>2, <1>3, <2>1, GatewayAssumption DEF SyncFits, SyncEndings
  <2>6. LinksFit'
    BY <1>0, <1>1, <2>2 DEF LinksFit
  <2>7. OnlineTold'
    <3> SUFFICES ASSUME NEW s \in Sessions \ astray, session'[s] # NoRow, session'[s].online,
                        NEW f, f = session'[s].endpoint, f \notin overrun
                 PROVE  link[s] # NoChild \/ Unnoticed(f) \/ ending'[f] # "no"
      BY <1>1, <2>1 DEF OnlineTold, Unnoticed
    <3>1. session[s] # NoRow /\ session[s].online /\ f = session[s].endpoint /\ f # e
      BY <2>2
    <3>2. f \in Endpoints
      BY <1>0, <3>1 DEF GatewayTypeOK, SessionRow
    <3> QED
      BY <1>0, <1>2, <3>1, <3>2 DEF OnlineTold
  <2>8. StatusTold'
    BY <1>0, <1>1, <1>2, <2>1, <2>3 DEF StatusTold, Truthful, ChildIs
  <2> QED
    BY <1>4, <2>4, <2>5, <2>6, <2>7, <2>8 DEF GatewayInv
<1>6. CASE FailToUpdate(e) \/ FailSync(e)
  <2>1. /\ UNCHANGED <<status, session>> /\ stale' = stale \cup {e}
        /\ astray' = astray \cup {s \in Sessions : session[s] # NoRow /\ session[s].endpoint \in {e}
                                                   /\ session[s].online}
    BY <1>6 DEF FailToUpdate, FailSync, Unwritten
  <2>2. GatewayTypeOK'
    BY <1>0, <1>1, <1>2, <1>3, <2>1 DEF GatewayTypeOK
  <2>3. SyncFits'
    <3>1. monitor # "dead" => \A f \in Endpoints : failures'[f] <= MaxFailures
      BY <1>0, <1>3, GatewayAssumption DEF SyncFits
    <3>2. CASE UNCHANGED <<monitor, todo>>
      BY <1>0, <1>1, <1>2, <3>1, <3>2 DEF SyncFits, SyncEndings
    <3>3. CASE monitor' = "idle" /\ todo' = {} /\ FailSync(e)
      <4>1. monitor = "checking" /\ \A f \in Endpoints : ending'[f] \notin SyncEndings
        BY <1>0, <1>2, <3>3 DEF SyncFits, SyncEndings, FailSync
      <4> QED
        BY <1>0, <1>1, <3>1, <3>3, <4>1 DEF SyncFits
    <3> QED
      BY <1>1, <3>2, <3>3
  <2>4. LinksFit'
    BY <1>0, <1>1, <2>1 DEF LinksFit
  <2>5. OnlineTold'
    <3> SUFFICES ASSUME NEW s \in Sessions \ astray', session[s] # NoRow, session[s].online,
                        NEW f, f = session[s].endpoint, f \notin overrun
                 PROVE  link[s] # NoChild \/ Unnoticed(f) \/ ending'[f] # "no"
      BY <1>1, <2>1 DEF OnlineTold, Unnoticed
    <3>1. f # e /\ f \in Endpoints /\ s \notin astray
      BY <1>0, <2>1 DEF GatewayTypeOK, SessionRow
    <3> QED
      BY <1>0, <1>2, <3>1 DEF OnlineTold
  <2>6. StatusTold'
    BY <1>0, <1>1, <1>2, <2>1 DEF StatusTold, Truthful, ChildIs
  <2> QED
    BY <1>4, <2>2, <2>3, <2>4, <2>5, <2>6 DEF GatewayInv
<1> QED
  BY <1>5, <1>6

\* A manager starts.
LEMMA StartStep == ASSUME GatewayInv, StartRuntime PROVE GatewayInv'
<1>0. GatewayTypeOK /\ ProcessesFit /\ SyncFits /\ LinksFit /\ SlotsFit /\ OnlineTold /\ StatusTold
  BY DEF GatewayInv
<1>1. /\ monitor = "down" /\ monitor' = "idle" /\ session' = Closed(Endpoints)
      /\ UNCHANGED <<config, status, child, managed, signature, failures, delayed, seen, todo,
                     ending, stopping, halting, link, slots, astray, overrun, stale>>
  BY DEF StartRuntime, stopVars
<1>2. /\ session' \in [Sessions -> SessionRow \cup {NoRow}]
      /\ \A s \in Sessions :
            /\ session'[s] = NoRow <=> session[s] = NoRow
            /\ session[s] # NoRow => /\ session'[s].endpoint = session[s].endpoint
                                     /\ session'[s].online =>
                                           session[s].online /\ session[s].endpoint \notin Endpoints
  BY <1>0, <1>1, ClosedSessions
<1>3. GatewayTypeOK'
  BY <1>0, <1>1, <1>2 DEF GatewayTypeOK
<1>4. ProcessesFit' /\ SyncFits' /\ SlotsFit' /\ StatusTold'
  BY <1>0, <1>1 DEF ProcessesFit, Orphan, SyncFits, SlotsFit, ServedBy, StatusTold, Truthful, ChildIs
<1>5. LinksFit'
  BY <1>0, <1>1, <1>2 DEF LinksFit
<1>6. OnlineTold'
  <2>1. \A s \in Sessions : session[s] # NoRow => session[s].endpoint \in Endpoints
    BY <1>0 DEF GatewayTypeOK, SessionRow
  <2> QED
    BY <1>2, <2>1 DEF OnlineTold
<1> QED
  BY <1>3, <1>4, <1>5, <1>6 DEF GatewayInv

\* A manager ends: what it managed outlives it, and what it had ended is not written.
LEMMA EndRuntimeStep == ASSUME GatewayInv, EndRuntime PROVE GatewayInv'
<1>0. GatewayTypeOK /\ ProcessesFit /\ SyncFits /\ LinksFit /\ SlotsFit /\ OnlineTold /\ StatusTold
  BY DEF GatewayInv
<1>1. /\ managed' = [e \in Endpoints |-> NoChild] /\ monitor' = "down" /\ todo' = {} /\ delayed' = {}
      /\ signature' = [e \in Endpoints |-> 0] /\ failures' = [e \in Endpoints |-> 0]
      /\ seen' = [e \in Endpoints |-> 0] /\ ending' = [e \in Endpoints |-> "no"]
      /\ stopping' = FALSE /\ halting' = {}
      /\ overrun' = overrun \cup {e \in Endpoints : managed[e] # NoChild}
      /\ stale' = stale \cup {e \in Endpoints : ending[e] # "no"}
      /\ astray' = astray \cup {s \in Sessions : session[s] # NoRow
                                   /\ session[s].endpoint \in {e \in Endpoints : ending[e] # "no"}
                                   /\ session[s].online}
      /\ child' = [p \in Children |-> IF Live(p) THEN child[p] ELSE NoRow]
      /\ UNCHANGED <<config, status, session, link, slots>>
  BY DEF EndRuntime, Unwritten
<1>2. GatewayTypeOK'
  <2>1. 0 \in 0 .. MaxFailures + 1
    BY GatewayAssumption
  <2>2. /\ child' \in [Children -> Child \cup {NoRow}] /\ managed' \in [Endpoints -> Children \cup {NoChild}]
        /\ overrun' \subseteq Endpoints /\ stale' \subseteq Endpoints /\ astray' \subseteq Sessions
    BY <1>0, <1>1 DEF GatewayTypeOK
  <2>3. /\ failures' \in [Endpoints -> 0 .. MaxFailures + 1] /\ signature' \in [Endpoints -> Versions \cup {0}]
        /\ seen' \in [Endpoints -> Versions \cup {0}] /\ ending' \in [Endpoints -> SyncEndings \cup {"halted", "no"}]
    BY <1>1, <2>1
  <2> QED
    BY <1>0, <1>1, <2>2, <2>3 DEF GatewayTypeOK
<1>3. ProcessesFit'
  <2>1. ASSUME NEW p \in Children, child'[p] # NoRow PROVE child'[p].endpoint \in overrun'
    <3>1. child'[p] = child[p] /\ child[p] # NoRow
      BY <1>1, <2>1
    <3>2. child[p].endpoint \in Endpoints
      BY <1>0, <3>1, ChildState
    <3>3. CASE Orphan(p)
      BY <1>0, <1>1, <3>1, <3>3 DEF ProcessesFit
    <3>4. CASE ~ Orphan(p)
      <4>1. managed[child[p].endpoint] = p
        BY <1>0, <3>1, <3>4, ManagedByOne DEF Orphan
      <4> QED
        BY <1>1, <3>1, <3>2, <4>1, RowsAreRows
    <3> QED
      BY <3>3, <3>4
  <2> QED
    BY <1>1, <2>1 DEF ProcessesFit
<1>4. SyncFits'
  BY <1>1, GatewayAssumption DEF SyncFits, SyncEndings
<1>5. \A s \in Sessions : link[s] # NoChild => link[s] \in Children /\ child'[link[s]] = child[link[s]]
  BY <1>0, <1>1 DEF GatewayTypeOK, LinksFit, Live
<1>6. LinksFit'
  BY <1>0, <1>1, <1>5 DEF LinksFit
<1>7. SlotsFit'
  <2>1. \A p \in Children : child'[p] # NoRow => child'[p] = child[p] /\ child[p] # NoRow
    BY <1>1
  <2> QED
    BY <1>0, <1>1, <2>1 DEF SlotsFit, ServedBy
<1>8. OnlineTold'
  <2> SUFFICES ASSUME NEW s \in Sessions \ astray', session[s] # NoRow, session[s].online,
                      session[s].endpoint \notin overrun'
               PROVE  link[s] # NoChild
    BY <1>1 DEF OnlineTold
  <2>1. session[s].endpoint \in Endpoints /\ s \notin astray
    BY <1>0, <1>1 DEF GatewayTypeOK, SessionRow
  <2>2. /\ managed[session[s].endpoint] = NoChild /\ session[s].endpoint \notin overrun
        /\ ending[session[s].endpoint] = "no"
    BY <1>1, <2>1
  <2> QED
    BY <1>0, <2>1, <2>2 DEF OnlineTold, Unnoticed
<1>9. StatusTold'
  <2>1. \A e \in Endpoints : Truthful(e)' => Truthful(e) /\ managed[e] = NoChild
    BY <1>1 DEF Truthful
  <2> QED
    BY <1>0, <1>1, <2>1 DEF StatusTold
<1> QED
  BY <1>2, <1>3, <1>4, <1>6, <1>7, <1>8, <1>9 DEF GatewayInv

\* A process is not started.
LEMMA FailToSpawnStep == ASSUME GatewayInv, NEW e \in Endpoints, FailToSpawn(e) PROVE GatewayInv'
<1>0. GatewayTypeOK /\ ProcessesFit /\ SyncFits /\ LinksFit /\ SlotsFit /\ OnlineTold /\ StatusTold
  BY DEF GatewayInv
<1>1. /\ monitor = "spawning" /\ monitor' = "idle" /\ todo' = {}
      /\ \/ UNCHANGED <<status, stale>>
         \/ status' = [status EXCEPT ![e] = "starting"] /\ stale' = stale \ {e}
      /\ UNCHANGED <<config, child, managed, signature, failures, delayed, seen, ending, stopping, halting,
                     session, link, slots, astray, overrun>>
  BY DEF FailToSpawn, stopVars, serverVars
<1>2. GatewayTypeOK'
  BY <1>0, <1>1 DEF GatewayTypeOK
<1>3. ProcessesFit' /\ SyncFits' /\ LinksFit' /\ SlotsFit' /\ OnlineTold'
  BY <1>0, <1>1 DEF ProcessesFit, Orphan, SyncFits, LinksFit, SlotsFit, ServedBy, OnlineTold, Unnoticed
<1>4. StatusTold'
  <2>1. \A f \in Endpoints : Truthful(f)' /\ status'[f] = "listening" => Truthful(f) /\ status[f] = "listening"
    BY <1>0, <1>1 DEF Truthful, GatewayTypeOK
  <2> QED
    BY <1>0, <1>1, <2>1 DEF StatusTold, ChildIs
<1> QED
  BY <1>2, <1>3, <1>4 DEF GatewayInv

\* A process starts.
LEMMA SpawnStep == ASSUME GatewayInv, NEW e \in Endpoints, NEW p \in Children, Spawn(e, p) PROVE GatewayInv'
<1>0. GatewayTypeOK /\ ProcessesFit /\ SyncFits /\ LinksFit /\ SlotsFit /\ OnlineTold /\ StatusTold
  BY DEF GatewayInv
<1> DEFINE new == [endpoint |-> e, version |-> 0, state |-> "spawned",
                   kind |-> IF config[e].version \in ReaderVersions THEN "reader" ELSE "listener"]
<1>1. /\ monitor = "spawning" /\ e \in todo /\ child[p] = NoRow /\ child' = [child EXCEPT ![p] = new]
      /\ managed' = [managed EXCEPT ![e] = p] /\ status' = [status EXCEPT ![e] = "starting"]
      /\ signature' = [signature EXCEPT ![e] = seen[e]] /\ todo' = todo \ {e}
      /\ stale' = stale \ {e}
      /\ UNCHANGED <<config, failures, delayed, monitor, seen, ending, stopping, halting, session, link, slots,
                     astray, overrun>>
  BY DEF Spawn, serverVars, stopVars
<1>2. new \in Child /\ new.endpoint = e /\ new.state = "spawned" /\ new # NoRow
  <2>1. new \in Child /\ new.endpoint = e /\ new.state = "spawned"
    BY DEF Child
  <2> QED
    BY <2>1, RowsAreRows
<1> HIDE DEF new
<1>3. managed[e] = NoChild
  BY <1>0, <1>1 DEF SyncFits
<1>4. /\ child'[p] = new /\ \A q \in Children \ {p} : child'[q] = child[q]
      /\ managed'[e] = p /\ \A f \in Endpoints \ {e} : managed'[f] = managed[f]
      /\ status'[e] = "starting" /\ \A f \in Endpoints \ {e} : status'[f] = status[f]
  BY <1>0, <1>1 DEF GatewayTypeOK
<1>5. \A f \in Endpoints : managed[f] # NoChild => managed[f] \in Children \ {p} /\ f # e
  BY <1>0, <1>1, <1>3 DEF GatewayTypeOK, ProcessesFit
<1>6. \A s \in Sessions : link[s] # NoChild => link[s] \in Children \ {p}
  BY <1>0, <1>1 DEF GatewayTypeOK, LinksFit
<1>7. GatewayTypeOK'
  BY <1>0, <1>1, <1>2 DEF GatewayTypeOK
<1>8. ProcessesFit'
  <2>1. ASSUME NEW f \in Endpoints, managed'[f] # NoChild
        PROVE  child'[managed'[f]] # NoRow /\ child'[managed'[f]].endpoint = f /\ child'[managed'[f]].state # "closing"
    <3>1. CASE f = e
      BY <1>2, <1>4, <3>1
    <3>2. CASE f # e
      <4>1. managed'[f] = managed[f] /\ child'[managed[f]] = child[managed[f]]
        BY <1>4, <1>5, <2>1, <3>2
      <4> QED
        BY <1>0, <2>1, <4>1 DEF ProcessesFit
    <3> QED
      BY <3>1, <3>2
  <2>2. ASSUME NEW q \in Children, child'[q] # NoRow, Orphan(q)' PROVE child'[q].endpoint \in overrun'
    <3>1. q # p
      BY <1>4, <2>2 DEF Orphan
    <3>2. Orphan(q)
      BY <1>3, <1>4, <2>2, RowsAreRows DEF Orphan
    <3> QED
      BY <1>0, <1>1, <1>4, <2>2, <3>1, <3>2 DEF ProcessesFit
  <2> QED
    BY <2>1, <2>2 DEF ProcessesFit
<1>9. SyncFits'
  BY <1>0, <1>1, <1>4 DEF SyncFits
<1>10. LinksFit'
  BY <1>0, <1>1, <1>4, <1>6 DEF LinksFit
<1>11. SlotsFit'
  <2>1. ServedBy(p) = {}
    BY <1>6, RowsAreRows DEF ServedBy
  <2>2. Cardinality(ServedBy(p)) = 0 /\ slots[p] \in 0 .. Capacity
    BY <1>0, <2>1, FS_EmptySet DEF GatewayTypeOK
  <2>3. \A q \in Children : ServedBy(q)' = ServedBy(q)
    BY <1>1 DEF ServedBy
  <2>4. ASSUME NEW q \in Children, child'[q] # NoRow
        PROVE  Cardinality(ServedBy(q)) <= IF child'[q].kind = "reader" THEN 1 ELSE slots'[q]
    <3>1. CASE q = p
      BY <1>1, <2>2, <3>1
    <3>2. CASE q # p
      BY <1>0, <1>1, <1>4, <2>4, <3>2 DEF SlotsFit
    <3> QED
      BY <3>1, <3>2
  <2> QED
    BY <2>3, <2>4 DEF SlotsFit
<1>12. OnlineTold'
  <2> SUFFICES ASSUME NEW s \in Sessions \ astray, session[s] # NoRow, session[s].online,
                      NEW f, f = session[s].endpoint, f \notin overrun, ending[f] = "no"
               PROVE  link[s] # NoChild \/ Unnoticed(f)'
    BY <1>1 DEF OnlineTold, Unnoticed
  <2>1. f \in Endpoints
    BY <1>0 DEF GatewayTypeOK, SessionRow
  <2>2. CASE Unnoticed(f)
    BY <1>4, <1>5, <2>1, <2>2 DEF Unnoticed
  <2> QED
    BY <1>0, <2>2 DEF OnlineTold
<1>13. StatusTold'
  <2> SUFFICES ASSUME NEW f \in Endpoints, Truthful(f)', status'[f] = "listening"
               PROVE  /\ managed'[f] # NoChild
                      /\ \/ child'[managed'[f]].state \in {"listening", "exited"}
                         \/ child'[managed'[f]] # NoRow /\ child'[managed'[f]].kind = "reader"
                            /\ child'[managed'[f]].state = "read"
    BY <1>1 DEF StatusTold, ChildIs
  <2>1. f # e /\ status[f] = "listening" /\ Truthful(f)
    BY <1>1, <1>4 DEF Truthful
  <2>2. managed[f] # NoChild /\ managed'[f] = managed[f] /\ child'[managed[f]] = child[managed[f]]
    BY <1>0, <1>4, <1>5, <2>1 DEF StatusTold
  <2> QED
    BY <1>0, <2>1, <2>2 DEF StatusTold, ChildIs
<1> QED
  BY <1>7, <1>8, <1>9, <1>10, <1>11, <1>12, <1>13 DEF GatewayInv

-----------------------------------------------------------------------------
(* What a process does.                                                    *)

\* The process becomes r: the manager's table still fits.
LEMMA ProcessMoves ==
  ASSUME GatewayInv, NEW p \in Children, child[p] # NoRow, NEW r \in Child \cup {NoRow},
         child' = [child EXCEPT ![p] = r], UNCHANGED <<config, managerVars, overrun, stale>>,
         r = NoRow => Orphan(p),
         r # NoRow => r.endpoint = child[p].endpoint /\ (r.state = "closing" => Orphan(p))
  PROVE  /\ child' \in [Children -> Child \cup {NoRow}] /\ child'[p] = r
         /\ \A q \in Children \ {p} : child'[q] = child[q]
         /\ ProcessesFit' /\ SyncFits'
<1>0. GatewayTypeOK /\ ProcessesFit /\ SyncFits
  BY DEF GatewayInv
<1>1. /\ child' \in [Children -> Child \cup {NoRow}] /\ child'[p] = r
      /\ \A q \in Children \ {p} : child'[q] = child[q]
  BY <1>0 DEF GatewayTypeOK
<1>2. managed' = managed /\ overrun' = overrun /\ UNCHANGED <<monitor, todo, failures, ending>>
  BY DEF managerVars, stopVars
<1>3. ASSUME NEW e \in Endpoints, managed[e] # NoChild
      PROVE  child'[managed[e]] # NoRow /\ child'[managed[e]].endpoint = e /\ child'[managed[e]].state # "closing"
  <2>1. managed[e] \in Children /\ child[managed[e]] # NoRow /\ child[managed[e]].endpoint = e
        /\ child[managed[e]].state # "closing"
    BY <1>0, <1>3 DEF GatewayTypeOK, ProcessesFit
  <2>2. CASE managed[e] = p
    <3>1. ~ Orphan(p)
      BY <2>2 DEF Orphan
    <3> QED
      BY <1>1, <2>1, <2>2, <3>1
  <2>3. CASE managed[e] # p
    BY <1>1, <2>1, <2>3
  <2> QED
    BY <2>2, <2>3
<1>4. ASSUME NEW q \in Children, child'[q] # NoRow, Orphan(q) PROVE child'[q].endpoint \in overrun
  <2>1. CASE q = p
    BY <1>0, <1>1, <1>4, <2>1 DEF ProcessesFit
  <2>2. CASE q # p
    BY <1>0, <1>1, <1>4, <2>2 DEF ProcessesFit
  <2> QED
    BY <2>1, <2>2
<1>5. ProcessesFit'
  BY <1>2, <1>3, <1>4 DEF ProcessesFit, Orphan
<1>6. SyncFits'
  BY <1>0, <1>2 DEF SyncFits
<1> QED
  BY <1>1, <1>5, <1>6

\* ... and the status its endpoint then has tells of it.
LEMMA StatusMoves ==
  ASSUME GatewayTypeOK, ProcessesFit, StatusTold, NEW p \in Children, child[p] # NoRow, managed' = managed,
         UNCHANGED <<overrun, stale, ending>>, \A q \in Children \ {p} : child'[q] = child[q],
         \A f \in Endpoints \ {child[p].endpoint} : status'[f] = status[f],
         Truthful(child[p].endpoint) /\ status'[child[p].endpoint] = "listening" =>
            \/ child'[p].state \in {"listening", "exited"}
            \/ child'[p] # NoRow /\ child'[p].kind = "reader" /\ child'[p].state = "read"
  PROVE  StatusTold'
<1> SUFFICES ASSUME NEW f \in Endpoints, Truthful(f), f \notin overrun, status'[f] = "listening"
             PROVE  /\ managed[f] # NoChild
                    /\ \/ child'[managed[f]].state \in {"listening", "exited"}
                       \/ child'[managed[f]] # NoRow /\ child'[managed[f]].kind = "reader"
                          /\ child'[managed[f]].state = "read"
  BY DEF StatusTold, ChildIs, Truthful
<1>1. CASE f = child[p].endpoint
  <2>1. managed[f] = p
    BY <1>1, ManagedByOne
  <2> QED
    BY <1>1, <2>1, RowsAreRows
<1>2. CASE f # child[p].endpoint
  <2>1. status[f] = "listening"
    BY <1>2
  <2>2. managed[f] # NoChild /\ managed[f] \in Children
    BY <2>1 DEF StatusTold, GatewayTypeOK
  <2>3. managed[f] # p
    BY <1>2, <2>2, ManagedByOne
  <2>4. child'[managed[f]] = child[managed[f]]
    BY <2>2, <2>3
  <2> QED
    BY <2>1, <2>2, <2>4 DEF StatusTold, ChildIs
<1> QED
  BY <1>1, <1>2

\* A process that serves no connection, or that only stops to listen, moves on.
LEMMA ProcessStep ==
  ASSUME GatewayInv, NEW p \in Children, child[p] # NoRow, child[p].state # "exited",
         NEW r \in Child \cup {NoRow},
         child' = [child EXCEPT ![p] = r], UNCHANGED <<config, managerVars, serverVars, overrun, stale>>,
         r = NoRow => Orphan(p),
         r # NoRow => /\ r.endpoint = child[p].endpoint /\ r.kind = child[p].kind
                      /\ r.state = "closing" => Orphan(p),
         child[p].state \in {"listening", "closing"} => r # NoRow /\ r.state = "closing",
         status' \in [Endpoints -> {"stopped", "starting", "listening", "error"}],
         \A f \in Endpoints \ {child[p].endpoint} : status'[f] = status[f],
         Truthful(child[p].endpoint) /\ status'[child[p].endpoint] = "listening" =>
            \/ r.state \in {"listening", "exited"}
            \/ r # NoRow /\ r.kind = "reader" /\ r.state = "read"
  PROVE  GatewayInv'
<1>0. GatewayTypeOK /\ ProcessesFit /\ SyncFits /\ LinksFit /\ SlotsFit /\ OnlineTold /\ StatusTold
  BY DEF GatewayInv
<1>1. /\ child' \in [Children -> Child \cup {NoRow}] /\ child'[p] = r
      /\ \A q \in Children \ {p} : child'[q] = child[q]
      /\ ProcessesFit' /\ SyncFits'
  BY ProcessMoves
<1>2. UNCHANGED <<managed, overrun, stale, ending, session, link, slots, astray>>
  BY DEF managerVars, stopVars, serverVars
<1>3. GatewayTypeOK'
  BY <1>0, <1>1 DEF GatewayTypeOK, managerVars, stopVars, serverVars
<1>4. StatusTold'
  BY <1>0, <1>1, <1>2, StatusMoves
<1>5. LinksFit'
  <2> SUFFICES ASSUME NEW s \in Sessions, link[s] # NoChild
               PROVE  /\ session[s] # NoRow /\ child'[link[s]] # NoRow
                      /\ child'[link[s]].state \in {"listening", "closing"}
                      /\ child'[link[s]].endpoint = session[s].endpoint
    BY <1>2 DEF LinksFit
  <2>1. /\ link[s] \in Children /\ session[s] # NoRow /\ child[link[s]] # NoRow
        /\ child[link[s]].state \in {"listening", "closing"} /\ child[link[s]].endpoint = session[s].endpoint
    BY <1>0 DEF LinksFit, GatewayTypeOK
  <2>2. CASE link[s] = p
    BY <1>1, <2>1, <2>2
  <2>3. CASE link[s] # p
    BY <1>1, <2>1, <2>3
  <2> QED
    BY <2>2, <2>3
<1>6. SlotsFit'
  <2> SUFFICES ASSUME NEW q \in Children, child'[q] # NoRow
               PROVE  Cardinality(ServedBy(q)) <= IF child'[q].kind = "reader" THEN 1 ELSE slots[q]
    BY <1>2 DEF SlotsFit, ServedBy
  <2>1. child[q] # NoRow /\ child'[q].kind = child[q].kind
    BY <1>1
  <2> QED
    BY <1>0, <2>1 DEF SlotsFit
<1>7. OnlineTold'
  <2> SUFFICES ASSUME NEW s \in Sessions \ astray, session[s] # NoRow, session[s].online,
                      NEW f, f = session[s].endpoint, f \notin overrun, ending[f] = "no"
               PROVE  link[s] # NoChild \/ Unnoticed(f)'
    BY <1>2 DEF OnlineTold, Unnoticed
  <2>1. f \in Endpoints
    BY <1>0 DEF GatewayTypeOK, SessionRow
  <2>2. CASE Unnoticed(f)
    <3>1. managed[f] \in Children \ {p}
      BY <1>0, <2>1, <2>2 DEF Unnoticed, GatewayTypeOK
    <3> QED
      BY <1>1, <1>2, <2>2, <3>1 DEF Unnoticed
  <2> QED
    BY <1>0, <2>2 DEF OnlineTold
<1> QED
  BY <1>1, <1>3, <1>4, <1>5, <1>6, <1>7 DEF GatewayInv

\* A process ends, and its connections with it.
LEMMA ProcessEnds ==
  ASSUME GatewayInv, NEW p \in Children, child[p] # NoRow, NEW r \in Child \cup {NoRow},
         child' = [child EXCEPT ![p] = r], link' = Unlinked({p}), slots' = Vacated({p}),
         UNCHANGED <<config, managerVars, session, astray, overrun, stale>>,
         r = NoRow => Orphan(p),
         r # NoRow => r.endpoint = child[p].endpoint /\ r.state = "exited",
         status' \in [Endpoints -> {"stopped", "starting", "listening", "error"}],
         \A f \in Endpoints \ {child[p].endpoint} : status'[f] = status[f]
  PROVE  GatewayInv'
<1>0. GatewayTypeOK /\ ProcessesFit /\ SyncFits /\ LinksFit /\ SlotsFit /\ OnlineTold /\ StatusTold
  BY DEF GatewayInv
<1>1. /\ child' \in [Children -> Child \cup {NoRow}] /\ child'[p] = r
      /\ \A q \in Children \ {p} : child'[q] = child[q]
      /\ ProcessesFit' /\ SyncFits'
  BY ProcessMoves
<1>2. UNCHANGED <<managed, overrun, stale, ending, session, astray>>
  BY DEF managerVars, stopVars
<1>3. /\ \A s \in Sessions : link'[s] = IF link[s] = p THEN NoChild ELSE link[s]
      /\ \A q \in Children : slots'[q] = IF q = p THEN 0 ELSE slots[q]
      /\ link' \in [Sessions -> Children \cup {NoChild}] /\ slots' \in [Children -> 0 .. Capacity]
  BY <1>0, GatewayAssumption DEF Unlinked, Vacated, GatewayTypeOK
<1>4. GatewayTypeOK'
  BY <1>0, <1>1, <1>3 DEF GatewayTypeOK, managerVars, stopVars
<1>5. child[p].endpoint \notin overrun => managed[child[p].endpoint] = p /\ r # NoRow /\ r.state = "exited"
  <2> SUFFICES ASSUME child[p].endpoint \notin overrun
               PROVE  managed[child[p].endpoint] = p /\ r # NoRow /\ r.state = "exited"
    OBVIOUS
  <2>1. ~ Orphan(p)
    BY <1>0 DEF ProcessesFit
  <2> QED
    BY <1>0, <2>1, ManagedByOne
<1>6. StatusTold'
  BY <1>0, <1>1, <1>2, <1>5, StatusMoves DEF Truthful
<1>7. LinksFit'
  <2> SUFFICES ASSUME NEW s \in Sessions, link'[s] # NoChild
               PROVE  /\ session[s] # NoRow /\ child'[link'[s]] # NoRow
                      /\ child'[link'[s]].state \in {"listening", "closing"}
                      /\ child'[link'[s]].endpoint = session[s].endpoint
    BY <1>2 DEF LinksFit
  <2>1. link'[s] = link[s] /\ link[s] \in Children \ {p}
    BY <1>0, <1>3 DEF GatewayTypeOK
  <2>2. child'[link[s]] = child[link[s]]
    BY <1>1, <2>1
  <2> QED
    BY <1>0, <2>1, <2>2 DEF LinksFit
<1>8. SlotsFit'
  <2> SUFFICES ASSUME NEW q \in Children, child'[q] # NoRow
               PROVE  Cardinality(ServedBy(q)') <= IF child'[q].kind = "reader" THEN 1 ELSE slots'[q]
    BY DEF SlotsFit
  <2>1. CASE q = p
    <3>1. ServedBy(q)' = {}
      BY <1>3, <2>1, RowsAreRows DEF ServedBy
    <3>2. Cardinality(ServedBy(q)') = 0
      BY <3>1, FS_EmptySet
    <3>3. slots'[q] = 0
      BY <1>3, <2>1
    <3> QED
      BY <3>2, <3>3
  <2>2. CASE q # p
    <3>1. ServedBy(q)' = ServedBy(q)
      BY <1>3, <2>2, RowsAreRows DEF ServedBy
    <3> QED
      BY <1>0, <1>1, <1>3, <2>2, <3>1 DEF SlotsFit
  <2> QED
    BY <2>1, <2>2
<1>9. OnlineTold'
  <2> SUFFICES ASSUME NEW s \in Sessions \ astray', session'[s] # NoRow, session'[s].online,
                      NEW f, f = session'[s].endpoint, f \notin overrun', ending[f] = "no"
               PROVE  link'[s] # NoChild \/ Unnoticed(f)'
    BY <1>2 DEF OnlineTold, Unnoticed
  <2>1. /\ f \in Endpoints /\ s \in Sessions \ astray /\ session[s] # NoRow /\ session[s].online
        /\ f = session[s].endpoint /\ f \notin overrun
    BY <1>0, <1>2 DEF GatewayTypeOK, SessionRow
  <2>2. CASE link[s] = p
    <3>1. child[p].endpoint = f
      BY <1>0, <2>1, <2>2, RowsAreRows DEF LinksFit
    <3> QED
      BY <1>1, <1>2, <1>5, <3>1, RowsAreRows DEF Unnoticed
  <2>3. CASE link[s] # p /\ link[s] # NoChild
    BY <1>3, <2>1, <2>3
  <2>4. CASE Unnoticed(f)
    <3>1. CASE managed[f] = p
      <4>1. child[p].endpoint = f
        BY <1>0, <2>1, <3>1, RowsAreRows DEF ProcessesFit
      <4> QED
        BY <1>1, <1>2, <1>5, <4>1, RowsAreRows DEF Unnoticed
    <3>2. CASE managed[f] # p
      <4>1. managed[f] \in Children \ {p}
        BY <1>0, <2>1, <2>4, <3>2 DEF Unnoticed, GatewayTypeOK
      <4> QED
        BY <1>1, <1>2, <2>4, <4>1 DEF Unnoticed
    <3> QED
      BY <3>1, <3>2
  <2> QED
    BY <1>0, <2>1, <2>2, <2>3, <2>4 DEF OnlineTold
<1> QED
  BY <1>1, <1>4, <1>6, <1>7, <1>8, <1>9 DEF GatewayInv

\* How a process ends.
LEMMA ExitRow ==
  ASSUME GatewayTypeOK, NEW p \in Children, child[p] # NoRow
  PROVE  \E r \in Child \cup {NoRow} :
            /\ Exit(p) = [child EXCEPT ![p] = r]
            /\ r = NoRow => Orphan(p)
            /\ r # NoRow => r.endpoint = child[p].endpoint /\ r.kind = child[p].kind /\ r.state = "exited"
<1>1. CASE Orphan(p)
  BY <1>1 DEF Exit
<1>2. CASE ~ Orphan(p)
  <2>1. child[p] \in Child
    BY ChildState
  <2> DEFINE r == [child[p] EXCEPT !.state = "exited"]
  <2>2. r \in Child /\ r # NoRow /\ r.endpoint = child[p].endpoint /\ r.kind = child[p].kind /\ r.state = "exited"
    BY <2>1, StateChanges
  <2>3. Exit(p) = [child EXCEPT ![p] = r]
    BY <1>2 DEF Exit, GatewayTypeOK
  <2> HIDE DEF r
  <2> QED
    BY <2>2, <2>3
<1> QED
  BY <1>1, <1>2

LEMMA EndingProcess ==
  ASSUME GatewayInv, NEW p \in Children, Crash(p) \/ LeaveOrphan(p)
  PROVE  GatewayInv'
<1>0. GatewayTypeOK /\ ProcessesFit
  BY DEF GatewayInv
<1>1. CASE Crash(p)
  <2>1. /\ child[p] # NoRow /\ child' = Exit(p) /\ link' = Unlinked({p}) /\ slots' = Vacated({p})
        /\ UNCHANGED <<config, managerVars, session, astray, overrun, stale>> /\ status' = status
    BY <1>1 DEF Crash, ChildIs
  <2>2. PICK r \in Child \cup {NoRow} :
           /\ Exit(p) = [child EXCEPT ![p] = r]
           /\ r = NoRow => Orphan(p)
           /\ r # NoRow => r.endpoint = child[p].endpoint /\ r.kind = child[p].kind /\ r.state = "exited"
    BY <1>0, <2>1, ExitRow
  <2>3. child' = [child EXCEPT ![p] = r]
    BY <2>1, <2>2
  <2>4. status' \in [Endpoints -> {"stopped", "starting", "listening", "error"}]
        /\ \A f \in Endpoints \ {child[p].endpoint} : status'[f] = status[f]
    BY <1>0, <2>1 DEF GatewayTypeOK
  <2> QED
    BY <2>1, <2>2, <2>3, <2>4, ProcessEnds
<1>2. CASE LeaveOrphan(p)
  <2>1. /\ child[p] # NoRow /\ child' = [child EXCEPT ![p] = NoRow] /\ link' = Unlinked({p}) /\ slots' = Vacated({p})
        /\ UNCHANGED <<config, managerVars, session, astray, overrun, stale>> /\ child[p].state = "closing"
        /\ status' = [status EXCEPT ![child[p].endpoint] = "stopped"]
    BY <1>2 DEF LeaveOrphan
  <2>2. Orphan(p)
    BY <1>0, <2>1, ManagedByOne
  <2>3. status' \in [Endpoints -> {"stopped", "starting", "listening", "error"}]
        /\ \A f \in Endpoints \ {child[p].endpoint} : status'[f] = status[f]
    BY <1>0, <2>1 DEF GatewayTypeOK
  <2> QED
    BY <2>1, <2>2, <2>3, ProcessEnds
<1> QED
  BY <1>1, <1>2

\* A process reads its endpoint, binds its address or closes, or tells that it
\* cannot connect.
LEMMA MovingProcess ==
  ASSUME GatewayInv, NEW p \in Children,
         \/ ReadEndpoint(p) \/ Bind(p) \/ FailToBind(p) \/ CloseOrphan(p) \/ LeaveReader(p) \/ FailToConnect(p)
  PROVE  GatewayInv'
<1> DEFINE ep == child[p].endpoint
<1>0. GatewayTypeOK /\ ProcessesFit /\ StatusTold
  BY DEF GatewayInv
<1>1. /\ child[p] # NoRow /\ child[p].state \in {"spawned", "read", "listening"}
      /\ UNCHANGED <<config, managerVars, serverVars, overrun, stale>>
      /\ child' = child \/ child' \in {Exit(p), [child EXCEPT ![p] = NoRow]}
         \/ \E st \in {"listening", "closing"} : child' = [child EXCEPT ![p].state = st]
         \/ \E v \in Versions : child' = [child EXCEPT ![p].version = v, ![p].state = "read"]
  <2>1. ASSUME ReadEndpoint(p) PROVE child' = Exit(p)
           \/ \E v \in Versions : child' = [child EXCEPT ![p].version = v, ![p].state = "read"]
    <3>1. child[p].endpoint \in Endpoints
      BY <1>0, <2>1, ChildState DEF ReadEndpoint
    <3>2. config[child[p].endpoint].version \in Versions
      BY <1>0, <3>1 DEF GatewayTypeOK
    <3> QED
      BY <2>1, <3>2 DEF ReadEndpoint
  <2> QED
    BY <2>1 DEF ReadEndpoint, Bind, FailToBind, CloseOrphan, LeaveReader, FailToConnect, ChildIs
<1>2. child[p] \in Child /\ ep \in Endpoints
  BY <1>0, <1>1, ChildState
<1>3. /\ status' \in [Endpoints -> {"stopped", "starting", "listening", "error"}]
      /\ \A f \in Endpoints \ {ep} : status'[f] = status[f]
  <2>1. status' = status \/ \E word \in {"stopped", "listening", "error"} : status' = [status EXCEPT ![ep] = word]
    BY DEF ReadEndpoint, Bind, FailToBind, CloseOrphan, LeaveReader, FailToConnect
  <2> QED
    BY <1>0, <1>2, <2>1 DEF GatewayTypeOK
<1>4. ASSUME NEW r \in Child \cup {NoRow}, child' = [child EXCEPT ![p] = r],
             r = NoRow => Orphan(p),
             r # NoRow => /\ r.endpoint = ep /\ r.kind = child[p].kind
                          /\ r.state = "closing" => Orphan(p),
             child[p].state = "listening" => r # NoRow /\ r.state = "closing",
             Truthful(ep) /\ status'[ep] = "listening" =>
                \/ r.state \in {"listening", "exited"}
                \/ r # NoRow /\ r.kind = "reader" /\ r.state = "read"
      PROVE  GatewayInv'
  BY <1>1, <1>3, <1>4, ProcessStep
<1>5. Orphan(p) => ~ Truthful(ep)
  BY <1>0, <1>1 DEF ProcessesFit, Truthful
<1>6. Truthful(ep) /\ status[ep] = "listening" =>
         \/ child[p].state \in {"listening", "exited"}
         \/ child[p].kind = "reader" /\ child[p].state = "read"
  <2>1. Truthful(ep) => managed[ep] = p
    BY <1>0, <1>1, ManagedByOne DEF Truthful
  <2> QED
    BY <1>0, <1>2, <2>1 DEF StatusTold, ChildIs
<1>7. ASSUME child' = Exit(p), child[p].state # "listening"
      PROVE  GatewayInv'
  <2>1. PICK r \in Child \cup {NoRow} :
           /\ Exit(p) = [child EXCEPT ![p] = r]
           /\ r = NoRow => Orphan(p)
           /\ r # NoRow => r.endpoint = child[p].endpoint /\ r.kind = child[p].kind /\ r.state = "exited"
    BY <1>0, <1>1, ExitRow
  <2> QED
    BY <1>4, <1>5, <1>7, <2>1
<1>8. ASSUME NEW st \in {"listening", "closing"}, child' = [child EXCEPT ![p].state = st],
             st = "closing" => Orphan(p), child[p].state = "listening" => st = "closing"
      PROVE  GatewayInv'
  <2> DEFINE r == [child[p] EXCEPT !.state = st]
  <2>0. st \in {"spawned", "read", "listening", "closing", "exited"}
    OBVIOUS
  <2>1. r \in Child /\ r # NoRow /\ r.endpoint = ep /\ r.kind = child[p].kind /\ r.state = st
    BY <1>2, <2>0, StateChanges
  <2>2. child' = [child EXCEPT ![p] = r]
    BY <1>0, <1>1, <1>8, ChildState
  <2> HIDE DEF r
  <2>3. (r.state = "closing" => Orphan(p)) /\ (child[p].state = "listening" => r.state = "closing")
    BY <1>8, <2>1
  <2>4. Truthful(ep) => r.state \in {"listening", "exited"}
    BY <1>5, <1>8, <2>1
  <2> QED
    BY <1>4, <2>1, <2>2, <2>3, <2>4
<1>9. CASE ReadEndpoint(p)
  <2>1. child[p].state = "spawned" /\ status' = status
    BY <1>9 DEF ReadEndpoint
  <2>2. CASE child' = Exit(p)
    BY <1>7, <2>1, <2>2
  <2>3. CASE child' # Exit(p)
    <3>1. PICK v \in Versions : child' = [child EXCEPT ![p].version = v, ![p].state = "read"]
      <4>1. config[ep].version \in Versions
        BY <1>0, <1>2 DEF GatewayTypeOK
      <4> QED
        BY <1>9, <2>3, <4>1 DEF ReadEndpoint
    <3> DEFINE r == [child[p] EXCEPT !.version = v, !.state = "read"]
    <3>2. r \in Child
      BY <1>2 DEF Child
    <3>3. r # NoRow /\ r.endpoint = ep /\ r.kind = child[p].kind /\ r.state = "read"
      BY <1>2, <3>2, RowsAreRows DEF Child
    <3>4. child' = [child EXCEPT ![p] = r]
      BY <1>0, <3>1 DEF GatewayTypeOK
    <3> HIDE DEF r
    <3>5. Truthful(ep) /\ status'[ep] = "listening" => r.kind = "reader"
      BY <1>6, <2>1, <3>3
    <3>6. r.state # "closing" /\ child[p].state # "listening"
      BY <2>1, <3>3
    <3>7. Truthful(ep) /\ status'[ep] = "listening" =>
             \/ r.state \in {"listening", "exited"}
             \/ r # NoRow /\ r.kind = "reader" /\ r.state = "read"
      BY <3>3, <3>5
    <3>8. r \in Child \cup {NoRow} /\ (r.state = "closing" => Orphan(p))
      BY <3>2, <3>6
    <3> QED
      BY <1>4, <3>3, <3>4, <3>6, <3>7, <3>8
  <2> QED
    BY <2>2, <2>3
<1>10. CASE Bind(p)
  <2>1. child' = [child EXCEPT ![p].state = "listening"] /\ child[p].state = "read"
    BY <1>10 DEF Bind, ChildIs
  <2> QED
    BY <1>8, <2>1
<1>11. CASE FailToBind(p)
  BY <1>7, <1>11 DEF FailToBind, ChildIs
<1>12. CASE CloseOrphan(p)
  <2>1. child' = [child EXCEPT ![p].state = "closing"] /\ Orphan(p)
    BY <1>12 DEF CloseOrphan
  <2> QED
    BY <1>8, <2>1
<1>13. CASE LeaveReader(p)
  <2>1. child' = [child EXCEPT ![p] = NoRow] /\ Orphan(p) /\ child[p].state = "read"
    BY <1>13 DEF LeaveReader, ChildIs
  <2> QED
    BY <1>4, <1>5, <2>1
<1>14. CASE FailToConnect(p)
  <2>1. child[p].state = "read" /\ status'[ep] = "error" /\ child' = child
    BY <1>0, <1>2, <1>14 DEF FailToConnect, ChildIs, GatewayTypeOK
  <2>2. child' = [child EXCEPT ![p] = child[p]]
    BY <1>0, <2>1 DEF GatewayTypeOK
  <2>3. child[p] \in Child \cup {NoRow} /\ child[p].state # "closing" /\ child[p].state # "listening"
        /\ status'[ep] # "listening"
    BY <1>2, <2>1
  <2> DEFINE r == child[p]
  <2>4. /\ r \in Child \cup {NoRow} /\ child' = [child EXCEPT ![p] = r] /\ r # NoRow /\ r.endpoint = ep
        /\ r.kind = child[p].kind /\ r.state # "closing"
    BY <1>1, <2>2, <2>3
  <2> HIDE DEF r
  <2> QED
    BY <1>4, <2>3, <2>4
<1> QED
  BY <1>9, <1>10, <1>11, <1>12, <1>13, <1>14

-----------------------------------------------------------------------------
(* What a connection does.                                                 *)

\* A connection is taken: its process serves one more.
LEMMA LinkTaken ==
  ASSUME GatewayTypeOK, NEW s \in Sessions, NEW p \in Children, link[s] = NoChild,
         link' = [link EXCEPT ![s] = p]
  PROVE  /\ link' \in [Sessions -> Children \cup {NoChild}] /\ link'[s] = p
         /\ \A x \in Sessions \ {s} : link'[x] = link[x]
         /\ Cardinality(ServedBy(p)') = Cardinality(ServedBy(p)) + 1
         /\ \A q \in Children \ {p} : ServedBy(q)' = ServedBy(q)
<1>1. /\ link' \in [Sessions -> Children \cup {NoChild}] /\ link'[s] = p
      /\ \A x \in Sessions \ {s} : link'[x] = link[x]
  BY DEF GatewayTypeOK
<1>2. s \notin ServedBy(p) /\ ServedBy(p)' = ServedBy(p) \cup {s}
  BY <1>1, RowsAreRows DEF ServedBy
<1>3. Cardinality(ServedBy(p) \cup {s}) = Cardinality(ServedBy(p)) + 1
  BY <1>2, ServedFinite, FS_AddElement
<1>4. ASSUME NEW q \in Children \ {p} PROVE ServedBy(q)' = ServedBy(q)
  <2>1. \A x \in Sessions : link'[x] = q <=> link[x] = q
    BY <1>1, RowsAreRows
  <2> QED
    BY <2>1 DEF ServedBy
<1> QED
  BY <1>1, <1>2, <1>3, <1>4

\* A connection is given up: its process serves one less.
LEMMA LinkDropped ==
  ASSUME GatewayTypeOK, NEW s \in Sessions, NEW p \in Children, link[s] = p,
         link' = [link EXCEPT ![s] = NoChild]
  PROVE  /\ link' \in [Sessions -> Children \cup {NoChild}] /\ link'[s] = NoChild
         /\ \A x \in Sessions \ {s} : link'[x] = link[x]
         /\ Cardinality(ServedBy(p)') = Cardinality(ServedBy(p)) - 1
         /\ Cardinality(ServedBy(p)) \in Nat /\ Cardinality(ServedBy(p)) >= 1
         /\ Cardinality(ServedBy(p)) = 1 => \A x \in Sessions : link'[x] # p
         /\ \A q \in Children \ {p} : ServedBy(q)' = ServedBy(q)
<1>1. /\ link' \in [Sessions -> Children \cup {NoChild}] /\ link'[s] = NoChild
      /\ \A x \in Sessions \ {s} : link'[x] = link[x]
  BY DEF GatewayTypeOK
<1>2. s \in ServedBy(p) /\ ServedBy(p)' = ServedBy(p) \ {s}
  BY <1>1, RowsAreRows DEF ServedBy
<1>3. Cardinality(ServedBy(p) \ {s}) = Cardinality(ServedBy(p)) - 1
  BY <1>2, ServedFinite, FS_RemoveElement
<1>4. ASSUME NEW q \in Children \ {p} PROVE ServedBy(q)' = ServedBy(q)
  <2>1. \A x \in Sessions : link'[x] = q <=> link[x] = q
    BY <1>1, RowsAreRows
  <2> QED
    BY <2>1 DEF ServedBy
<1>5. Cardinality(ServedBy(p)) \in Nat /\ Cardinality(ServedBy(p)) >= 1
  <2>1. Cardinality(ServedBy(p)) # 0
    BY <1>2, ServedFinite, FS_EmptySet
  <2> QED
    BY <2>1, ServedFinite
<1>6. ASSUME Cardinality(ServedBy(p)) = 1, NEW x \in Sessions PROVE link'[x] # p
  <2>1. ServedBy(p) \subseteq Sessions
    BY DEF ServedBy
  <2>2. IsFiniteSet(ServedBy(p) \ {s}) /\ Cardinality(ServedBy(p) \ {s}) = 0
    BY <1>3, <1>6, ServedFinite, FS_RemoveElement
  <2>3. ServedBy(p) \ {s} = {}
    BY <2>2, FS_EmptySet
  <2> QED
    BY <1>1, <2>3, RowsAreRows DEF ServedBy
<1> QED
  BY <1>1, <1>2, <1>3, <1>4, <1>5, <1>6

\* The rest of the manager's state, when only connections change.
LEMMA ManagerRests ==
  ASSUME GatewayInv, UNCHANGED <<config, managerVars, overrun, child>>
  PROVE  ProcessesFit' /\ SyncFits' /\ \A e : Unnoticed(e)' <=> Unnoticed(e)
<1>1. ProcessesFit'
  BY DEF GatewayInv, ProcessesFit, Orphan, managerVars
<1>2. SyncFits'
  BY DEF GatewayInv, SyncFits, managerVars, stopVars
<1> QED
  BY <1>1, <1>2 DEF Unnoticed, managerVars

\* A listener takes a connection, with its session or without.
LEMMA AcceptStep ==
  ASSUME GatewayInv, NEW s \in Sessions, NEW p \in Children, AcceptConnection(s, p)
  PROVE  GatewayInv'
<1>0. GatewayTypeOK /\ ProcessesFit /\ SyncFits /\ LinksFit /\ SlotsFit /\ OnlineTold /\ StatusTold
  BY DEF GatewayInv
<1> DEFINE row == [endpoint |-> child[p].endpoint, online |-> TRUE]
<1>1. /\ session[s] = NoRow /\ child[p] # NoRow /\ child[p].kind = "listener" /\ child[p].state = "listening"
      /\ slots[p] < Capacity /\ slots' = [slots EXCEPT ![p] = slots[p] + 1]
      /\ session' = [session EXCEPT ![s] = row] /\ link' = [link EXCEPT ![s] = p]
      /\ UNCHANGED <<config, status, child, managerVars, astray, overrun, stale>>
  BY <1>0 DEF AcceptConnection, ChildIs, GatewayTypeOK
<1>2. child[p].endpoint \in Endpoints /\ link[s] = NoChild
  BY <1>0, <1>1, ChildState DEF LinksFit
<1>3. row \in SessionRow /\ row # NoRow /\ row.endpoint = child[p].endpoint
  <2>1. row \in SessionRow
    BY <1>2 DEF SessionRow
  <2> QED
    BY <2>1, RowsAreRows
<1> HIDE DEF row
<1>4. /\ link' \in [Sessions -> Children \cup {NoChild}] /\ link'[s] = p
      /\ \A x \in Sessions \ {s} : link'[x] = link[x]
      /\ Cardinality(ServedBy(p)') = Cardinality(ServedBy(p)) + 1
      /\ \A q \in Children \ {p} : ServedBy(q)' = ServedBy(q)
  BY <1>0, <1>1, <1>2, LinkTaken
<1>5. /\ session' \in [Sessions -> SessionRow \cup {NoRow}] /\ session'[s] = row
      /\ \A x \in Sessions \ {s} : session'[x] = session[x]
      /\ slots' \in [Children -> 0 .. Capacity] /\ slots'[p] = slots[p] + 1 /\ slots[p] \in Nat
      /\ \A q \in Children \ {p} : slots'[q] = slots[q]
  <2>1. session' \in [Sessions -> SessionRow \cup {NoRow}] /\ session'[s] = row
        /\ \A x \in Sessions \ {s} : session'[x] = session[x]
    BY <1>0, <1>1, <1>3 DEF GatewayTypeOK
  <2>2. slots[p] \in 0 .. Capacity /\ slots[p] + 1 \in 0 .. Capacity
    BY <1>0, <1>1, GatewayAssumption DEF GatewayTypeOK
  <2> QED
    BY <1>0, <1>1, <2>1, <2>2, GatewayAssumption DEF GatewayTypeOK
<1>6. ProcessesFit' /\ SyncFits' /\ \A e : Unnoticed(e)' <=> Unnoticed(e)
  BY <1>1, ManagerRests
<1>7. GatewayTypeOK'
  BY <1>0, <1>1, <1>4, <1>5 DEF GatewayTypeOK, managerVars, stopVars
<1>8. LinksFit'
  <2> SUFFICES ASSUME NEW x \in Sessions, link'[x] # NoChild
               PROVE  /\ session'[x] # NoRow /\ child[link'[x]] # NoRow
                      /\ child[link'[x]].state \in {"listening", "closing"}
                      /\ child[link'[x]].endpoint = session'[x].endpoint
    BY <1>1 DEF LinksFit
  <2>1. CASE x = s
    BY <1>1, <1>3, <1>4, <1>5, <2>1
  <2>2. CASE x # s
    BY <1>0, <1>4, <1>5, <2>2 DEF LinksFit
  <2> QED
    BY <2>1, <2>2
<1>9. SlotsFit'
  <2> SUFFICES ASSUME NEW q \in Children, child[q] # NoRow
               PROVE  Cardinality(ServedBy(q)') <= IF child[q].kind = "reader" THEN 1 ELSE slots'[q]
    BY <1>1 DEF SlotsFit
  <2>1. CASE q = p
    <3>1. Cardinality(ServedBy(p)) <= slots[p]
      BY <1>0, <1>1 DEF SlotsFit
    <3>2. Cardinality(ServedBy(p)') <= slots'[p]
      BY <1>4, <1>5, <3>1, ServedFinite
    <3>3. Cardinality(ServedBy(q)') = Cardinality(ServedBy(p)')
      BY <2>1
    <3> QED
      BY <1>1, <2>1, <3>2, <3>3
  <2>2. CASE q # p
    BY <1>0, <1>4, <1>5, <2>2 DEF SlotsFit
  <2> QED
    BY <2>1, <2>2
<1>10. OnlineTold'
  <2> SUFFICES ASSUME NEW x \in Sessions \ astray', session'[x] # NoRow, session'[x].online,
                      NEW e, e = session'[x].endpoint, e \notin overrun', ending[e] = "no"
               PROVE  link'[x] # NoChild \/ Unnoticed(e)'
    BY <1>1 DEF OnlineTold, Unnoticed, managerVars, stopVars
  <2>1. CASE x = s
    BY <1>4, <2>1, RowsAreRows
  <2>2. CASE x # s
    <3>1. session'[x] = session[x] /\ link'[x] = link[x] /\ x \in Sessions \ astray /\ e \notin overrun
      BY <1>1, <1>4, <1>5, <2>2
    <3>2. link[x] # NoChild \/ Unnoticed(e)
      BY <1>0, <3>1 DEF OnlineTold
    <3> QED
      BY <1>6, <3>1, <3>2
  <2> QED
    BY <2>1, <2>2
<1>11. StatusTold'
  BY <1>0, <1>1 DEF StatusTold, Truthful, ChildIs, managerVars, stopVars
<1> QED
  BY <1>6, <1>7, <1>8, <1>9, <1>10, <1>11 DEF GatewayInv

LEMMA FailToAcceptStep ==
  ASSUME GatewayInv, NEW p \in Children, FailToAccept(p)
  PROVE  GatewayInv'
<1>0. GatewayTypeOK /\ ProcessesFit /\ SyncFits /\ LinksFit /\ SlotsFit /\ OnlineTold /\ StatusTold
  BY DEF GatewayInv
<1>1. /\ slots[p] < Capacity /\ slots' = [slots EXCEPT ![p] = slots[p] + 1]
      /\ UNCHANGED <<config, status, child, managerVars, session, link, astray, overrun, stale>>
  BY <1>0 DEF FailToAccept, GatewayTypeOK
<1>2. slots[p] \in 0 .. Capacity /\ slots[p] + 1 \in 0 .. Capacity
  BY <1>0, <1>1, GatewayAssumption DEF GatewayTypeOK
<1>3. /\ slots' \in [Children -> 0 .. Capacity] /\ slots'[p] = slots[p] + 1
      /\ \A q \in Children \ {p} : slots'[q] = slots[q]
  BY <1>0, <1>1, <1>2 DEF GatewayTypeOK
<1>4. ProcessesFit' /\ SyncFits' /\ \A e : Unnoticed(e)' <=> Unnoticed(e)
  BY <1>1, ManagerRests
<1>5. GatewayTypeOK'
  BY <1>0, <1>1, <1>3 DEF GatewayTypeOK, managerVars, stopVars
<1>6. LinksFit'
  BY <1>0, <1>1 DEF LinksFit
<1>7. SlotsFit'
  <2> SUFFICES ASSUME NEW q \in Children, child[q] # NoRow
               PROVE  Cardinality(ServedBy(q)) <= IF child[q].kind = "reader" THEN 1 ELSE slots'[q]
    BY <1>1 DEF SlotsFit, ServedBy
  <2>1. slots[q] \in Nat /\ slots'[q] \in Nat /\ slots[q] <= slots'[q]
    BY <1>0, <1>2, <1>3, GatewayAssumption DEF GatewayTypeOK
  <2>2. Cardinality(ServedBy(q)) <= IF child[q].kind = "reader" THEN 1 ELSE slots[q]
    BY <1>0 DEF SlotsFit
  <2> QED
    BY <2>1, <2>2, ServedFinite
<1>8. OnlineTold'
  BY <1>0, <1>1 DEF OnlineTold, Unnoticed, managerVars, stopVars
<1>9. StatusTold'
  BY <1>0, <1>1 DEF StatusTold, Truthful, ChildIs, managerVars, stopVars
<1> QED
  BY <1>4, <1>5, <1>6, <1>7, <1>8, <1>9 DEF GatewayInv

\* The end of a connection is written, or it is not and the session is astray.
LEMMA SessionEnds ==
  ASSUME GatewayTypeOK, LinksFit, NEW s \in Sessions, link[s] # NoChild,
         \/ session' = [session EXCEPT ![s].online = FALSE] /\ astray' = astray
         \/ session' = session /\ astray' = astray \cup {s}
  PROVE  /\ session' \in [Sessions -> SessionRow \cup {NoRow}] /\ astray' \subseteq Sessions
         /\ \A x \in Sessions : /\ session[x] # NoRow => session'[x].endpoint = session[x].endpoint
                                /\ session'[x] # NoRow <=> session[x] # NoRow
         /\ \A x \in Sessions \ astray' : session'[x] # NoRow /\ session'[x].online =>
               x # s /\ x \notin astray /\ session[x].online
<1>1. session[s] \in SessionRow
  BY DEF GatewayTypeOK, LinksFit
<1>2. CASE session' = [session EXCEPT ![s].online = FALSE] /\ astray' = astray
  <2> DEFINE row == [session[s] EXCEPT !.online = FALSE]
  <2>1. row \in SessionRow /\ row.endpoint = session[s].endpoint /\ row.online = FALSE
    BY <1>1 DEF SessionRow
  <2>2. session' = [session EXCEPT ![s] = row]
    BY <1>2 DEF GatewayTypeOK
  <2> HIDE DEF row
  <2>3. /\ session' \in [Sessions -> SessionRow \cup {NoRow}] /\ session'[s] = row
        /\ \A x \in Sessions \ {s} : session'[x] = session[x]
    BY <2>1, <2>2 DEF GatewayTypeOK
  <2>4. row # NoRow /\ session[s] # NoRow
    BY <1>1, <2>1, RowsAreRows
  <2>5. ASSUME NEW x \in Sessions
        PROVE  /\ session[x] # NoRow => session'[x].endpoint = session[x].endpoint
               /\ session'[x] # NoRow <=> session[x] # NoRow
               /\ session'[x] # NoRow /\ session'[x].online => x # s /\ session[x].online
    <3>1. CASE x = s
      BY <2>1, <2>3, <2>4, <3>1
    <3>2. CASE x # s
      BY <2>3, <3>2
    <3> QED
      BY <3>1, <3>2
  <2>6. astray' \subseteq Sessions /\ astray' = astray
    BY <1>2 DEF GatewayTypeOK
  <2> QED
    BY <2>3, <2>5, <2>6
<1>3. CASE session' = session /\ astray' = astray \cup {s}
  BY <1>3 DEF GatewayTypeOK
<1> QED
  BY <1>2, <1>3

LEMMA FinishStep ==
  ASSUME GatewayInv, NEW s \in Sessions, Finish(s) \/ FailToFinish(s)
  PROVE  GatewayInv'
<1>0. GatewayTypeOK /\ ProcessesFit /\ SyncFits /\ LinksFit /\ SlotsFit /\ OnlineTold /\ StatusTold
  BY DEF GatewayInv
<1>1. PICK p \in Children : link[s] = p
  BY <1>0 DEF Finish, FailToFinish, Served, GatewayTypeOK
<1>2. /\ child[p].kind = "listener" /\ link' = [link EXCEPT ![s] = NoChild]
      /\ slots' = slots \/ slots' = [slots EXCEPT ![p] = slots[p] - 1]
      /\ UNCHANGED <<config, status, child, managerVars, overrun, stale>>
  BY <1>0, <1>1 DEF Finish, FailToFinish, Served, GatewayTypeOK
<1>3. \/ session' = [session EXCEPT ![s].online = FALSE] /\ astray' = astray
      \/ session' = session /\ astray' = astray \cup {s}
  BY DEF Finish, FailToFinish
<1>4. /\ session' \in [Sessions -> SessionRow \cup {NoRow}] /\ astray' \subseteq Sessions
      /\ \A x \in Sessions : /\ session[x] # NoRow => session'[x].endpoint = session[x].endpoint
                             /\ session'[x] # NoRow <=> session[x] # NoRow
      /\ \A x \in Sessions \ astray' : session'[x] # NoRow /\ session'[x].online =>
            x # s /\ x \notin astray /\ session[x].online
  BY <1>0, <1>1, <1>3, RowsAreRows, SessionEnds
<1>5. /\ link' \in [Sessions -> Children \cup {NoChild}] /\ link'[s] = NoChild
      /\ \A x \in Sessions \ {s} : link'[x] = link[x]
      /\ Cardinality(ServedBy(p)') = Cardinality(ServedBy(p)) - 1
      /\ Cardinality(ServedBy(p)) \in Nat /\ Cardinality(ServedBy(p)) >= 1
      /\ \A q \in Children \ {p} : ServedBy(q)' = ServedBy(q)
  BY <1>0, <1>1, <1>2, LinkDropped
<1>6. child[p] # NoRow /\ Cardinality(ServedBy(p)) <= slots[p]
  <2>1. child[p] # NoRow
    BY <1>0, <1>1, RowsAreRows DEF LinksFit
  <2> QED
    BY <1>0, <1>2, <2>1 DEF SlotsFit
<1>7. /\ slots' \in [Children -> 0 .. Capacity] /\ slots'[p] >= slots[p] - 1 /\ slots'[p] \in Nat /\ slots[p] \in Nat
      /\ \A q \in Children \ {p} : slots'[q] = slots[q]
  <2>1. slots[p] \in 0 .. Capacity
    BY <1>0 DEF GatewayTypeOK
  <2>2. slots[p] - 1 \in 0 .. Capacity
    BY <1>5, <1>6, <2>1, GatewayAssumption
  <2>3. CASE slots' = slots
    BY <1>0, <2>1, <2>3, GatewayAssumption DEF GatewayTypeOK
  <2>4. CASE slots' = [slots EXCEPT ![p] = slots[p] - 1]
    <3>1. /\ slots' \in [Children -> 0 .. Capacity] /\ slots'[p] = slots[p] - 1
          /\ \A q \in Children \ {p} : slots'[q] = slots[q]
      BY <1>0, <2>2, <2>4 DEF GatewayTypeOK
    <3> QED
      BY <2>1, <2>2, <3>1, GatewayAssumption
  <2> QED
    BY <1>2, <2>3, <2>4
<1>8. ProcessesFit' /\ SyncFits' /\ \A e : Unnoticed(e)' <=> Unnoticed(e)
  BY <1>2, ManagerRests
<1>9. GatewayTypeOK'
  BY <1>0, <1>2, <1>4, <1>5, <1>7 DEF GatewayTypeOK, managerVars, stopVars
<1>10. LinksFit'
  BY <1>0, <1>2, <1>4, <1>5 DEF LinksFit
<1>11. SlotsFit'
  <2> SUFFICES ASSUME NEW q \in Children, child[q] # NoRow
               PROVE  Cardinality(ServedBy(q)') <= IF child[q].kind = "reader" THEN 1 ELSE slots'[q]
    BY <1>2 DEF SlotsFit
  <2>1. CASE q = p
    <3>1. Cardinality(ServedBy(p)') <= slots'[p]
      BY <1>5, <1>6, <1>7
    <3>2. Cardinality(ServedBy(q)') = Cardinality(ServedBy(p)')
      BY <2>1
    <3> QED
      BY <1>2, <2>1, <3>1, <3>2
  <2>2. CASE q # p
    BY <1>0, <1>5, <1>7, <2>2 DEF SlotsFit
  <2> QED
    BY <2>1, <2>2
<1>12. OnlineTold'
  <2> SUFFICES ASSUME NEW x \in Sessions \ astray', session'[x] # NoRow, session'[x].online,
                      NEW e, e = session'[x].endpoint, e \notin overrun', ending[e] = "no"
               PROVE  link'[x] # NoChild \/ Unnoticed(e)'
    BY <1>2 DEF OnlineTold, Unnoticed, managerVars, stopVars
  <2>1. /\ x # s /\ x \notin astray /\ session[x] # NoRow /\ session[x].online /\ e = session[x].endpoint
        /\ e \notin overrun /\ link'[x] = link[x]
    BY <1>2, <1>4, <1>5
  <2>2. link[x] # NoChild \/ Unnoticed(e)
    BY <1>0, <2>1 DEF OnlineTold
  <2> QED
    BY <1>8, <2>1, <2>2
<1>13. StatusTold'
  BY <1>0, <1>2 DEF StatusTold, Truthful, ChildIs, managerVars, stopVars
<1> QED
  BY <1>8, <1>9, <1>10, <1>11, <1>12, <1>13 DEF GatewayInv

\* The reader's connection ends and the reader will connect again.
LEMMA ReaderEndsStep ==
  ASSUME GatewayInv, NEW s \in Sessions, HangUp(s) \/ LoseReader(s)
  PROVE  GatewayInv'
<1>0. GatewayTypeOK /\ ProcessesFit /\ SyncFits /\ LinksFit /\ SlotsFit /\ OnlineTold /\ StatusTold
  BY DEF GatewayInv
<1>1. PICK p \in Children : link[s] = p
  BY <1>0 DEF HangUp, LoseReader, Served, GatewayTypeOK
<1> DEFINE ep == child[p].endpoint
           r == [child[p] EXCEPT !.state = "read"]
<1>2. /\ child[p].kind = "reader" /\ link' = [link EXCEPT ![s] = NoChild]
      /\ child' = [child EXCEPT ![p].state = "read"]
      /\ status' = status \/ status' = [status EXCEPT ![session[s].endpoint] = "error"]
      /\ UNCHANGED <<config, managerVars, slots, overrun, stale>>
  BY <1>1 DEF HangUp, LoseReader, Served
<1>3. \/ session' = [session EXCEPT ![s].online = FALSE] /\ astray' = astray
      \/ session' = session /\ astray' = astray \cup {s}
  BY DEF HangUp, LoseReader
<1>4. /\ session' \in [Sessions -> SessionRow \cup {NoRow}] /\ astray' \subseteq Sessions
      /\ \A x \in Sessions : /\ session[x] # NoRow => session'[x].endpoint = session[x].endpoint
                             /\ session'[x] # NoRow <=> session[x] # NoRow
      /\ \A x \in Sessions \ astray' : session'[x] # NoRow /\ session'[x].online =>
            x # s /\ x \notin astray /\ session[x].online
  BY <1>0, <1>1, <1>3, RowsAreRows, SessionEnds
<1>5. child[p] # NoRow /\ child[p].state \in {"listening", "closing"} /\ ep = session[s].endpoint
  BY <1>0, <1>1, RowsAreRows DEF LinksFit
<1>6. child[p] \in Child /\ ep \in Endpoints
  BY <1>0, <1>5, ChildState
<1>7. r \in Child /\ r # NoRow /\ r.endpoint = ep /\ r.kind = "reader" /\ r.state = "read"
  BY <1>2, <1>6, StateChanges
<1>8. child' = [child EXCEPT ![p] = r]
  BY <1>0, <1>2, <1>5, ChildState
<1> HIDE DEF r
<1>9. /\ child' \in [Children -> Child \cup {NoRow}] /\ child'[p] = r
      /\ \A q \in Children \ {p} : child'[q] = child[q]
      /\ ProcessesFit' /\ SyncFits'
  BY <1>2, <1>5, <1>7, <1>8, ProcessMoves
<1>10. Cardinality(ServedBy(p)) <= 1
  BY <1>0, <1>2, <1>5 DEF SlotsFit
<1>11. /\ link' \in [Sessions -> Children \cup {NoChild}] /\ link'[s] = NoChild
       /\ \A x \in Sessions \ {s} : link'[x] = link[x]
       /\ Cardinality(ServedBy(p)') = Cardinality(ServedBy(p)) - 1
       /\ Cardinality(ServedBy(p)) \in Nat /\ Cardinality(ServedBy(p)) >= 1
       /\ Cardinality(ServedBy(p)) = 1 => \A x \in Sessions : link'[x] # p
       /\ \A q \in Children \ {p} : ServedBy(q)' = ServedBy(q)
  BY <1>0, <1>1, <1>2, LinkDropped
<1>12. \A x \in Sessions : link'[x] # p
  BY <1>10, <1>11
<1>13. /\ status' \in [Endpoints -> {"stopped", "starting", "listening", "error"}]
       /\ \A f \in Endpoints \ {ep} : status'[f] = status[f]
  BY <1>0, <1>2, <1>5, <1>6 DEF GatewayTypeOK
<1>14. GatewayTypeOK'
  BY <1>0, <1>2, <1>4, <1>9, <1>11, <1>13 DEF GatewayTypeOK, managerVars, stopVars
<1>15. managed' = managed /\ UNCHANGED <<overrun, stale, ending>>
  BY <1>2 DEF managerVars, stopVars
<1>16. StatusTold'
  BY <1>0, <1>5, <1>7, <1>9, <1>13, <1>15, StatusMoves
<1>17. LinksFit'
  <2> SUFFICES ASSUME NEW x \in Sessions, link'[x] # NoChild
               PROVE  /\ session'[x] # NoRow /\ child'[link'[x]] # NoRow
                      /\ child'[link'[x]].state \in {"listening", "closing"}
                      /\ child'[link'[x]].endpoint = session'[x].endpoint
    BY DEF LinksFit
  <2>1. x # s /\ link'[x] = link[x] /\ link[x] \in Children \ {p}
    BY <1>0, <1>11, <1>12 DEF GatewayTypeOK
  <2>2. child'[link[x]] = child[link[x]]
    BY <1>9, <2>1
  <2> QED
    BY <1>0, <1>4, <2>1, <2>2 DEF LinksFit
<1>18. SlotsFit'
  <2> SUFFICES ASSUME NEW q \in Children, child'[q] # NoRow
               PROVE  Cardinality(ServedBy(q)') <= IF child'[q].kind = "reader" THEN 1 ELSE slots[q]
    BY <1>2 DEF SlotsFit
  <2>1. CASE q = p
    <3>1. Cardinality(ServedBy(q)') = Cardinality(ServedBy(p)')
      BY <2>1
    <3> QED
      BY <1>7, <1>9, <1>10, <1>11, <2>1, <3>1
  <2>2. CASE q # p
    BY <1>0, <1>9, <1>11, <2>2 DEF SlotsFit
  <2> QED
    BY <2>1, <2>2
<1>19. OnlineTold'
  <2> SUFFICES ASSUME NEW x \in Sessions \ astray', session'[x] # NoRow, session'[x].online,
                      NEW e, e = session'[x].endpoint, e \notin overrun', ending[e] = "no"
               PROVE  link'[x] # NoChild \/ Unnoticed(e)'
    BY <1>2 DEF OnlineTold, Unnoticed, managerVars, stopVars
  <2>1. /\ x # s /\ x \notin astray /\ session[x] # NoRow /\ session[x].online /\ e = session[x].endpoint
        /\ e \notin overrun /\ link'[x] = link[x]
    BY <1>4, <1>11, <1>15
  <2>2. e \in Endpoints
    BY <1>0, <2>1 DEF GatewayTypeOK, SessionRow
  <2>3. CASE Unnoticed(e)
    <3>1. managed[e] \in Children \ {p}
      BY <1>0, <1>5, <2>2, <2>3 DEF Unnoticed, GatewayTypeOK
    <3> QED
      BY <1>9, <1>15, <2>3, <3>1 DEF Unnoticed
  <2> QED
    BY <1>0, <2>1, <2>3 DEF OnlineTold
<1> QED
  BY <1>9, <1>14, <1>16, <1>17, <1>18, <1>19 DEF GatewayInv

\* A reader connects.
LEMMA ConnectReaderStep ==
  ASSUME GatewayInv, NEW s \in Sessions, NEW p \in Children, ConnectReader(s, p)
  PROVE  GatewayInv'
<1>0. GatewayTypeOK /\ ProcessesFit /\ SyncFits /\ LinksFit /\ SlotsFit /\ OnlineTold /\ StatusTold
  BY DEF GatewayInv
<1> DEFINE ep == child[p].endpoint
           r == [child[p] EXCEPT !.state = "listening"]
           row == [endpoint |-> ep, online |-> TRUE]
<1>1. /\ session[s] = NoRow /\ child[p] # NoRow /\ child[p].kind = "reader" /\ child[p].state = "read"
      /\ child' = [child EXCEPT ![p].state = "listening"] /\ status' = [status EXCEPT ![ep] = "listening"]
      /\ session' = [session EXCEPT ![s] = row] /\ link' = [link EXCEPT ![s] = p]
      /\ UNCHANGED <<config, managerVars, slots, astray, overrun, stale>>
  BY DEF ConnectReader, ChildIs
<1>2. child[p] \in Child /\ ep \in Endpoints /\ link[s] = NoChild
  BY <1>0, <1>1, ChildState DEF LinksFit
<1>3. row \in SessionRow /\ row # NoRow /\ row.endpoint = ep
  <2>1. row \in SessionRow
    BY <1>2 DEF SessionRow
  <2> QED
    BY <2>1, RowsAreRows
<1>4. r \in Child /\ r # NoRow /\ r.endpoint = ep /\ r.kind = "reader" /\ r.state = "listening"
  BY <1>1, <1>2, StateChanges
<1>5. child' = [child EXCEPT ![p] = r]
  BY <1>0, <1>1, ChildState
<1> HIDE DEF r, row
<1>6. /\ child' \in [Children -> Child \cup {NoRow}] /\ child'[p] = r
      /\ \A q \in Children \ {p} : child'[q] = child[q]
      /\ ProcessesFit' /\ SyncFits'
  BY <1>1, <1>4, <1>5, ProcessMoves
<1>7. /\ link' \in [Sessions -> Children \cup {NoChild}] /\ link'[s] = p
      /\ \A x \in Sessions \ {s} : link'[x] = link[x]
      /\ Cardinality(ServedBy(p)') = Cardinality(ServedBy(p)) + 1
      /\ \A q \in Children \ {p} : ServedBy(q)' = ServedBy(q)
  BY <1>0, <1>1, <1>2, LinkTaken
<1>8. /\ session' \in [Sessions -> SessionRow \cup {NoRow}] /\ session'[s] = row
      /\ \A x \in Sessions \ {s} : session'[x] = session[x]
  BY <1>0, <1>1, <1>3 DEF GatewayTypeOK
<1>9. /\ status' \in [Endpoints -> {"stopped", "starting", "listening", "error"}]
      /\ \A f \in Endpoints \ {ep} : status'[f] = status[f]
  BY <1>0, <1>1 DEF GatewayTypeOK
<1>10. GatewayTypeOK'
  BY <1>0, <1>1, <1>6, <1>7, <1>8, <1>9 DEF GatewayTypeOK, managerVars, stopVars
<1>11. managed' = managed /\ UNCHANGED <<overrun, stale, ending>> /\ astray' = astray
  BY <1>1 DEF managerVars, stopVars
<1>12. StatusTold'
  BY <1>0, <1>1, <1>4, <1>6, <1>9, <1>11, StatusMoves
<1>13. \A x \in Sessions : link[x] # p
  BY <1>0, <1>1, RowsAreRows DEF LinksFit
<1>14. LinksFit'
  <2> SUFFICES ASSUME NEW x \in Sessions, link'[x] # NoChild
               PROVE  /\ session'[x] # NoRow /\ child'[link'[x]] # NoRow
                      /\ child'[link'[x]].state \in {"listening", "closing"}
                      /\ child'[link'[x]].endpoint = session'[x].endpoint
    BY DEF LinksFit
  <2>1. CASE x = s
    BY <1>3, <1>4, <1>6, <1>7, <1>8, <2>1
  <2>2. CASE x # s
    <3>1. link'[x] = link[x] /\ link[x] \in Children \ {p} /\ session'[x] = session[x]
      BY <1>0, <1>7, <1>8, <1>13, <2>2 DEF GatewayTypeOK
    <3>2. child'[link[x]] = child[link[x]]
      BY <1>6, <3>1
    <3> QED
      BY <1>0, <3>1, <3>2 DEF LinksFit
  <2> QED
    BY <2>1, <2>2
<1>15. SlotsFit'
  <2> SUFFICES ASSUME NEW q \in Children, child'[q] # NoRow
               PROVE  Cardinality(ServedBy(q)') <= IF child'[q].kind = "reader" THEN 1 ELSE slots[q]
    BY <1>1 DEF SlotsFit
  <2>1. CASE q = p
    <3>1. ServedBy(p) = {}
      BY <1>13 DEF ServedBy
    <3>2. Cardinality(ServedBy(p)') = 1
      BY <1>7, <3>1, FS_EmptySet
    <3>3. Cardinality(ServedBy(q)') = Cardinality(ServedBy(p)')
      BY <2>1
    <3> QED
      BY <1>4, <1>6, <2>1, <3>2, <3>3
  <2>2. CASE q # p
    BY <1>0, <1>6, <1>7, <2>2 DEF SlotsFit
  <2> QED
    BY <2>1, <2>2
<1>16. OnlineTold'
  <2> SUFFICES ASSUME NEW x \in Sessions \ astray', session'[x] # NoRow, session'[x].online,
                      NEW e, e = session'[x].endpoint, e \notin overrun', ending[e] = "no"
               PROVE  link'[x] # NoChild \/ Unnoticed(e)'
    BY <1>1 DEF OnlineTold, Unnoticed, managerVars, stopVars
  <2>1. CASE x = s
    BY <1>7, <2>1, RowsAreRows
  <2>2. CASE x # s
    <3>1. /\ session'[x] = session[x] /\ link'[x] = link[x] /\ x \in Sessions \ astray /\ e \notin overrun
          /\ e \in Endpoints
      BY <1>0, <1>7, <1>8, <1>11, <2>2 DEF GatewayTypeOK, SessionRow
    <3>2. CASE Unnoticed(e)
      <4>1. managed[e] \in Children \ {p}
        BY <1>0, <1>1, <3>1, <3>2 DEF Unnoticed, GatewayTypeOK
      <4> QED
        BY <1>6, <1>11, <3>2, <4>1 DEF Unnoticed
    <3> QED
      BY <1>0, <3>1, <3>2 DEF OnlineTold
  <2> QED
    BY <2>1, <2>2
<1> QED
  BY <1>6, <1>10, <1>12, <1>14, <1>15, <1>16 DEF GatewayInv

-----------------------------------------------------------------------------
LEMMA GatewayStart == ASSUME GatewayInit PROVE GatewayInv
<1>1. GatewayTypeOK
  <2>1. 0 \in 0 .. MaxFailures + 1 /\ 0 \in 0 .. Capacity
    BY GatewayAssumption
  <2>2. /\ failures \in [Endpoints -> 0 .. MaxFailures + 1] /\ slots \in [Children -> 0 .. Capacity]
        /\ signature \in [Endpoints -> Versions \cup {0}] /\ seen \in [Endpoints -> Versions \cup {0}]
        /\ ending \in [Endpoints -> SyncEndings \cup {"halted", "no"}]
        /\ status \in [Endpoints -> {"stopped", "starting", "listening", "error"}]
    BY <2>1 DEF GatewayInit
  <2> QED
    BY <2>2 DEF GatewayInit, GatewayTypeOK
<1>2. ProcessesFit /\ SyncFits /\ LinksFit /\ OnlineTold
  BY GatewayAssumption DEF GatewayInit, ProcessesFit, SyncFits, SyncEndings, LinksFit, OnlineTold
<1>3. SlotsFit /\ StatusTold
  BY DEF GatewayInit, SlotsFit, StatusTold
<1> QED
  BY <1>1, <1>2, <1>3 DEF GatewayInv

LEMMA GatewayStep == ASSUME GatewayInv, [GatewayNext]_gatewayVars PROVE GatewayInv'
<1>1. CASE \/ \E e \in Endpoints : \/ \E enabled \in BOOLEAN, v \in Versions : Reconfigure(e, enabled, v)
                                   \/ OverflowDelay(e) \/ KeepRunning(e) \/ DelayEnds(e) \/ MissProcess(e)
           \/ BeginStop \/ BeginSync \/ BeginSpawning \/ EndSync
           \/ UNCHANGED gatewayVars
  BY <1>1, QuietStep
<1>2. CASE \E e \in Endpoints : StopDisabled(e) \/ NoticeExit(e) \/ StopChanged(e) \/ StopProcess(e)
  BY <1>2, EndingStep
<1>3. CASE \E e \in Endpoints : UpdateRuntime(e) \/ FailToUpdate(e) \/ FailSync(e)
  BY <1>3, EndedStep
<1>4. CASE StartRuntime \/ EndRuntime
  BY <1>4, StartStep, EndRuntimeStep
<1>10. CASE \E e \in Endpoints : FailToSpawn(e)
  BY <1>10, FailToSpawnStep
<1>5. CASE \E e \in Endpoints, p \in Children : Spawn(e, p)
  BY <1>5, SpawnStep
<1>6. CASE \E p \in Children : Crash(p) \/ LeaveOrphan(p)
  BY <1>6, EndingProcess
<1>7. CASE \E p \in Children : \/ ReadEndpoint(p) \/ Bind(p) \/ FailToBind(p) \/ CloseOrphan(p)
                               \/ LeaveReader(p) \/ FailToConnect(p)
  BY <1>7, MovingProcess
<1>8. CASE \E p \in Children : FailToAccept(p) \/ \E s \in Sessions : AcceptConnection(s, p) \/ ConnectReader(s, p)
  BY <1>8, FailToAcceptStep, AcceptStep, ConnectReaderStep
<1>9. CASE \E s \in Sessions : Finish(s) \/ FailToFinish(s) \/ HangUp(s) \/ LoseReader(s)
  BY <1>9, FinishStep, ReaderEndsStep
<1> QED
  BY <1>1, <1>2, <1>3, <1>4, <1>5, <1>6, <1>7, <1>8, <1>9, <1>10 DEF GatewayNext

\* What a manager, its processes and their connections have in their tables fits
\* together in every state.
THEOREM GatewayInvariant == GatewaySpec => []GatewayInv
<1>1. GatewayInit => GatewayInv
  BY GatewayStart
<1>2. GatewayInv /\ [GatewayNext]_gatewayVars => GatewayInv'
  BY GatewayStep
<1> QED
  BY <1>1, <1>2, PTL DEF GatewaySpec

\* The variables of the gateway have values of their types.
THEOREM GatewayTypes == GatewaySpec => []GatewayTypeOK
<1>1. GatewayInv => GatewayTypeOK
  BY DEF GatewayInv
<1> QED
  BY <1>1, GatewayInvariant, PTL

\* The tables tell the truth of the gateway (machine_gateway_manager.py,
\* machine_socket_server.py, machine_reader_client.py): a session is online while
\* it is served, an endpoint listening while its process is, and the slots hold,
\* but for what outlived a manager, has just ended or could not be written.
THEOREM GatewayTellsTruth == GatewaySpec => []RuntimeTellsTruth
<1>1. ASSUME GatewayInv PROVE RuntimeTellsTruth
  <2>0. GatewayTypeOK /\ LinksFit /\ SlotsFit /\ OnlineTold /\ StatusTold
    BY <1>1 DEF GatewayInv
  <2>1. ASSUME NEW s \in Sessions, link[s] # NoChild
        PROVE  Live(link[s]) /\ child[link[s]].endpoint = session[s].endpoint
    BY <2>0, <2>1 DEF LinksFit, Live
  <2>2. ASSUME NEW p \in Children, Cardinality(ServedBy(p)) > 0
        PROVE  Cardinality(ServedBy(p)) <= IF child[p].kind = "reader" THEN 1 ELSE slots[p]
    <3>1. ServedBy(p) # {}
      BY <2>2, FS_EmptySet
    <3>2. child[p] # NoRow
      BY <2>0, <3>1, RowsAreRows DEF ServedBy, LinksFit
    <3> QED
      BY <2>0, <3>2 DEF SlotsFit
  <2>3. \A p \in Children :
          LET served == Cardinality({s \in Sessions : link[s] = p})
          IN served > 0 => served <= IF child[p].kind = "reader" THEN 1 ELSE slots[p]
    BY <2>2 DEF ServedBy
  <2> QED
    BY <2>0, <2>1, <2>3 DEF RuntimeTellsTruth, OnlineTold, StatusTold, Truthful
<1> QED
  BY <1>1, GatewayInvariant, PTL

-----------------------------------------------------------------------------
(* The bridge does what EventFeed promises.                                *)

\* A row that somebody has claimed is not dispatched.
OwnedIsPending ==
    \A r \in Reports : outbox[r] # NoRow /\ outbox[r].owner # NoCarrier => ~ outbox[r].dispatched

\* The number of a report is its place in the queue.
NumberingFits ==
    /\ \A n \in 1 .. sequence : Numbering[n] \in Numbered /\ NumberOf(Numbering[n]) = n
    /\ \A r \in Numbered : NumberOf(r) \in 1 .. sequence /\ Numbering[NumberOf(r)] = r

Struck == {r \in Reports : outbox[r] # NoRow /\ outbox[r].dispatched}
Void == {r \in Reports : skipped[r] # 0}

LEMMA NumbersFit == BridgeInv => NumberingFits
<1> SUFFICES ASSUME BridgeInv PROVE NumberingFits
  OBVIOUS
<1>1. /\ {NumberOf(r) : r \in Numbered} = 1 .. sequence
      /\ \A r, s \in Numbered : NumberOf(r) = NumberOf(s) => r = s
  BY DEF BridgeInv, Counted
<1>2. ASSUME NEW n \in 1 .. sequence
      PROVE  Numbering[n] \in Numbered /\ NumberOf(Numbering[n]) = n
  <2>1. \E r \in Numbered : NumberOf(r) = n
    BY <1>1
  <2>2. Numbering[n] = CHOOSE r \in Numbered : NumberOf(r) = n
    BY DEF Numbering
  <2> QED
    BY <2>1, <2>2
<1>3. ASSUME NEW r \in Numbered
      PROVE  NumberOf(r) \in 1 .. sequence /\ Numbering[NumberOf(r)] = r
  <2>1. NumberOf(r) \in 1 .. sequence
    BY <1>1
  <2> QED
    BY <1>1, <1>2, <2>1
<1> QED
  BY <1>2, <1>3 DEF NumberingFits

\* The queue is a sequence of the reports that have a number.
LEMMA QueueOfNumbers ==
  ASSUME BridgeInv
  PROVE  /\ sequence \in Nat /\ Numbering \in Seq(Reports) /\ DOMAIN Numbering = 1 .. sequence
         /\ Len(Numbering) = sequence /\ Feed!Queued = Numbered
<1>1. sequence \in Nat /\ NumberingFits
  BY NumbersFit DEF BridgeInv, BridgeTypeOK
<1>2. DOMAIN Numbering = 1 .. sequence
  BY DEF Numbering
<1>3. Numbering \in [1 .. sequence -> Reports]
  <2>1. \A n \in 1 .. sequence : Numbering[n] \in Reports
    BY <1>1 DEF NumberingFits, Numbered
  <2>2. Numbering = [n \in 1 .. sequence |-> Numbering[n]]
    BY DEF Numbering
  <2> QED
    BY <2>1, <2>2
<1>4. Numbering \in Seq(Reports) /\ Len(Numbering) = sequence
  BY <1>1, <1>3
<1>5. Feed!Queued = Numbered
  <2>1. Feed!Queued = {Numbering[n] : n \in 1 .. sequence}
    BY <1>2 DEF Feed!Queued
  <2> QED
    BY <1>1, <2>1 DEF NumberingFits
<1> QED
  BY <1>1, <1>2, <1>4, <1>5

LEMMA FeedStarts == BridgeInit => Feed!FeedInit /\ OwnedIsPending
<1> SUFFICES ASSUME BridgeInit PROVE Feed!FeedInit /\ OwnedIsPending
  OBVIOUS
<1>1. /\ sequence = 0 /\ received = {}
      /\ \A r \in Reports : outbox[r] = NoRow /\ skipped[r] = 0
  BY DEF BridgeInit
<1>2. Numbering = <<>>
  <2>1. 1 .. sequence = {}
    BY <1>1
  <2> QED
    BY <2>1 DEF Numbering
<1> QED
  BY <1>1, <1>2 DEF Feed!FeedInit, OwnedIsPending

\* A step that gives no number leaves the queue as it is.
LEMMA QueueStays ==
  ASSUME BridgeInv, BridgeInv', UNCHANGED <<sequence, skipped>>,
         \A r \in Reports : /\ outbox'[r] # NoRow <=> outbox[r] # NoRow
                            /\ outbox[r] # NoRow => outbox'[r].sequence = outbox[r].sequence
  PROVE  Numbering' = Numbering
<1>1. NumberingFits /\ NumberingFits'
  <2>1. BridgeInv' => NumberingFits'
    BY NumbersFit, PTL
  <2> QED
    BY <2>1, NumbersFit
<1>2. Numbered' = Numbered /\ \A r \in Numbered : NumberOf(r)' = NumberOf(r)
  BY DEF Numbered, NumberOf
<1>3. ASSUME NEW n \in 1 .. sequence PROVE Numbering'[n] = Numbering[n]
  <2>1. PICK r \in Numbered : r = Numbering[n] /\ NumberOf(r) = n
    BY <1>1 DEF NumberingFits
  <2>2. r \in Numbered' /\ NumberOf(r)' = n
    BY <1>2, <2>1
  <2> QED
    BY <1>1, <2>1, <2>2 DEF NumberingFits
<1>4. Numbering' = [n \in 1 .. sequence |-> Numbering'[n]] /\ Numbering = [n \in 1 .. sequence |-> Numbering[n]]
  BY DEF Numbering
<1> QED
  BY <1>3, <1>4

\* A step that leaves the rows alone but for their leases.
LEMMA LeaseRefines ==
  ASSUME BridgeInv, BridgeInv', UNCHANGED <<sequence, skipped, received>>,
         \A r \in Reports :
            /\ outbox'[r] # NoRow <=> outbox[r] # NoRow
            /\ outbox[r] # NoRow => /\ outbox'[r].sequence = outbox[r].sequence
                                    /\ outbox'[r].dispatched = outbox[r].dispatched
  PROVE  UNCHANGED Feed!feedVars
<1>1. Numbering' = Numbering
  BY QueueStays
<1>2. Struck' = Struck /\ Void' = Void
  BY DEF Struck, Void
<1> QED
  BY <1>1, <1>2 DEF Feed!feedVars, Struck, Void

\* A step that gives report r the next number adds it to the queue.
LEMMA QueueGrows ==
  ASSUME BridgeInv, BridgeInv', NEW r \in Reports, r \notin Numbered,
         sequence' = sequence + 1,
         \A s \in Reports \ {r} : outbox'[s] = outbox[s] /\ skipped'[s] = skipped[s],
         r \in Numbered', NumberOf(r)' = sequence + 1
  PROVE  Numbering' = Append(Numbering, r) /\ r \notin Feed!Queued
<1>1. NumberingFits /\ NumberingFits'
  <2>1. BridgeInv' => NumberingFits'
    BY NumbersFit, PTL
  <2> QED
    BY <2>1, NumbersFit
<1>2. sequence \in Nat /\ Numbering \in Seq(Reports) /\ Len(Numbering) = sequence /\ Feed!Queued = Numbered
  BY QueueOfNumbers
<1>3. Numbering'[sequence + 1] = r
  BY <1>1 DEF NumberingFits
<1>4. ASSUME NEW n \in 1 .. sequence PROVE Numbering'[n] = Numbering[n]
  <2>1. PICK s \in Numbered : s = Numbering[n] /\ NumberOf(s) = n
    BY <1>1 DEF NumberingFits
  <2>2. s \in Numbered' /\ NumberOf(s)' = n
    BY <2>1 DEF Numbered, NumberOf
  <2> QED
    BY <1>1, <2>1, <2>2 DEF NumberingFits
<1>5. Numbering' = [n \in 1 .. sequence + 1 |-> Numbering'[n]]
  BY DEF Numbering
<1>6. /\ Append(Numbering, r) \in Seq(Reports) /\ Len(Append(Numbering, r)) = sequence + 1
      /\ \A n \in 1 .. sequence : Append(Numbering, r)[n] = Numbering[n]
      /\ Append(Numbering, r)[sequence + 1] = r
  BY <1>2, AppendProperties
<1>7. Append(Numbering, r) = [n \in 1 .. sequence + 1 |-> Append(Numbering, r)[n]]
  <2> DEFINE longer == Append(Numbering, r)
  <2>1. longer \in Seq(Reports) /\ Len(longer) = sequence + 1
    BY <1>6
  <2> HIDE DEF longer
  <2>2. longer \in [1 .. sequence + 1 -> Reports]
    BY <2>1, LenProperties
  <2>3. longer = [n \in 1 .. sequence + 1 |-> longer[n]]
    BY ONLY <2>2
  <2> QED
    BY <2>3 DEF longer
<1>8. ASSUME NEW n \in 1 .. sequence + 1 PROVE Numbering'[n] = Append(Numbering, r)[n]
  <2>1. n = sequence + 1 \/ n \in 1 .. sequence
    BY <1>2
  <2> QED
    BY <1>3, <1>4, <1>6, <2>1
<1>9. Numbering' = Append(Numbering, r)
  BY <1>5, <1>7, <1>8
<1> QED
  BY <1>2, <1>9

LEMMA EnqueueRefines ==
  ASSUME BridgeInv, BridgeInv', OwnedIsPending, NEW c \in Carriers, Enqueue(c)
  PROVE  Feed!FeedNext /\ OwnedIsPending'
<1>1. PICK r \in Reports :
         /\ r = carrying[c].report /\ r \notin Numbered
         /\ outbox' = [outbox EXCEPT ![r] = [sequence |-> sequence + 1, dispatched |-> FALSE,
                                             owner |-> NoCarrier, leased |-> FALSE]]
         /\ sequence' = sequence + 1 /\ UNCHANGED <<received, skipped>>
  BY CarriedRow DEF Enqueue, Is, BridgeInv, CarriersKnow
<1>2. /\ outbox'[r] = [sequence |-> sequence + 1, dispatched |-> FALSE, owner |-> NoCarrier, leased |-> FALSE]
      /\ \A s \in Reports \ {r} : outbox'[s] = outbox[s]
  BY <1>1 DEF BridgeInv, BridgeTypeOK
<1>3. outbox'[r] # NoRow /\ outbox[r] = NoRow
  <2>1. outbox'[r] \in Outbox \cup {NoRow} /\ sequence \in Nat
    BY DEF BridgeInv, BridgeTypeOK
  <2>2. outbox'[r] \in Outbox
    BY <1>2, <2>1 DEF Outbox
  <2> QED
    BY <1>1, <2>2, BridgeRowAssumption DEF Numbered
<1>4. Numbering' = Append(Numbering, r) /\ r \notin Feed!Queued
  <2>1. r \in Numbered' /\ NumberOf(r)' = sequence + 1
    BY <1>2, <1>3 DEF Numbered, NumberOf
  <2>2. \A s \in Reports \ {r} : outbox'[s] = outbox[s] /\ skipped'[s] = skipped[s]
    BY <1>1, <1>2
  <2> QED
    BY <1>1, <2>1, <2>2, QueueGrows
<1>5. Struck' = Struck /\ Void' = Void
  BY <1>1, <1>2, <1>3 DEF Struck, Void
<1>6. Feed!Queue(r)
  BY <1>1, <1>4, <1>5 DEF Feed!Queue, Struck, Void
<1>7. OwnedIsPending'
  BY <1>2 DEF OwnedIsPending
<1> QED
  BY <1>6, <1>7 DEF Feed!FeedNext

\* A number stored without its event leaves a place void.
LEMMA FailToEnqueueRefines ==
  ASSUME BridgeInv, BridgeInv', OwnedIsPending, NEW c \in Carriers, FailToEnqueue(c)
  PROVE  [Feed!FeedNext]_(Feed!feedVars) /\ OwnedIsPending'
<1>1. PICK r \in Reports :
         /\ r = carrying[c].report /\ r \notin Numbered
         /\ \/ UNCHANGED <<sequence, skipped>>
            \/ sequence' = sequence + 1 /\ skipped' = [skipped EXCEPT ![r] = sequence + 1]
         /\ UNCHANGED <<outbox, received>>
  BY CarriedRow DEF FailToEnqueue, Is, BridgeInv, CarriersKnow
<1>2. OwnedIsPending'
  BY <1>1 DEF OwnedIsPending
<1>3. CASE UNCHANGED <<sequence, skipped>>
  BY <1>1, <1>2, <1>3, LeaseRefines
<1>4. CASE sequence' = sequence + 1 /\ skipped' = [skipped EXCEPT ![r] = sequence + 1]
  <2>1. /\ skipped'[r] = sequence + 1 /\ sequence \in Nat
        /\ \A s \in Reports \ {r} : outbox'[s] = outbox[s] /\ skipped'[s] = skipped[s]
    BY <1>1, <1>4 DEF BridgeInv, BridgeTypeOK
  <2>2. r \in Numbered' /\ NumberOf(r)' = sequence + 1
    BY <1>1, <2>1 DEF Numbered, NumberOf
  <2>3. Numbering' = Append(Numbering, r) /\ r \notin Feed!Queued
    BY <1>1, <1>4, <2>1, <2>2, QueueGrows
  <2>4. Struck' = Struck /\ Void' = Void \cup {r}
    BY <1>1, <2>1 DEF Struck, Void
  <2>5. Feed!Skip(r)
    BY <1>1, <2>3, <2>4 DEF Feed!Skip, Struck, Void
  <2> QED
    BY <1>2, <2>5 DEF Feed!FeedNext
<1> QED
  BY <1>1, <1>3, <1>4

LEMMA ClaimRefines ==
  ASSUME BridgeInv, BridgeInv', OwnedIsPending, NEW c \in Carriers, ClaimEvent(c)
  PROVE  UNCHANGED Feed!feedVars /\ OwnedIsPending'
<1>1. CASE UNCHANGED outbox
  <2>1. UNCHANGED <<outbox, sequence, received, skipped>>
    BY <1>1 DEF ClaimEvent
  <2> QED
    BY <2>1, LeaseRefines DEF OwnedIsPending
<1>2. CASE outbox' # outbox
  <2>1. PICK r \in Reports :
           /\ Undispatched(r)
           /\ outbox' = [outbox EXCEPT ![r].owner = c, ![r].leased = TRUE]
           /\ UNCHANGED <<sequence, received, skipped>>
    BY <1>2, CarriedRow DEF ClaimEvent, Is
  <2>2. outbox[r] \in Outbox /\ ~ outbox[r].dispatched
    BY <2>1 DEF Undispatched, BridgeInv, BridgeTypeOK
  <2>3. /\ outbox'[r] = [outbox[r] EXCEPT !.owner = c, !.leased = TRUE]
        /\ \A s \in Reports \ {r} : outbox'[s] = outbox[s]
    BY <2>1 DEF BridgeInv, BridgeTypeOK
  <2>4. /\ outbox'[r] \in Outbox /\ outbox'[r].sequence = outbox[r].sequence
        /\ outbox'[r].dispatched = outbox[r].dispatched
    BY <2>2, <2>3 DEF Outbox
  <2>5. \A s \in Reports :
            /\ outbox'[s] # NoRow <=> outbox[s] # NoRow
            /\ outbox[s] # NoRow => /\ outbox'[s].sequence = outbox[s].sequence
                                    /\ outbox'[s].dispatched = outbox[s].dispatched
    BY <2>2, <2>3, <2>4, BridgeRowAssumption
  <2>6. UNCHANGED Feed!feedVars
    BY <2>1, <2>5, LeaseRefines
  <2>7. OwnedIsPending'
    BY <2>2, <2>3, <2>4 DEF OwnedIsPending
  <2> QED
    BY <2>6, <2>7
<1> QED
  BY <1>1, <1>2

LEMMA LeaseEndRefines ==
  ASSUME BridgeInv, BridgeInv', OwnedIsPending, NEW r \in Reports, LeaseEnds(r)
  PROVE  UNCHANGED Feed!feedVars /\ OwnedIsPending'
<1>1. /\ outbox[r] \in Outbox
      /\ outbox'[r] = [outbox[r] EXCEPT !.leased = FALSE]
      /\ \A s \in Reports \ {r} : outbox'[s] = outbox[s]
      /\ UNCHANGED <<sequence, received, skipped>>
  BY DEF LeaseEnds, BridgeInv, BridgeTypeOK
<1>2. /\ outbox'[r] \in Outbox /\ outbox'[r].sequence = outbox[r].sequence
      /\ outbox'[r].dispatched = outbox[r].dispatched /\ outbox'[r].owner = outbox[r].owner
  BY <1>1 DEF Outbox
<1>3. \A s \in Reports :
          /\ outbox'[s] # NoRow <=> outbox[s] # NoRow
          /\ outbox[s] # NoRow => /\ outbox'[s].sequence = outbox[s].sequence
                                  /\ outbox'[s].dispatched = outbox[s].dispatched
  BY <1>1, <1>2, BridgeRowAssumption
<1>4. OwnedIsPending'
  BY <1>1, <1>2, BridgeRowAssumption DEF OwnedIsPending
<1> QED
  BY <1>1, <1>3, <1>4, LeaseRefines

\* What the platform accepts has a row; again if it had accepted it before.
LEMMA SinkRefines ==
  ASSUME BridgeInv, BridgeInv', OwnedIsPending, NEW c \in Carriers, SinkTakes(c)
  PROVE  [Feed!FeedNext]_(Feed!feedVars) /\ OwnedIsPending'
<1>1. PICK r \in Reports : /\ r = carrying[c].report /\ outbox[r] # NoRow
                           /\ received' = received \cup {r} /\ UNCHANGED <<sequence, outbox, skipped>>
  BY CarriedRow DEF SinkTakes, Is, BridgeInv, CarriersKnow
<1>2. Numbering' = Numbering /\ Struck' = Struck /\ Void' = Void
  <2>1. Numbering' = Numbering
    BY <1>1, QueueStays
  <2> QED
    BY <1>1, <2>1 DEF Struck, Void
<1>3. CASE r \in received
  <2>1. received' = received
    BY <1>1, <1>3
  <2> QED
    BY <1>1, <1>2, <2>1 DEF Feed!feedVars, Struck, Void, OwnedIsPending
<1>4. CASE r \notin received
  <2>1. r \notin Struck /\ r \notin Void
    BY <1>1, <1>4 DEF Struck, Void, BridgeInv, Carried, Stored, CarriersKnow
  <2>2. r \in Feed!Queued
    BY <1>1, QueueOfNumbers DEF Numbered
  <2>3. Feed!Receive(r)
    BY <1>1, <1>2, <2>1, <2>2 DEF Feed!Receive, Struck, Void
  <2> QED
    BY <1>1, <2>3 DEF Feed!FeedNext, OwnedIsPending
<1> QED
  BY <1>3, <1>4

\* A row is settled only by the carrier it belongs to, so it was pending.
LEMMA SettleRefines ==
  ASSUME BridgeInv, BridgeInv', OwnedIsPending, NEW c \in Carriers, Settle(c)
  PROVE  [Feed!FeedNext]_(Feed!feedVars) /\ OwnedIsPending'
<1>1. PICK r \in Reports :
         /\ r = carrying[c].report /\ outbox[r] # NoRow
         /\ Is(c, "taken") => r \in received
         /\ UNCHANGED <<sequence, received, skipped>>
  BY CarriedRow DEF Settle, Is, BridgeInv, CarriersKnow
<1>2. CASE outbox[r].owner # c
  <2>1. outbox' = outbox
    BY <1>1, <1>2 DEF Settle
  <2>2. UNCHANGED Feed!feedVars
    BY <1>1, <2>1, LeaseRefines
  <2> QED
    BY <2>1, <2>2 DEF OwnedIsPending
<1>3. CASE outbox[r].owner = c
  <2> DEFINE taken == Is(c, "taken")
  <2>1. outbox[r] \in Outbox /\ ~ outbox[r].dispatched /\ taken \in BOOLEAN
    BY <1>1, <1>3, BridgeAssumption DEF OwnedIsPending, BridgeInv, BridgeTypeOK, Is
  <2>2. outbox' = [outbox EXCEPT ![r].dispatched = taken, ![r].owner = NoCarrier, ![r].leased = FALSE]
    BY <1>1, <1>3 DEF Settle
  <2> HIDE DEF taken
  <2>3. /\ outbox'[r] = [outbox[r] EXCEPT !.dispatched = taken, !.owner = NoCarrier, !.leased = FALSE]
        /\ \A s \in Reports \ {r} : outbox'[s] = outbox[s]
    BY <2>2 DEF BridgeInv, BridgeTypeOK
  <2>4. /\ outbox'[r] \in Outbox /\ outbox'[r].sequence = outbox[r].sequence
        /\ outbox'[r].dispatched = taken /\ outbox'[r].owner = NoCarrier
    BY <2>1, <2>3 DEF Outbox
  <2>5. outbox'[r] # NoRow
    BY <2>4, BridgeRowAssumption
  <2>6. OwnedIsPending'
    BY <2>3, <2>4 DEF OwnedIsPending
  <2>7. Numbering' = Numbering
    <3>1. \A s \in Reports : /\ outbox'[s] # NoRow <=> outbox[s] # NoRow
                             /\ outbox[s] # NoRow => outbox'[s].sequence = outbox[s].sequence
      BY <1>1, <2>3, <2>4, <2>5
    <3> QED
      BY <1>1, <3>1, QueueStays
  <2>8. CASE taken
    <3>1. Struck' = Struck \cup {r}
      BY <2>3, <2>4, <2>5, <2>8 DEF Struck
    <3>2. r \in received
      BY <1>1, <2>8 DEF taken
    <3>3. Feed!Strike(r)
      BY <1>1, <2>7, <3>1, <3>2 DEF Feed!Strike, Struck, Void
    <3> QED
      BY <2>6, <3>3 DEF Feed!FeedNext
  <2>9. CASE ~ taken
    <3>1. Struck' = Struck
      BY <2>1, <2>3, <2>4, <2>9 DEF Struck
    <3> QED
      BY <1>1, <2>6, <2>7, <3>1 DEF Feed!feedVars, Struck, Void
  <2> QED
    BY <2>8, <2>9
<1> QED
  BY <1>2, <1>3

\* Every step of the bridge is a step of the feed, or none.
LEMMA FeedStep ==
  BridgeInv /\ BridgeInv' /\ OwnedIsPending /\ [BridgeNext]_bridgeVars
     => [Feed!FeedNext]_(Feed!feedVars) /\ OwnedIsPending'
<1> SUFFICES ASSUME BridgeInv, BridgeInv', OwnedIsPending, [BridgeNext]_bridgeVars
             PROVE  [Feed!FeedNext]_(Feed!feedVars) /\ OwnedIsPending'
  OBVIOUS
<1>1. ASSUME UNCHANGED <<outbox, sequence, received, skipped>>
      PROVE  UNCHANGED Feed!feedVars /\ OwnedIsPending'
  BY <1>1, LeaseRefines DEF OwnedIsPending
<1>2. ASSUME NEW c \in Carriers, NEW r \in Reports, ImportReport(c, r) \/ ChooseEvent(c, r)
      PROVE  UNCHANGED <<outbox, sequence, received, skipped>>
  BY <1>2 DEF ImportReport, ChooseEvent
<1>3. ASSUME NEW c \in Carriers, StopCarrier(c) \/ SinkRefuses(c)
      PROVE  UNCHANGED <<outbox, sequence, received, skipped>>
  BY <1>3 DEF StopCarrier, SinkRefuses
<1>4. CASE UNCHANGED bridgeVars
  <2>1. UNCHANGED <<outbox, sequence, received, skipped>>
    BY <1>4 DEF bridgeVars
  <2> QED
    BY <1>1, <2>1
<1>5. CASE BridgeNext
  <2>1. CASE \E c \in Carriers, r \in Reports : ImportReport(c, r) \/ ChooseEvent(c, r)
    BY <1>1, <1>2, <2>1
  <2>2. CASE \E c \in Carriers : StopCarrier(c) \/ SinkRefuses(c)
    BY <1>1, <1>3, <2>2
  <2>3. CASE \E c \in Carriers : Enqueue(c)
    BY <2>3, EnqueueRefines
  <2>4. CASE \E c \in Carriers : ClaimEvent(c)
    BY <2>4, ClaimRefines
  <2>5. CASE \E c \in Carriers : SinkTakes(c)
    BY <2>5, SinkRefines
  <2>6. CASE \E c \in Carriers : Settle(c)
    BY <2>6, SettleRefines
  <2>7. CASE \E r \in Reports : LeaseEnds(r)
    BY <2>7, LeaseEndRefines
  <2>8. CASE \E c \in Carriers : FailToEnqueue(c)
    BY <2>8, FailToEnqueueRefines
  <2> QED
    BY <1>5, <2>1, <2>2, <2>3, <2>4, <2>5, <2>6, <2>7, <2>8 DEF BridgeNext
<1> QED
  BY <1>4, <1>5

\* For any reports and carriers, whatever leases end and whoever dies, the
\* bridge (services/aim_event_bridge.py) is a feed: reports are queued once, in
\* the order of their numbers, a number that was used up without an event stays
\* void, only an event that is queued is received, and what is dispatched stays
\* so.
THEOREM BridgeRefines == BridgeSpec => ImplementsEventFeed
<1>1. BridgeInit => Feed!FeedInit /\ OwnedIsPending
  BY FeedStarts
<1>2. BridgeInv /\ BridgeInv' /\ OwnedIsPending /\ [BridgeNext]_bridgeVars
         => [Feed!FeedNext]_(Feed!feedVars) /\ OwnedIsPending'
  BY FeedStep
<1> QED
  BY <1>1, <1>2, BridgeInvariant, PTL DEF BridgeSpec, ImplementsEventFeed, Feed!FeedSpec
=============================================================================
