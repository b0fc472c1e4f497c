-------------------------- MODULE CommandQueueProofs --------------------------
EXTENDS CommandQueue, Sums, SequenceTheorems

USE CommandAssumption DEF Known

-----------------------------------------------------------------------------
(* The invariant.                                                          *)

\* No two rows have the same command_id, and a command has a status once it
\* has a row.
RowsUnique ==
    /\ \A c, k \in Commands : Known(c) /\ Known(k) /\ CommandId[c] = CommandId[k] => c = k
    /\ \A c \in Commands : status[c] = "none" <=> ~ Known(c)

\* What is not ended was not answered, and what is leased carries the token of
\* its latest hand-out.
LeaseIsLatest ==
    /\ \A c \in Commands : status[c] \in {"none", "queued", "leased"} => answeredBy[c] = 0
    /\ \A c \in Commands : status[c] = "leased" => token[c] = attempts[c] /\ attempts[c] > 0

\* An audit event tells what became of its command, and there is one of it.
AuditsTell ==
    /\ \A a \in Events : Ingested(a) => Known(a.command) /\ status[a.command] = a.outcome
    /\ \A a, b \in Events : Ingested(a) /\ Ingested(b) /\ a.command = b.command => a = b

\* The audit events of a device are numbered up to its cursor.
AuditsNumbered ==
    /\ \A a \in Events : Ingested(a) => a.sequence \in 1 .. cursor[DeviceOf[a.command]]
    /\ \A d \in Devices : \A n \in 1 .. cursor[d] :
          \E a \in Events : Ingested(a) /\ DeviceOf[a.command] = d /\ a.sequence = n
    /\ \A a, b \in Events : /\ Ingested(a) /\ Ingested(b)
                            /\ DeviceOf[a.command] = DeviceOf[b.command] /\ a.sequence = b.sequence
                            => a = b

QueueInv ==
    TypeOK /\ RowsUnique /\ LeaseIsLatest /\ AuditsTell /\ AuditsNumbered /\ AuditStreamsComplete

-----------------------------------------------------------------------------
(* Audit events.                                                           *)

\* What an audit event is to ingestion.
LEMMA EventFacts ==
  /\ Streams = Devices
  /\ \A a \in Events :
        /\ a.command \in Commands /\ a.outcome \in Outcomes
        /\ a.sequence \in 1 .. Cardinality(Commands) /\ a.sequence \in Nat
        /\ StreamOf[a] = DeviceOf[a.command] /\ StreamOf[a] \in Devices /\ SequenceOf[a] = a.sequence
        /\ EventId[a] = <<CommandId[a.command], a.outcome>>
        /\ a = Audit(a.command, a.outcome, a.sequence)
<1>1. Streams = Devices
  BY AuditAssumption
<1>2. ASSUME NEW a \in Events
      PROVE  /\ a.command \in Commands /\ a.outcome \in Outcomes
             /\ a.sequence \in 1 .. Cardinality(Commands)
             /\ a = Audit(a.command, a.outcome, a.sequence)
  <2>1. PICK c \in Commands, o \in Outcomes, n \in 1 .. Cardinality(Commands) : a = Audit(c, o, n)
    BY AuditAssumption DEF AuditEvents
  <2> QED
    BY <2>1 DEF Audit
<1>3. Cardinality(Commands) \in Nat
  BY FS_CardinalityType
<1>4. ASSUME NEW a \in Events
      PROVE  /\ StreamOf[a] = DeviceOf[a.command] /\ StreamOf[a] \in Devices /\ SequenceOf[a] = a.sequence
             /\ EventId[a] = <<CommandId[a.command], a.outcome>> /\ a.sequence \in Nat
  <2>1. a \in AuditEvents
    BY AuditAssumption
  <2>2. StreamOf[a] = DeviceOf[a.command]
    BY <2>1, AuditAssumption DEF AuditStream
  <2>3. SequenceOf[a] = a.sequence
    BY <2>1, AuditAssumption DEF AuditSequence
  <2>4. EventId[a] = <<CommandId[a.command], a.outcome>>
    BY <2>1, AuditAssumption DEF AuditId
  <2> QED
    BY <1>2, <1>3, <2>2, <2>3, <2>4
<1> QED
  BY <1>1, <1>2, <1>4

\* An event with a number that is not too large can be ingested.
LEMMA AuditIsEvent ==
  ASSUME NEW c \in Commands, NEW o \in Outcomes, NEW n \in 1 .. Cardinality(Commands)
  PROVE  /\ Audit(c, o, n) \in Events
         /\ Audit(c, o, n).command = c /\ Audit(c, o, n).outcome = o /\ Audit(c, o, n).sequence = n
<1>1. Audit(c, o, n) \in AuditEvents
  BY DEF AuditEvents
<1>2. Audit(c, o, n).command = c /\ Audit(c, o, n).outcome = o /\ Audit(c, o, n).sequence = n
  BY DEF Audit
<1> QED
  BY <1>1, <1>2, AuditAssumption

\* The audit event of device d that has number n.
AuditAt(d, n) == CHOOSE a \in Events : Ingested(a) /\ StreamOf[a] = d /\ a.sequence = n
AuditFound == \A d \in Devices : \A n \in 1 .. cursor[d] :
                  /\ AuditAt(d, n) \in Events /\ Ingested(AuditAt(d, n))
                  /\ DeviceOf[AuditAt(d, n).command] = d /\ AuditAt(d, n).sequence = n
AuditUnique == \A a \in Events : \A d, n : Ingested(a) /\ DeviceOf[a.command] = d /\ a.sequence = n =>
                  AuditAt(d, n) = a

LEMMA AuditsFound == AuditsNumbered => AuditFound /\ AuditUnique
<1> SUFFICES ASSUME AuditsNumbered PROVE AuditFound /\ AuditUnique
  OBVIOUS
<1>1. AuditFound
  <2> SUFFICES ASSUME NEW d \in Devices, NEW n \in 1 .. cursor[d]
               PROVE  /\ AuditAt(d, n) \in Events /\ Ingested(AuditAt(d, n))
                      /\ DeviceOf[AuditAt(d, n).command] = d /\ AuditAt(d, n).sequence = n
    BY DEF AuditFound
  <2>1. \E a \in Events : Ingested(a) /\ StreamOf[a] = d /\ a.sequence = n
    BY EventFacts DEF AuditsNumbered
  <2>2. AuditAt(d, n) \in Events /\ Ingested(AuditAt(d, n)) /\ StreamOf[AuditAt(d, n)] = d
        /\ AuditAt(d, n).sequence = n
    BY <2>1 DEF AuditAt
  <2> QED
    BY <2>2, EventFacts
<1>2. AuditUnique
  <2> SUFFICES ASSUME NEW a \in Events, NEW d, NEW n, Ingested(a), DeviceOf[a.command] = d, a.sequence = n
               PROVE  AuditAt(d, n) = a
    BY DEF AuditUnique
  <2>1. StreamOf[a] = d
    BY EventFacts
  <2>2. AuditAt(d, n) \in Events /\ Ingested(AuditAt(d, n)) /\ StreamOf[AuditAt(d, n)] = d
        /\ AuditAt(d, n).sequence = n
    BY <2>1 DEF AuditAt
  <2> QED
    BY <2>2, EventFacts DEF AuditsNumbered
<1> QED
  BY <1>1, <1>2

\* The next number of a device is the one after its cursor.
LEMMA NextIsNext ==
  ASSUME TypeOK, AuditsNumbered, NEW d \in Devices
  PROVE  NextSequence(d) = cursor[d] + 1
<1> DEFINE S == {0} \union {e.sequence : e \in {a \in Events : Ingested(a) /\ StreamOf[a] = d}}
<1>1. cursor[d] \in Nat
  BY EventFacts DEF TypeOK, IngestTypeOK
<1>2. S = 0 .. cursor[d]
  <2>1. \A x \in S : x \in 0 .. cursor[d]
    <3> TAKE x \in S
    <3>1. CASE x = 0
      BY <1>1, <3>1
    <3>2. ASSUME NEW e \in Events, Ingested(e), StreamOf[e] = d, x = e.sequence PROVE x \in 0 .. cursor[d]
      BY <1>1, <3>2, EventFacts DEF AuditsNumbered
    <3> QED
      BY <3>1, <3>2
  <2>2. \A x \in 0 .. cursor[d] : x \in S
    <3> TAKE x \in 0 .. cursor[d]
    <3>1. CASE x \in 1 .. cursor[d]
      <4>1. PICK a \in Events : Ingested(a) /\ DeviceOf[a.command] = d /\ a.sequence = x
        BY <3>1 DEF AuditsNumbered
      <4>2. StreamOf[a] = d
        BY <4>1, EventFacts
      <4> QED
        BY <4>1, <4>2
    <3>2. CASE x = 0
      BY <3>2
    <3> QED
      BY <1>1, <3>1, <3>2
  <2> HIDE DEF S
  <2> QED
    BY <2>1, <2>2
<1> HIDE DEF S
<1>3. Max(S) = cursor[d]
  <2>1. cursor[d] \in S /\ \A y \in S : cursor[d] >= y
    BY <1>1, <1>2
  <2>2. \A x \in S : (\A y \in S : x >= y) => x = cursor[d]
    BY <1>1, <1>2, <2>1
  <2> QED
    BY <2>1, <2>2 DEF Max
<1> QED
  BY <1>3 DEF NextSequence, S

\* There is a number left for a command that is not ended.
LEMMA NumberLeft ==
  ASSUME TypeOK, AuditsTell, AuditsNumbered, NEW c \in Commands, status[c] = "leased"
  PROVE  cursor[DeviceOf[c]] + 1 \in 1 .. Cardinality(Commands)
<1> DEFINE d == DeviceOf[c]
           N == 1 .. cursor[d]
           f == [n \in N |-> AuditAt(d, n).command]
<1>1. d \in Devices /\ cursor[d] \in Nat
  BY EventFacts DEF TypeOK, IngestTypeOK
<1>2. \A n \in N : /\ AuditAt(d, n) \in Events /\ Ingested(AuditAt(d, n)) /\ AuditAt(d, n).sequence = n
                   /\ AuditAt(d, n).command \in Commands
  BY <1>1, AuditsFound, EventFacts DEF AuditFound
<1>3. \A n \in N : f[n] \in Commands \ {c}
  <2> TAKE n \in N
  <2>1. status[AuditAt(d, n).command] \in Outcomes
    BY <1>2, EventFacts DEF AuditsTell
  <2>2. "leased" \notin Outcomes
    OBVIOUS
  <2> QED
    BY <1>2, <2>1, <2>2
<1>4. \A n, m \in N : f[n] = f[m] => n = m
  BY <1>2 DEF AuditsTell
<1>5. f \in Injection(N, Commands \ {c})
  <2>1. f \in [N -> Commands \ {c}]
    BY <1>3
  <2> HIDE DEF f, N
  <2> QED
    BY <1>4, <2>1 DEF Injection, IsInjective
<1>6. IsFiniteSet(Commands \ {c}) /\ Cardinality(Commands \ {c}) = Cardinality(Commands) - 1
      /\ Cardinality(Commands) \in Nat
  BY FS_RemoveElement, FS_CardinalityType
<1>7. Cardinality(N) <= Cardinality(Commands \ {c})
  <2> HIDE DEF f, N
  <2> QED
    BY <1>5, <1>6, FS_Injection
<1>8. Cardinality(N) = cursor[d]
  BY <1>1, FS_Interval
<1> QED
  BY <1>1, <1>6, <1>7, <1>8

-----------------------------------------------------------------------------
(* The steps.                                                              *)

\* The parts of the invariant that are about ingestion alone stay when only
\* commands change that have no audit event.
LEMMA AuditsStay ==
  ASSUME QueueInv, ingestVars' = ingestVars,
         \A c \in Commands : status[c] \in Outcomes => status'[c] = status[c],
         \A c \in Commands : Known(c) => Known(c)'
  PROVE  AuditsTell' /\ AuditsNumbered' /\ AuditStreamsComplete'
<1>1. rowId' = rowId /\ cursor' = cursor /\ openGaps' = openGaps /\ resolvedGaps' = resolvedGaps
      /\ refused' = refused
  BY DEF ingestVars
<1>2. \A a \in Events : Ingested(a)' <=> Ingested(a)
  BY <1>1 DEF Ingested
<1>3. AuditsTell'
  <2>1. ASSUME NEW a \in Events, Ingested(a) PROVE Known(a.command)' /\ status'[a.command] = a.outcome
    BY <2>1, EventFacts DEF QueueInv, AuditsTell
  <2> QED
    BY <1>2, <2>1 DEF QueueInv, AuditsTell
<1>4. AuditsNumbered'
  BY <1>1, <1>2 DEF QueueInv, AuditsNumbered
<1>5. AuditStreamsComplete'
  BY <1>1 DEF QueueInv, AuditStreamsComplete
<1> QED
  BY <1>3, <1>4, <1>5

LEMMA IngestTypesStay == ASSUME IngestTypeOK, ingestVars' = ingestVars PROVE IngestTypeOK'
BY DEF IngestTypeOK, ingestVars

LEMMA EnqueueStep ==
  ASSUME QueueInv, NEW c \in Commands, Enqueue(c)
  PROVE  QueueInv' /\ status[c] = "none" /\ status' = [status EXCEPT ![c] = "queued"]
<1>0. TypeOK /\ RowsUnique /\ LeaseIsLatest
  BY DEF QueueInv
<1> DEFINE m == 1 + Cardinality({k \in Commands : Known(k)})
<1>1. m \in Nat /\ m > 0
  <2>1. IsFiniteSet({k \in Commands : Known(k)})
    BY FS_Subset
  <2>2. Cardinality({k \in Commands : Known(k)}) \in Nat
    BY <2>1, FS_CardinalityType
  <2> QED
    BY <2>2
<1>2. /\ row' = [row EXCEPT ![c] = m] /\ status' = [status EXCEPT ![c] = "queued"]
      /\ UNCHANGED <<attempts, owner, token, leased, overdue, claims, answeredBy>> /\ ingestVars' = ingestVars
  BY DEF Enqueue, leaseVars
<1> HIDE DEF m
<1>3. \A k \in Commands : Known(k) => CommandId[k] # CommandId[c]
  BY DEF Enqueue
<1>4. ~ Known(c) /\ status[c] = "none"
  BY <1>0, <1>3 DEF RowsUnique
<1>5. TypeOK'
  <2>1. IngestTypeOK'
    BY <1>0, <1>2, IngestTypesStay DEF TypeOK
  <2> QED
    BY <1>0, <1>1, <1>2, <2>1 DEF TypeOK
<1>6. \A k \in Commands \ {c} : (Known(k)' <=> Known(k)) /\ status'[k] = status[k]
  BY <1>0, <1>2 DEF TypeOK
<1>7. Known(c)' /\ status'[c] = "queued"
  BY <1>0, <1>1, <1>2 DEF TypeOK
<1>8. RowsUnique'
  BY <1>0, <1>3, <1>6, <1>7 DEF RowsUnique
<1>9. LeaseIsLatest'
  BY <1>0, <1>2, <1>4, <1>6, <1>7 DEF LeaseIsLatest
<1>10. AuditsTell' /\ AuditsNumbered' /\ AuditStreamsComplete'
  <2>1. \A k \in Commands : status[k] \in Outcomes => status'[k] = status[k]
    BY <1>4, <1>6
  <2>2. \A k \in Commands : Known(k) => Known(k)'
    BY <1>6, <1>7
  <2> QED
    BY <1>2, <2>1, <2>2, AuditsStay
<1> QED
  BY <1>2, <1>4, <1>5, <1>8, <1>9, <1>10 DEF QueueInv

\* What a claim does to the commands it hands out, to those it ends, and to
\* the others, whose lease it may take back.
LEMMA ClaimDoes ==
  ASSUME TypeOK, NEW w \in WorkerIds, NEW D, Claim(w, D)
  PROVE  /\ TypeOK' /\ UNCHANGED <<row, overdue, answeredBy>> /\ ingestVars' = ingestVars
         /\ \E out, late \in SUBSET Commands :
               /\ \A c \in out : /\ status[c] \in {"queued", "leased"} /\ c \notin overdue /\ c \notin late
                                 /\ status'[c] = "leased" /\ attempts'[c] = attempts[c] + 1
                                 /\ token'[c] = attempts[c] + 1
               /\ \A c \in late : /\ status[c] \in {"queued", "leased"} /\ c \in overdue
                                  /\ status'[c] = "expired" /\ attempts'[c] = attempts[c]
               /\ \A c \in Commands \ (out \cup late) :
                     /\ attempts'[c] = attempts[c]
                     /\ \/ status[c] = "leased" /\ status'[c] = "queued"
                        \/ status'[c] = status[c] /\ token'[c] = token[c]
<1> DEFINE back == {c \in Commands : LeaseOver(c)}
           queued == {c \in Commands : status[c] = "queued" \/ c \in back}
           asked == {c \in queued : DeviceOf[c] \in D}
           taken == {c \in asked : Cardinality({k \in asked : row[k] < row[c]}) < Limit}
           given == taken \ overdue
           freed == back \ given
           lapsed == taken \intersect overdue
<1>1. /\ status' = [c \in Commands |->
                    CASE c \in given -> "leased"
                      [] c \in taken \intersect overdue -> "expired"
                      [] c \in back \ taken -> "queued"
                      [] OTHER -> status[c]]
      /\ attempts' = [c \in Commands |-> IF c \in given THEN attempts[c] + 1 ELSE attempts[c]]
      /\ owner' = [c \in Commands |-> IF c \in given THEN w ELSE IF c \in freed THEN NoWorker ELSE owner[c]]
      /\ token' = [c \in Commands |->
                   IF c \in given THEN attempts[c] + 1 ELSE IF c \in freed THEN 0 ELSE token[c]]
      /\ leased' = [c \in Commands |-> c \in given \/ leased[c]]
      /\ claims' = claims \union {[command |-> c, worker |-> w, token |-> attempts[c] + 1] : c \in given}
      /\ UNCHANGED <<row, overdue, answeredBy>> /\ ingestVars' = ingestVars
  BY DEF Claim
<1>2. taken \subseteq queued /\ queued \subseteq Commands /\ back \subseteq Commands
  OBVIOUS
<1>3. /\ \A c \in queued : status[c] \in {"queued", "leased"}
      /\ \A c \in back : status[c] = "leased"
  BY DEF LeaseOver
<1> HIDE DEF taken, queued, back
<1>4. given \in SUBSET Commands /\ lapsed \in SUBSET Commands /\ freed \in SUBSET Commands
  BY <1>2
<1>5. \A c \in given : status'[c] = "leased" /\ attempts'[c] = attempts[c] + 1 /\ token'[c] = attempts[c] + 1
  BY <1>1, <1>4
<1>6. \A c \in lapsed : status'[c] = "expired" /\ attempts'[c] = attempts[c]
  BY <1>1, <1>4
<1>7. ASSUME NEW c \in Commands \ (given \cup lapsed)
      PROVE  /\ attempts'[c] = attempts[c]
             /\ \/ status[c] = "leased" /\ status'[c] = "queued"
                \/ status'[c] = status[c] /\ token'[c] = token[c]
  <2>1. CASE c \in back
    BY <1>1, <1>3, <1>7, <2>1
  <2>2. CASE c \notin back
    BY <1>1, <1>7, <2>2
  <2> QED
    BY <2>1, <2>2
<1>8. TypeOK'
  <2>1. IngestTypeOK' /\ row' \in [Commands -> Nat] /\ overdue' \subseteq Commands /\ answeredBy' \in [Commands -> Nat]
    BY <1>1, IngestTypesStay DEF TypeOK
  <2>2. status' \in [Commands -> {"none", "queued", "leased", "expired"} \union Outcomes]
    <3>1. \A c \in Commands : status'[c] \in {"none", "queued", "leased", "expired"} \union Outcomes
      BY <1>5, <1>6, <1>7 DEF TypeOK
    <3>2. DOMAIN status' = Commands /\ status' = [c \in DOMAIN status' |-> status'[c]]
      BY <1>1
    <3> QED
      BY <3>1, <3>2
  <2>3. attempts' \in [Commands -> Nat] /\ token' \in [Commands -> Nat]
    BY <1>1 DEF TypeOK
  <2>4. owner' \in [Commands -> WorkerIds \union {NoWorker}] /\ leased' \in [Commands -> BOOLEAN]
    BY <1>1 DEF TypeOK
  <2>5. claims' \subseteq [command : Commands, worker : WorkerIds, token : Nat]
    <3>1. \A c \in given : [command |-> c, worker |-> w, token |-> attempts[c] + 1]
                             \in [command : Commands, worker : WorkerIds, token : Nat]
      BY <1>4 DEF TypeOK
    <3> QED
      BY <1>1, <3>1 DEF TypeOK
  <2> QED
    BY <2>1, <2>2, <2>3, <2>4, <2>5 DEF TypeOK
<1>9. /\ \A c \in given : status[c] \in {"queued", "leased"} /\ c \notin overdue /\ c \notin lapsed
      /\ \A c \in lapsed : status[c] \in {"queued", "leased"} /\ c \in overdue
  BY <1>2, <1>3
<1> HIDE DEF given, lapsed
<1>10. \E out, late \in SUBSET Commands :
               /\ \A c \in out : /\ status[c] \in {"queued", "leased"} /\ c \notin overdue /\ c \notin late
                                 /\ status'[c] = "leased" /\ attempts'[c] = attempts[c] + 1
                                 /\ token'[c] = attempts[c] + 1
               /\ \A c \in late : /\ status[c] \in {"queued", "leased"} /\ c \in overdue
                                  /\ status'[c] = "expired" /\ attempts'[c] = attempts[c]
               /\ \A c \in Commands \ (out \cup late) :
                     /\ attempts'[c] = attempts[c]
                     /\ \/ status[c] = "leased" /\ status'[c] = "queued"
                        \/ status'[c] = status[c] /\ token'[c] = token[c]
  <2>1. given \in SUBSET Commands /\ lapsed \in SUBSET Commands
    BY <1>4
  <2> USE <2>1
  <2> WITNESS given \in SUBSET Commands, lapsed \in SUBSET Commands
  <2>2. \A c \in given : /\ status[c] \in {"queued", "leased"} /\ c \notin overdue /\ c \notin lapsed
                         /\ status'[c] = "leased" /\ attempts'[c] = attempts[c] + 1
                         /\ token'[c] = attempts[c] + 1
    BY <1>5, <1>9
  <2>3. \A c \in lapsed : /\ status[c] \in {"queued", "leased"} /\ c \in overdue
                          /\ status'[c] = "expired" /\ attempts'[c] = attempts[c]
    BY <1>6, <1>9
  <2> QED
    BY <1>7, <2>2, <2>3
<1> QED
  BY <1>1, <1>8, <1>10

LEMMA ClaimStep ==
  ASSUME QueueInv, NEW w \in WorkerIds, NEW D, Claim(w, D) PROVE QueueInv'
<1>0. TypeOK /\ RowsUnique /\ LeaseIsLatest
  BY DEF QueueInv
<1>1. TypeOK' /\ UNCHANGED <<row, overdue, answeredBy>> /\ ingestVars' = ingestVars
  BY <1>0, ClaimDoes
<1>2. PICK out, late \in SUBSET Commands :
               /\ \A c \in out : /\ status[c] \in {"queued", "leased"} /\ c \notin overdue /\ c \notin late
                                 /\ status'[c] = "leased" /\ attempts'[c] = attempts[c] + 1
                                 /\ token'[c] = attempts[c] + 1
               /\ \A c \in late : /\ status[c] \in {"queued", "leased"} /\ c \in overdue
                                  /\ status'[c] = "expired" /\ attempts'[c] = attempts[c]
               /\ \A c \in Commands \ (out \cup late) :
                     /\ attempts'[c] = attempts[c]
                     /\ \/ status[c] = "leased" /\ status'[c] = "queued"
                        \/ status'[c] = status[c] /\ token'[c] = token[c]
  BY <1>0, ClaimDoes
<1>3. \A c \in Commands : status[c] \in Outcomes => status'[c] = status[c]
  BY <1>2
<1>4. RowsUnique'
  <2>1. \A c \in Commands : status'[c] = "none" <=> status[c] = "none"
    BY <1>2
  <2> QED
    BY <1>0, <1>1, <2>1 DEF RowsUnique
<1>5. LeaseIsLatest'
  <2>1. ASSUME NEW c \in Commands, status'[c] \in {"none", "queued", "leased"} PROVE answeredBy'[c] = 0
    <3>1. status[c] \in {"none", "queued", "leased"}
      BY <1>2, <2>1
    <3> QED
      BY <1>0, <1>1, <3>1 DEF LeaseIsLatest
  <2>2. ASSUME NEW c \in Commands, status'[c] = "leased" PROVE token'[c] = attempts'[c] /\ attempts'[c] > 0
    <3>0. attempts[c] \in Nat
      BY <1>0 DEF TypeOK
    <3>1. CASE c \in out
      BY <1>2, <3>0, <3>1
    <3>2. CASE c \notin out
      <4>1. c \notin late
        BY <1>2, <2>2
      <4> QED
        BY <1>0, <1>2, <2>2, <3>2, <4>1 DEF LeaseIsLatest
    <3> QED
      BY <3>1, <3>2
  <2> QED
    BY <2>1, <2>2 DEF LeaseIsLatest
<1>6. AuditsTell' /\ AuditsNumbered' /\ AuditStreamsComplete'
  BY <1>1, <1>3, AuditsStay
<1> QED
  BY <1>1, <1>4, <1>5, <1>6 DEF QueueInv

\* An answer: its audit event is new, the next of its device, and reveals no gap.
LEMMA AcknowledgeIngests ==
  ASSUME QueueInv, NEW k \in claims, NEW o \in Outcomes, Acknowledge(k, o),
         NEW c, c = k.command, NEW d, d = DeviceOf[c],
         NEW event, event = Audit(c, o, cursor[d] + 1)
  PROVE  /\ c \in Commands /\ status[c] = "leased"
         /\ d \in Devices /\ event \in Events /\ ~ Ingested(event)
         /\ event.command = c /\ event.outcome = o /\ event.sequence = cursor[d] + 1
         /\ rowId' = [rowId EXCEPT ![event] = lastId + 1] /\ lastId' = lastId + 1
         /\ cursor' = [cursor EXCEPT ![d] = cursor[d] + 1]
         /\ openGaps' = {} /\ resolvedGaps' = {} /\ UNCHANGED <<quarantine, refused>>
<1>0. TypeOK /\ RowsUnique /\ AuditsTell /\ AuditsNumbered /\ AuditStreamsComplete
  BY DEF QueueInv
<1>1. c \in Commands /\ status[c] = "leased" /\ d \in Devices
  BY <1>0 DEF TypeOK, Acknowledge, HoldsCommand
<1>2. cursor[d] + 1 \in 1 .. Cardinality(Commands)
  BY <1>0, <1>1, NumberLeft
<1>3. event \in Events /\ event.command = c /\ event.outcome = o /\ event.sequence = cursor[d] + 1
  BY <1>1, <1>2, AuditIsEvent
<1>4. IngestAccepted(event) \/ IngestRefused(event, TRUE)
  BY <1>0, <1>1, NextIsNext DEF Acknowledge
<1>5. /\ StreamOf[event] = d /\ SequenceOf[event] = cursor[d] + 1
      /\ EventId[event] = <<CommandId[c], o>> /\ cursor[d] \in Nat
  BY <1>0, <1>1, <1>3, EventFacts DEF TypeOK, IngestTypeOK
<1>6. ~ KnownId(event)
  <2> SUFFICES ASSUME NEW a \in Events, Ingested(a), EventId[a] = EventId[event] PROVE FALSE
    BY DEF KnownId, SameId
  <2>1. CommandId[a.command] = CommandId[c] /\ a.command \in Commands
    BY <1>5, EventFacts
  <2>2. Known(a.command) /\ Known(c) /\ status[a.command] = a.outcome /\ a.outcome \in Outcomes
    BY <1>0, <1>1, <2>1, EventFacts DEF AuditsTell, RowsUnique
  <2>3. a.command = c
    BY <1>0, <1>1, <2>1, <2>2 DEF RowsUnique
  <2> QED
    BY <1>1, <2>2, <2>3
<1>7. ~ SlotTaken(event)
  <2> SUFFICES ASSUME NEW a \in Events, Ingested(a), StreamOf[a] = StreamOf[event],
                      SequenceOf[a] = SequenceOf[event]
               PROVE  FALSE
    BY DEF SlotTaken, SameSlot, SameStream
  <2>1. a.sequence = cursor[d] + 1 /\ DeviceOf[a.command] = d
    BY <1>5, EventFacts
  <2>2. a.sequence \in 1 .. cursor[d]
    BY <1>0, <2>1 DEF AuditsNumbered
  <2> QED
    BY <1>5, <2>1, <2>2
<1>8. ~ Ingested(event)
  BY <1>3, <1>6 DEF KnownId, SameId
<1>9. IngestNew(event)
  BY <1>4, <1>6, <1>7, <1>8 DEF IngestAccepted, IngestRefused, IngestDuplicate, RefuseMismatch, RefuseConflict
<1>10. RevealedGap(event) = {}
  BY <1>5 DEF RevealedGap
<1>11. /\ rowId' = [rowId EXCEPT ![event] = lastId + 1] /\ lastId' = lastId + 1
       /\ UNCHANGED <<quarantine, refused>>
       /\ cursor' = [cursor EXCEPT ![d] = IF cursor[d] + 1 > @ THEN cursor[d] + 1 ELSE @]
  BY <1>5, <1>9 DEF IngestNew
<1>12. cursor' = [cursor EXCEPT ![d] = cursor[d] + 1]
  <2>1. cursor[d] + 1 > cursor[d]
    BY <1>5
  <2> QED
    BY <1>11, <2>1
<1>13. openGaps' = {} /\ resolvedGaps' = {}
  <2>1. openGaps = {} /\ resolvedGaps = {}
    BY <1>0 DEF AuditStreamsComplete
  <2> QED
    BY <1>9, <1>10, <2>1 DEF IngestNew
<1> QED
  BY <1>1, <1>3, <1>8, <1>11, <1>12, <1>13

LEMMA AcknowledgeStep ==
  ASSUME QueueInv, NEW k \in claims, NEW o \in Outcomes, Acknowledge(k, o) PROVE QueueInv'
<1> SUFFICES ASSUME NEW c, c = k.command, NEW d, d = DeviceOf[c],
                    NEW event, event = Audit(c, o, cursor[d] + 1)
             PROVE  QueueInv'
  OBVIOUS
<1>0. TypeOK /\ RowsUnique /\ LeaseIsLatest /\ AuditsTell /\ AuditsNumbered /\ AuditStreamsComplete
  BY DEF QueueInv
<1>1. /\ c \in Commands /\ status[c] = "leased" /\ d \in Devices /\ event \in Events /\ ~ Ingested(event)
      /\ event.command = c /\ event.outcome = o /\ event.sequence = cursor[d] + 1
      /\ rowId' = [rowId EXCEPT ![event] = lastId + 1] /\ lastId' = lastId + 1
      /\ cursor' = [cursor EXCEPT ![d] = cursor[d] + 1]
      /\ openGaps' = {} /\ resolvedGaps' = {} /\ UNCHANGED <<quarantine, refused>>
  BY AcknowledgeIngests
<1>2. /\ status' = [status EXCEPT ![c] = o] /\ owner' = [owner EXCEPT ![c] = NoWorker]
      /\ token' = [token EXCEPT ![c] = 0] /\ leased' = [leased EXCEPT ![c] = FALSE]
      /\ answeredBy' = [answeredBy EXCEPT ![c] = k.token] /\ k.token \in Nat
      /\ UNCHANGED <<row, attempts, overdue, claims>>
  BY <1>0 DEF Acknowledge, TypeOK
<1>3. lastId \in Nat /\ cursor[d] \in Nat /\ rowId \in [Events -> Nat] /\ cursor \in [Devices -> Nat]
  BY <1>0, <1>1, EventFacts DEF TypeOK, IngestTypeOK
<1>4. /\ Ingested(event)' /\ \A a \in Events \ {event} : Ingested(a)' <=> Ingested(a)
      /\ cursor'[d] = cursor[d] + 1 /\ \A x \in Devices \ {d} : cursor'[x] = cursor[x]
  <2>1. Ingested(event)'
    BY <1>1, <1>3 DEF Ingested
  <2>2. \A a \in Events \ {event} : Ingested(a)' <=> Ingested(a)
    BY <1>1, <1>3 DEF Ingested
  <2>3. cursor'[d] = cursor[d] + 1 /\ \A x \in Devices \ {d} : cursor'[x] = cursor[x]
    BY <1>1, <1>3
  <2> QED
    BY <2>1, <2>2, <2>3
<1>5. TypeOK'
  <2>1. IngestTypeOK'
    BY <1>0, <1>1, <1>3, EventFacts DEF TypeOK, IngestTypeOK
  <2>2. status' \in [Commands -> {"none", "queued", "leased", "expired"} \union Outcomes]
    BY <1>0, <1>2 DEF TypeOK
  <2>3. /\ owner' \in [Commands -> WorkerIds \union {NoWorker}] /\ token' \in [Commands -> Nat]
        /\ leased' \in [Commands -> BOOLEAN] /\ answeredBy' \in [Commands -> Nat]
    BY <1>0, <1>2 DEF TypeOK
  <2> QED
    BY <1>0, <1>2, <2>1, <2>2, <2>3 DEF TypeOK
<1>6. status'[c] = o /\ \A x \in Commands \ {c} : status'[x] = status[x]
  BY <1>0, <1>1, <1>2 DEF TypeOK
<1>13. "none" \notin Outcomes /\ "leased" \notin Outcomes /\ "queued" \notin Outcomes
  OBVIOUS
<1>7. RowsUnique'
  BY <1>0, <1>1, <1>2, <1>6, <1>13 DEF RowsUnique
<1>8. LeaseIsLatest'
  <2>1. \A x \in Commands : status'[x] \in {"none", "queued", "leased"} => x # c
    BY <1>6, <1>13
  <2>2. \A x \in Commands \ {c} : token'[x] = token[x] /\ answeredBy'[x] = answeredBy[x] /\ attempts' = attempts
    BY <1>0, <1>2 DEF TypeOK
  <2> QED
    BY <1>0, <1>6, <2>1, <2>2 DEF LeaseIsLatest
<1>9. \A a \in Events : Ingested(a) => a.command # c
  BY <1>0, <1>1, <1>13, EventFacts DEF AuditsTell
<1>10. AuditsTell'
  <2>1. ASSUME NEW a \in Events, Ingested(a)' PROVE Known(a.command)' /\ status'[a.command] = a.outcome
    <3>1. CASE a = event
      BY <1>0, <1>1, <1>2, <1>6, <3>1 DEF RowsUnique
    <3>2. CASE a # event
      <4>1. Ingested(a)
        BY <1>4, <2>1, <3>2
      <4> QED
        BY <1>0, <1>2, <1>6, <1>9, <4>1, EventFacts DEF AuditsTell
    <3> QED
      BY <3>1, <3>2
  <2>2. ASSUME NEW a \in Events, NEW b \in Events, Ingested(a)', Ingested(b)', a.command = b.command PROVE a = b
    BY <1>0, <1>1, <1>4, <1>9, <2>2 DEF AuditsTell
  <2> QED
    BY <2>1, <2>2 DEF AuditsTell
<1>11. AuditsNumbered'
  <2>1. ASSUME NEW a \in Events, Ingested(a)' PROVE a.sequence \in 1 .. cursor'[DeviceOf[a.command]]
    <3>1. CASE a = event
      BY <1>1, <1>3, <1>4, <3>1
    <3>2. CASE a # event
      <4>1. a.sequence \in 1 .. cursor[DeviceOf[a.command]] /\ DeviceOf[a.command] \in Devices
        BY <1>0, <1>4, <2>1, <3>2, EventFacts DEF AuditsNumbered
      <4> QED
        BY <1>3, <1>4, <4>1
    <3> QED
      BY <3>1, <3>2
  <2>2. ASSUME NEW x \in Devices, NEW n \in 1 .. cursor'[x]
        PROVE  \E a \in Events : Ingested(a)' /\ DeviceOf[a.command] = x /\ a.sequence = n
    <3>1. CASE x = d /\ n = cursor[d] + 1
      BY <1>1, <1>4, <3>1
    <3>2. CASE ~ (x = d /\ n = cursor[d] + 1)
      <4>1. n \in 1 .. cursor[x]
        BY <1>3, <1>4, <3>2
      <4>2. PICK a \in Events : Ingested(a) /\ DeviceOf[a.command] = x /\ a.sequence = n
        BY <1>0, <4>1 DEF AuditsNumbered
      <4> QED
        BY <1>1, <1>4, <4>2
    <3> QED
      BY <3>1, <3>2
  <2>3. ASSUME NEW a \in Events, NEW b \in Events, Ingested(a)', Ingested(b)',
               DeviceOf[a.command] = DeviceOf[b.command], a.sequence = b.sequence
        PROVE  a = b
    <3>1. \A e \in Events : Ingested(e) /\ DeviceOf[e.command] = d => e.sequence # cursor[d] + 1
      BY <1>0, <1>3 DEF AuditsNumbered
    <3>2. CASE a # event /\ b # event
      BY <1>0, <1>4, <2>3, <3>2 DEF AuditsNumbered
    <3>3. CASE a = event
      BY <1>1, <1>4, <2>3, <3>1, <3>3
    <3>4. CASE b = event
      BY <1>1, <1>4, <2>3, <3>1, <3>4
    <3> QED
      BY <3>2, <3>3, <3>4
  <2> QED
    BY <2>1, <2>2, <2>3 DEF AuditsNumbered
<1>12. AuditStreamsComplete'
  BY <1>0, <1>1 DEF AuditStreamsComplete
<1> QED
  BY <1>5, <1>7, <1>8, <1>10, <1>11, <1>12 DEF QueueInv

\* The clocks.
LEMMA ClockStep ==
  ASSUME QueueInv, NEW c \in Commands, DeadlinePasses(c) \/ LeaseRunsOut(c) PROVE QueueInv'
<1>0. TypeOK /\ RowsUnique /\ LeaseIsLatest
  BY DEF QueueInv
<1>1. UNCHANGED <<row, status, attempts, owner, token, claims, answeredBy>> /\ ingestVars' = ingestVars
  BY DEF DeadlinePasses, LeaseRunsOut, leaseVars
<1>2. TypeOK'
  <2>1. IngestTypeOK'
    BY <1>0, <1>1, IngestTypesStay DEF TypeOK
  <2>2. overdue' \subseteq Commands /\ leased' \in [Commands -> BOOLEAN]
    BY <1>0 DEF DeadlinePasses, LeaseRunsOut, leaseVars, TypeOK
  <2> QED
    BY <1>0, <1>1, <2>1, <2>2 DEF TypeOK
<1>3. RowsUnique' /\ LeaseIsLatest'
  BY <1>0, <1>1 DEF RowsUnique, LeaseIsLatest
<1>4. AuditsTell' /\ AuditsNumbered' /\ AuditStreamsComplete'
  BY <1>1, AuditsStay
<1> QED
  BY <1>2, <1>3, <1>4 DEF QueueInv

LEMMA StutterStep == ASSUME QueueInv, UNCHANGED vars PROVE QueueInv'
<1>0. TypeOK /\ RowsUnique /\ LeaseIsLatest
  BY DEF QueueInv
<1>1. UNCHANGED <<row, status, attempts, owner, token, leased, overdue, claims, answeredBy>>
      /\ ingestVars' = ingestVars
  BY DEF vars, commandVars, leaseVars
<1>2. TypeOK'
  <2>1. IngestTypeOK'
    BY <1>0, <1>1, IngestTypesStay DEF TypeOK
  <2> QED
    BY <1>0, <1>1, <2>1 DEF TypeOK
<1>3. RowsUnique' /\ LeaseIsLatest'
  BY <1>0, <1>1 DEF RowsUnique, LeaseIsLatest
<1>4. AuditsTell' /\ AuditsNumbered' /\ AuditStreamsComplete'
  BY <1>1, AuditsStay
<1> QED
  BY <1>2, <1>3, <1>4 DEF QueueInv

\* Every step keeps the invariant.
LEMMA QueueStep == QueueInv /\ [Next]_vars => QueueInv'
<1> SUFFICES ASSUME QueueInv, [Next]_vars PROVE QueueInv'
  OBVIOUS
<1>1. ASSUME NEW c \in Commands, Enqueue(c) PROVE QueueInv'
  BY <1>1, EnqueueStep
<1>2. ASSUME NEW c \in Commands, DeadlinePasses(c) \/ LeaseRunsOut(c) PROVE QueueInv'
  BY <1>2, ClockStep
<1>3. ASSUME NEW w \in WorkerIds, NEW D, Claim(w, D) PROVE QueueInv'
  BY <1>3, ClaimStep
<1>4. ASSUME NEW k \in claims, NEW o \in Outcomes, Acknowledge(k, o) PROVE QueueInv'
  BY <1>4, AcknowledgeStep
<1>5. CASE UNCHANGED vars
  BY <1>5, StutterStep
<1> QED
  BY <1>1, <1>2, <1>3, <1>4, <1>5 DEF Next

\* No command is known at first.
LEMMA QueueStart == Init => QueueInv
<1> SUFFICES ASSUME Init PROVE QueueInv
  OBVIOUS
<1>1. /\ \A c \in Commands : row[c] = 0 /\ status[c] = "none" /\ answeredBy[c] = 0
      /\ \A a \in Events : ~ Ingested(a)
      /\ \A d \in Devices : cursor[d] = 0
      /\ openGaps = {} /\ resolvedGaps = {} /\ refused = {}
  BY EventFacts DEF Init, IngestInit, Ingested
<1>2. TypeOK
  <2>1. IngestTypeOK
    BY DEF Init, IngestInit, IngestTypeOK
  <2> QED
    BY <2>1 DEF Init, TypeOK
<1>3. RowsUnique /\ LeaseIsLatest
  BY <1>1 DEF RowsUnique, LeaseIsLatest
<1>4. AuditsTell
  BY <1>1 DEF AuditsTell
<1>5. AuditsNumbered
  BY <1>1 DEF AuditsNumbered
<1>6. AuditStreamsComplete
  BY <1>1 DEF AuditStreamsComplete
<1> QED
  BY <1>2, <1>3, <1>4, <1>5, <1>6 DEF QueueInv

\* The inductive invariant of the command queue.
THEOREM QueueInvariant == Spec => []QueueInv
  BY QueueStart, QueueStep, PTL DEF Spec

\* The tables of commands and of central ingestion keep their types.
THEOREM QueueTypes == Spec => []TypeOK
<1>1. QueueInv => TypeOK
  BY DEF QueueInv
<1> QED
  BY <1>1, QueueInvariant, PTL

\* For any commands, devices and answers at once, no audit event is refused
\* and none leaves a gap in the stream of its device.
THEOREM NoAuditIsLost == Spec => []AuditStreamsComplete
<1>1. QueueInv => AuditStreamsComplete
  BY DEF QueueInv
<1> QED
  BY <1>1, QueueInvariant, PTL

-----------------------------------------------------------------------------
(* The queue implements the command log.                                   *)

\* The log of a device as ingestion tells it.
LEMMA LogIs ==
  \A d : AuditLog(d) = [n \in 1 .. cursor[d] |-> <<AuditAt(d, n).command, AuditAt(d, n).outcome>>]
BY DEF AuditLog, AuditAt

LogTells == \A d \in Devices :
    /\ DOMAIN AuditLog(d) = 1 .. cursor[d]
    /\ AuditLog(d) = [n \in DOMAIN AuditLog(d) |-> AuditLog(d)[n]]
    /\ \A n \in 1 .. cursor[d] : \A a : a = AuditAt(d, n) => AuditLog(d)[n] = <<a.command, a.outcome>>

LEMMA LogsTell == LogTells
BY LogIs DEF LogTells

LEMMA InitRefines == Init => Log!LogInit
<1> SUFFICES ASSUME Init PROVE Log!LogInit
  OBVIOUS
<1>1. \A c \in Commands : Outcome(c) = "unknown"
  BY DEF Init, Outcome
<1>2. \A d \in Devices : AuditLog(d) = <<>>
  <2> TAKE d \in Devices
  <2>1. cursor[d] = 0
    BY EventFacts DEF Init, IngestInit
  <2>2. 1 .. cursor[d] = {}
    BY <2>1
  <2>3. \A f : DOMAIN f = {} /\ f = [x \in DOMAIN f |-> f[x]] => f = <<>>
    OBVIOUS
  <2>4. AuditLog(d) = [n \in {} |-> <<AuditAt(d, n).command, AuditAt(d, n).outcome>>]
    BY <2>2, LogIs
  <2> QED
    BY <2>3, <2>4
<1> QED
  BY <1>1, <1>2 DEF Init, Log!LogInit

\* Steps that leave ingestion as it is leave the logs as they are.
LEMMA LogsStay ==
  ASSUME ingestVars' = ingestVars
  PROVE  [d \in Devices |-> AuditLog(d)]' = [d \in Devices |-> AuditLog(d)]
BY DEF AuditLog, Ingested, ingestVars

LEMMA EnqueueRefines ==
  ASSUME QueueInv, NEW c \in Commands, Enqueue(c) PROVE Log!Issue(c)
<1>1. /\ status[c] = "none" /\ status' = [status EXCEPT ![c] = "queued"]
      /\ status \in [Commands -> {"none", "queued", "leased", "expired"} \union Outcomes]
  BY EnqueueStep DEF QueueInv, TypeOK
<1>2. UNCHANGED <<attempts, overdue, answeredBy>> /\ ingestVars' = ingestVars
  BY DEF Enqueue
<1>3. Outcome(c) = "unknown" /\ Outcome(c)' = "open"
  BY <1>1 DEF Outcome
<1>4. \A x \in Commands \ {c} : Outcome(x)' = Outcome(x)
  BY <1>1, <1>2 DEF Outcome
<1>5. [x \in Commands |-> Outcome(x)]' = [[x \in Commands |-> Outcome(x)] EXCEPT ![c] = "open"]
  BY <1>3, <1>4
<1> QED
  BY <1>2, <1>3, <1>5, LogsStay DEF Log!Issue

LEMMA DeadlineRefines ==
  ASSUME NEW c \in Commands, DeadlinePasses(c) PROVE Log!Expire(c)
<1>1. overdue' = overdue \union {c} /\ UNCHANGED <<status, attempts, answeredBy>> /\ ingestVars' = ingestVars
  BY DEF DeadlinePasses
<1>2. [x \in Commands |-> Outcome(x)]' = [x \in Commands |-> Outcome(x)]
  BY <1>1 DEF Outcome
<1> QED
  BY <1>1, <1>2, LogsStay DEF Log!Expire

LEMMA LeaseRefines ==
  ASSUME NEW c \in Commands, LeaseRunsOut(c) PROVE UNCHANGED Log!logVars
<1>1. UNCHANGED <<status, attempts, overdue, answeredBy>> /\ ingestVars' = ingestVars
  BY DEF LeaseRunsOut
<1>2. [x \in Commands |-> Outcome(x)]' = [x \in Commands |-> Outcome(x)]
  BY <1>1 DEF Outcome
<1> QED
  BY <1>1, <1>2, LogsStay DEF Log!logVars

LEMMA ClaimRefines ==
  ASSUME QueueInv, NEW w \in WorkerIds, NEW D, Claim(w, D) PROVE Log!LogNext
<1>0. TypeOK /\ LeaseIsLatest
  BY DEF QueueInv
<1>1. UNCHANGED <<overdue, answeredBy>> /\ ingestVars' = ingestVars /\ TypeOK'
  BY <1>0, ClaimDoes
<1>2. PICK out, late \in SUBSET Commands :
               /\ \A c \in out : /\ status[c] \in {"queued", "leased"} /\ c \notin overdue /\ c \notin late
                                 /\ status'[c] = "leased" /\ attempts'[c] = attempts[c] + 1
                                 /\ token'[c] = attempts[c] + 1
               /\ \A c \in late : /\ status[c] \in {"queued", "leased"} /\ c \in overdue
                                  /\ status'[c] = "expired" /\ attempts'[c] = attempts[c]
               /\ \A c \in Commands \ (out \cup late) :
                     /\ attempts'[c] = attempts[c]
                     /\ \/ status[c] = "leased" /\ status'[c] = "queued"
                        \/ status'[c] = status[c] /\ token'[c] = token[c]
  BY <1>0, ClaimDoes
<1>3. \A c \in Commands : status[c] \in {"queued", "leased"} => Outcome(c) = "open"
  BY DEF Outcome
<1>4. \A c \in late : Outcome(c)' = "lapsed"
  <2> TAKE c \in late
  <2>1. status'[c] = "expired" /\ answeredBy'[c] = 0
    BY <1>0, <1>1, <1>2 DEF LeaseIsLatest
  <2> QED
    BY <2>1 DEF Outcome
<1>5. \A c \in Commands \ late : Outcome(c)' = Outcome(c)
  <2> TAKE c \in Commands \ late
  <2>1. CASE status'[c] = status[c]
    BY <1>1, <2>1 DEF Outcome
  <2>2. CASE status[c] \in {"queued", "leased"} /\ status'[c] \in {"queued", "leased"}
    BY <2>2 DEF Outcome
  <2> QED
    BY <1>2, <2>1, <2>2
<1>6. [c \in Commands |-> Outcome(c)]' =
         [c \in Commands |-> IF c \in late THEN "lapsed" ELSE [x \in Commands |-> Outcome(x)][c]]
  BY <1>4, <1>5
<1>7. attempts' = [c \in Commands |-> IF c \in out THEN attempts[c] + 1 ELSE attempts[c]]
  <2>1. \A c \in Commands : attempts'[c] = IF c \in out THEN attempts[c] + 1 ELSE attempts[c]
    BY <1>2
  <2> QED
    BY <1>1, <2>1 DEF TypeOK
<1>8. Log!HandOut(out, late)
  BY <1>1, <1>6, <1>7, LogsStay DEF Log!HandOut
<1>9. out \in SUBSET (Log!Open \ overdue) /\ late \in SUBSET (Log!Open \intersect overdue)
  BY <1>2, <1>3 DEF Log!Open
<1> QED
  BY <1>8, <1>9 DEF Log!LogNext

\* Two functions that agree everywhere are one.
LEMMA SameFunction ==
  ASSUME NEW f, NEW g, f = [x \in DOMAIN f |-> f[x]], g = [x \in DOMAIN g |-> g[x]],
         DOMAIN f = DOMAIN g, \A x \in DOMAIN f : f[x] = g[x]
  PROVE  f = g
OBVIOUS

\* A function one longer than another, and the same so far, is it with one appended.
LEMMA OneMore ==
  ASSUME NEW S, NEW n \in Nat, NEW f \in [1 .. n -> S], NEW g \in [1 .. n + 1 -> S], NEW e \in S,
         \A i \in 1 .. n : g[i] = f[i], g[n + 1] = e
  PROVE  g = Append(f, e)
<1>1. f \in Seq(S) /\ Len(f) = n
  OBVIOUS
<1>2. g \in Seq(S) /\ Len(g) = n + 1
  OBVIOUS
<1>3. /\ Append(f, e) \in Seq(S) /\ Len(Append(f, e)) = n + 1
      /\ \A i \in 1 .. n : Append(f, e)[i] = f[i]
      /\ Append(f, e)[n + 1] = e
  BY <1>1, AppendProperties
<1>4. \A i \in 1 .. Len(g) : g[i] = Append(f, e)[i]
  <2>1. \A i \in 1 .. n + 1 : i \in 1 .. n \/ i = n + 1
    OBVIOUS
  <2> QED
    BY <1>2, <1>3, <2>1
<1> QED
  BY <1>2, <1>3, <1>4, SeqEqual

\* An answer adds its audit event to the log of its device, and to no other.
LEMMA LogGrows ==
  ASSUME QueueInv, QueueInv', NEW c \in Commands, NEW d \in Devices, d = DeviceOf[c],
         NEW event \in Events, ~ Ingested(event), event.command = c, event.sequence = cursor[d] + 1,
         rowId' = [rowId EXCEPT ![event] = lastId + 1], cursor' = [cursor EXCEPT ![d] = cursor[d] + 1]
  PROVE  /\ AuditLog(d)' = Append(AuditLog(d), <<c, event.outcome>>)
         /\ \A x \in Devices \ {d} : AuditLog(x)' = AuditLog(x)
<1>0. AuditFound /\ AuditUnique /\ AuditUnique'
  <2>1. AuditsNumbered /\ AuditsNumbered'
    BY DEF QueueInv
  <2>2. AuditFound /\ AuditUnique
    BY <2>1, AuditsFound
  <2>3. AuditsNumbered' => AuditUnique'
    BY AuditsFound, PTL
  <2> QED
    BY <2>1, <2>2, <2>3
<1>1. /\ lastId \in Nat /\ rowId \in [Events -> Nat] /\ cursor \in [Devices -> Nat]
  BY EventFacts DEF QueueInv, TypeOK, IngestTypeOK
<1>2. Ingested(event)' /\ \A a \in Events : Ingested(a) => Ingested(a)'
  BY <1>1 DEF Ingested
<1>3. cursor'[d] = cursor[d] + 1 /\ \A x \in Devices \ {d} : cursor'[x] = cursor[x]
  BY <1>1
<1>4. \A x \in Devices : \A n \in 1 .. cursor[x] : AuditAt(x, n)' = AuditAt(x, n)
  <2> TAKE x \in Devices
  <2> TAKE n \in 1 .. cursor[x]
  <2>1. PICK a \in Events : a = AuditAt(x, n) /\ Ingested(a) /\ DeviceOf[a.command] = x /\ a.sequence = n
    BY <1>0 DEF AuditFound
  <2>2. Ingested(a)'
    BY <1>2, <2>1
  <2> QED
    BY <1>0, <2>1, <2>2 DEF AuditUnique
<1>5. \A n : n = cursor[d] + 1 => AuditAt(d, n)' = event
  <2> TAKE n
  <2> HAVE n = cursor[d] + 1
  <2> QED
    BY <1>0, <1>2 DEF AuditUnique
<1>6. LogTells /\ LogTells'
  <2>1. LogTells'
    BY LogsTell, PTL
  <2> QED
    BY <2>1, LogsTell
<1>7. \A x \in Devices \ {d} : AuditLog(x)' = AuditLog(x)
  <2> TAKE x \in Devices \ {d}
  <2>1. cursor'[x] = cursor[x]
    BY <1>3
  <2>2. /\ DOMAIN AuditLog(x) = 1 .. cursor[x] /\ AuditLog(x) = [n \in DOMAIN AuditLog(x) |-> AuditLog(x)[n]]
        /\ \A n \in 1 .. cursor[x] : \A a : a = AuditAt(x, n) => AuditLog(x)[n] = <<a.command, a.outcome>>
    BY <1>6 DEF LogTells
  <2>3. /\ DOMAIN AuditLog(x)' = 1 .. cursor'[x]
        /\ AuditLog(x)' = [n \in DOMAIN AuditLog(x)' |-> AuditLog(x)'[n]]
        /\ \A n \in 1 .. cursor'[x] : \A a : a = AuditAt(x, n)' => AuditLog(x)'[n] = <<a.command, a.outcome>>
    BY <1>6 DEF LogTells
  <2>4. \A n \in 1 .. cursor[x] : AuditLog(x)'[n] = AuditLog(x)[n]
    <3> SUFFICES ASSUME NEW n \in 1 .. cursor[x], NEW a, a = AuditAt(x, n)
                 PROVE  AuditLog(x)'[n] = AuditLog(x)[n]
      OBVIOUS
    <3>1. AuditAt(x, n)' = a
      BY <1>4
    <3>2. AuditLog(x)[n] = <<a.command, a.outcome>>
      BY <2>2
    <3>3. n \in 1 .. cursor'[x]
      BY <2>1
    <3>4. AuditLog(x)'[n] = <<a.command, a.outcome>>
      BY <2>3, <3>1, <3>3
    <3> QED
      BY <3>2, <3>4
  <2>5. DOMAIN AuditLog(x)' = DOMAIN AuditLog(x)
    BY <2>1, <2>2, <2>3
  <2> QED
    <3> SUFFICES ASSUME NEW f, f = AuditLog(x)', NEW g, g = AuditLog(x) PROVE f = g
      OBVIOUS
    <3>1. f = [n \in DOMAIN f |-> f[n]] /\ g = [n \in DOMAIN g |-> g[n]] /\ DOMAIN f = DOMAIN g
      BY <2>2, <2>3, <2>5
    <3>2. \A n \in DOMAIN f : f[n] = g[n]
      BY <2>2, <2>4, <2>5
    <3> QED
      BY <3>1, <3>2, SameFunction
<1>8. AuditLog(d)' = Append(AuditLog(d), <<c, event.outcome>>)
  <2> DEFINE S == Commands \X Outcomes
  <2>1. cursor[d] \in Nat
    BY <1>1
  <2>7. /\ DOMAIN AuditLog(d) = 1 .. cursor[d] /\ AuditLog(d) = [n \in DOMAIN AuditLog(d) |-> AuditLog(d)[n]]
        /\ \A n \in 1 .. cursor[d] : \A a : a = AuditAt(d, n) => AuditLog(d)[n] = <<a.command, a.outcome>>
    BY <1>6 DEF LogTells
  <2>8. /\ DOMAIN AuditLog(d)' = 1 .. cursor'[d]
        /\ AuditLog(d)' = [n \in DOMAIN AuditLog(d)' |-> AuditLog(d)'[n]]
        /\ \A n \in 1 .. cursor'[d] : \A a : a = AuditAt(d, n)' => AuditLog(d)'[n] = <<a.command, a.outcome>>
    BY <1>6 DEF LogTells
  <2>2. AuditLog(d) \in [1 .. cursor[d] -> S]
    <3>1. ASSUME NEW n \in 1 .. cursor[d], NEW a, a = AuditAt(d, n) PROVE AuditLog(d)[n] \in S
      <4>1. a \in Events
        BY <1>0, <3>1 DEF AuditFound
      <4>2. AuditLog(d)[n] = <<a.command, a.outcome>>
        BY <2>7, <3>1
      <4> QED
        BY <4>1, <4>2, EventFacts
    <3>2. \A n \in 1 .. cursor[d] : AuditLog(d)[n] \in S
      BY <3>1
    <3> HIDE DEF S
    <3> QED
      BY <2>7, <3>2
  <2>3. <<c, event.outcome>> \in S
    BY EventFacts
  <2>4. \A n \in 1 .. cursor[d] : AuditLog(d)'[n] = AuditLog(d)[n]
    <3> SUFFICES ASSUME NEW n \in 1 .. cursor[d], NEW a, a = AuditAt(d, n)
                 PROVE  AuditLog(d)'[n] = AuditLog(d)[n]
      OBVIOUS
    <3>1. AuditAt(d, n)' = a
      BY <1>4
    <3>2. AuditLog(d)[n] = <<a.command, a.outcome>>
      BY <2>7
    <3>3. n \in 1 .. cursor'[d]
      BY <1>3, <2>1
    <3>4. AuditLog(d)'[n] = <<a.command, a.outcome>>
      BY <2>8, <3>1, <3>3
    <3> QED
      BY <3>2, <3>4
  <2>5. AuditLog(d)'[cursor[d] + 1] = <<c, event.outcome>>
    <3> SUFFICES ASSUME NEW n, n = cursor[d] + 1 PROVE AuditLog(d)'[n] = <<c, event.outcome>>
      OBVIOUS
    <3>1. n \in 1 .. cursor'[d] /\ AuditAt(d, n)' = event
      BY <1>3, <1>5, <2>1
    <3> QED
      BY <2>8, <3>1
  <2>6. AuditLog(d)' \in [1 .. cursor[d] + 1 -> S]
    <3>1. DOMAIN AuditLog(d)' = 1 .. cursor[d] + 1
          /\ AuditLog(d)' = [n \in DOMAIN AuditLog(d)' |-> AuditLog(d)'[n]]
      BY <1>3, <2>8
    <3>2. \A n \in 1 .. cursor[d] + 1 : AuditLog(d)'[n] \in S
      <4>1. \A n \in 1 .. cursor[d] : AuditLog(d)'[n] \in S
        <5> HIDE DEF S
        <5> QED
          BY <2>2, <2>4
      <4>2. \A n \in 1 .. cursor[d] + 1 : n \in 1 .. cursor[d] \/ n = cursor[d] + 1
        BY <2>1
      <4> HIDE DEF S
      <4> QED
        BY <2>3, <2>5, <4>1, <4>2
    <3> HIDE DEF S
    <3> QED
      BY <3>1, <3>2
  <2> HIDE DEF S
  <2> QED
    BY <2>1, <2>2, <2>3, <2>4, <2>5, <2>6, OneMore
<1> QED
  BY <1>7, <1>8

\* An answer: it is the answer to the latest hand-out of an open command.
LEMMA AnswerRefines ==
  ASSUME QueueInv, QueueInv', NEW k \in claims, NEW o \in Outcomes, Acknowledge(k, o)
  PROVE  Log!LogNext
<1> SUFFICES ASSUME NEW c, c = k.command, NEW d, d = DeviceOf[c],
                    NEW event, event = Audit(c, o, cursor[d] + 1)
             PROVE  Log!LogNext
  OBVIOUS
<1>0. TypeOK /\ LeaseIsLatest
  BY DEF QueueInv
<1>1. /\ c \in Commands /\ status[c] = "leased" /\ d \in Devices /\ event \in Events /\ ~ Ingested(event)
      /\ event.command = c /\ event.outcome = o /\ event.sequence = cursor[d] + 1
      /\ rowId' = [rowId EXCEPT ![event] = lastId + 1]
      /\ cursor' = [cursor EXCEPT ![d] = cursor[d] + 1]
  BY AcknowledgeIngests
<1>2. /\ token[c] = k.token /\ status' = [status EXCEPT ![c] = o]
      /\ answeredBy' = [answeredBy EXCEPT ![c] = k.token] /\ UNCHANGED <<attempts, overdue>>
  BY DEF Acknowledge, HoldsCommand
<1>3. k.token = attempts[c] /\ attempts[c] > 0 /\ attempts[c] \in Nat
  BY <1>0, <1>1, <1>2 DEF LeaseIsLatest, TypeOK
<1>4. Outcome(c) = "open"
  BY <1>1 DEF Outcome
<1>5. Outcome(c)' = o
  <2>1. status'[c] = o /\ answeredBy'[c] # 0
    BY <1>0, <1>1, <1>2, <1>3 DEF TypeOK
  <2>2. o \in {"acknowledged", "failed", "expired"}
    OBVIOUS
  <2> QED
    BY <2>1, <2>2 DEF Outcome
<1>6. \A x \in Commands \ {c} : Outcome(x)' = Outcome(x)
  <2> TAKE x \in Commands \ {c}
  <2>1. status'[x] = status[x] /\ answeredBy'[x] = answeredBy[x]
    BY <1>0, <1>2 DEF TypeOK
  <2> QED
    BY <2>1 DEF Outcome
<1>7. [x \in Commands |-> Outcome(x)]' = [[x \in Commands |-> Outcome(x)] EXCEPT ![c] = o]
  BY <1>1, <1>5, <1>6
<1>8. [x \in Devices |-> AuditLog(x)]' =
            [[x \in Devices |-> AuditLog(x)] EXCEPT ![DeviceOf[c]] = Append(@, <<c, o>>)]
  <2>1. /\ AuditLog(d)' = Append(AuditLog(d), <<c, event.outcome>>)
        /\ \A x \in Devices \ {d} : AuditLog(x)' = AuditLog(x)
    BY <1>1, LogGrows
  <2> QED
    BY <1>1, <2>1
<1>9. c \in Log!Open
  BY <1>1, <1>4 DEF Log!Open
<1>10. Log!Answer(c, o)
  BY <1>2, <1>3, <1>7, <1>8, <1>9 DEF Log!Answer
<1> QED
  BY <1>1, <1>10 DEF Log!LogNext

\* Every step of the queue is a step of the log, or none.
LEMMA StepRefines == QueueInv /\ QueueInv' /\ [Next]_vars => [Log!LogNext]_(Log!logVars)
<1> SUFFICES ASSUME QueueInv, QueueInv', [Next]_vars PROVE [Log!LogNext]_(Log!logVars)
  OBVIOUS
<1>1. ASSUME NEW c \in Commands, Enqueue(c) PROVE Log!LogNext
  BY <1>1, EnqueueRefines DEF Log!LogNext
<1>2. ASSUME NEW c \in Commands, DeadlinePasses(c) PROVE Log!LogNext
  BY <1>2, DeadlineRefines DEF Log!LogNext
<1>3. ASSUME NEW c \in Commands, LeaseRunsOut(c) PROVE UNCHANGED Log!logVars
  BY <1>3, LeaseRefines
<1>4. ASSUME NEW w \in WorkerIds, NEW D, Claim(w, D) PROVE Log!LogNext
  BY <1>4, ClaimRefines
<1>5. ASSUME NEW k \in claims, NEW o \in Outcomes, Acknowledge(k, o) PROVE Log!LogNext
  BY <1>5, AnswerRefines
<1>6. CASE UNCHANGED vars
  <2>1. UNCHANGED <<status, attempts, overdue, answeredBy>> /\ ingestVars' = ingestVars
    BY <1>6 DEF vars, commandVars
  <2>2. [x \in Commands |-> Outcome(x)]' = [x \in Commands |-> Outcome(x)]
    BY <2>1 DEF Outcome
  <2> QED
    BY <2>1, <2>2, LogsStay DEF Log!logVars
<1> QED
  BY <1>1, <1>2, <1>3, <1>4, <1>5, <1>6 DEF Next

\* For any commands, claims and answers, the queue with its audit events does
\* what the command log promises: one answer ends a command, it answers the
\* latest hand-out, and the log of the device tells every answer once.
THEOREM QueueRefines == Spec => ImplementsCommandLog
  BY InitRefines, StepRefines, QueueInvariant, PTL DEF ImplementsCommandLog, Log!LogSpec, Spec

=============================================================================
