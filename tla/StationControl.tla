--------------------------- MODULE StationControl ----------------------------
(***************************************************************************)
(* Units passing stations (blueprints/process_ctrl.py).  A request reads   *)
(* the configuration and the locks, finds or creates the unit's flow row   *)
(* and then writes its record: separate transactions, so requests for one  *)
(* unit interleave.                                                        *)
(*                                                                         *)
(* Two others write these tables, each in one transaction: the import of a *)
(* machine's inspection report (services/machine_access.py) and a          *)
(* concession (services/quality_disposition.py).  They give the unit a     *)
(* flow row when it has none, and move none it has: the pass a machine     *)
(* reports is a record, and the row keeps its station.                     *)
(*                                                                         *)
(* Judging a pass reads max_pass_count from the configuration, a column    *)
(* no schema of the repository gives base_station_config: at a station     *)
(* with an active configuration the request fails before it has judged.    *)
(***************************************************************************)
EXTENDS Tables, Naturals, Sequences, FiniteSets

CONSTANTS Units, Stations, Materials, NoMaterial, Locks,
          Handlers,         \* requests served at the same time
          MaxStationRecords \* bound: rows of prod_station_record

ASSUME StationAssumption == IsFiniteSet(Handlers)

MOVES == {"pass", "rework", "return"}      \* of a request: they set current_station
RequestActions == MOVES \cup {"skip", "exit"}
StationActions == RequestActions \cup {"defect", "concession"}

Request == [sn : Units, station : Stations, action : RequestActions,
            stage : {"judged", "missing", "created", "found"}, flow : Nat]

VARIABLES configured,  \* stations with a row of status 1 in base_station_config
          usable,      \* base_material.status = 1
          lock,        \* prod_material_lock
          unitFlow,    \* prod_station_flow, by id
          record,      \* prod_station_record, by id; by machine: with a machine_request_id
          request,     \* what each handler is doing
          failed       \* history: a pass has ended in an exception

stationVars == <<configured, usable, lock, unitFlow, record, request, failed>>

StationInit ==
    /\ configured = {} /\ usable = Materials
    /\ lock = [k \in Locks |-> NoRow]
    /\ unitFlow = <<>> /\ record = <<>>
    /\ request = [h \in Handlers |-> NoCall]
    /\ failed = FALSE

Locked(m) == \E k \in Locks : lock[k] = [material |-> m, active |-> TRUE]

FlowsOf(sn) == {f \in DOMAIN unitFlow : unitFlow[f].sn = sn}
Latest(sn) == CHOOSE f \in FlowsOf(sn) : \A g \in FlowsOf(sn) : g <= f

-----------------------------------------------------------------------------
(* Configuration, materials and locks.                                     *)

Configure(st) ==
    /\ configured' = IF st \in configured THEN configured \ {st} ELSE configured \cup {st}
    /\ UNCHANGED <<usable, lock, unitFlow, record, request, failed>>

SwitchMaterial(m) ==
    /\ usable' = IF m \in usable THEN usable \ {m} ELSE usable \cup {m}
    /\ UNCHANGED <<configured, lock, unitFlow, record, request, failed>>

LockMaterial(k, m) ==
    /\ lock[k] = NoRow
    /\ lock' = [lock EXCEPT ![k] = [material |-> m, active |-> TRUE]]
    /\ UNCHANGED <<configured, usable, unitFlow, record, request, failed>>

UnlockMaterial(k) ==
    /\ lock[k] # NoRow /\ lock[k].active
    /\ lock' = [lock EXCEPT ![k].active = FALSE]
    /\ UNCHANGED <<configured, usable, unitFlow, record, request, failed>>

-----------------------------------------------------------------------------
(* A request, from its checks to its record.                               *)

Accept(h, sn, st, action) ==
    /\ request[h] = NoCall
    /\ request' = [request EXCEPT ![h] =
          [sn |-> sn, station |-> st, action |-> action, stage |-> "judged", flow |-> 0]]

JudgePass(h, sn, st, m) ==
    /\ st \notin configured
    /\ m # NoMaterial => m \in usable /\ ~ Locked(m)
    /\ Accept(h, sn, st, "pass")
    /\ UNCHANGED <<configured, usable, lock, unitFlow, record, failed>>

FailPass(h, st) ==
    /\ request[h] = NoCall
    /\ st \in configured
    /\ failed' = TRUE
    /\ UNCHANGED <<configured, usable, lock, unitFlow, record, request>>

AcceptOther(h, sn, st, action) ==
    /\ action # "pass"
    /\ Accept(h, sn, st, action)
    /\ UNCHANGED <<configured, usable, lock, unitFlow, record, failed>>

\* The newest flow row of the unit; only a pass goes on without one.
FindFlow(h) ==
    LET r == request[h]
    IN /\ r # NoCall /\ r.stage \in {"judged", "created"}
       /\ request' = [request EXCEPT ![h] =
            IF FlowsOf(r.sn) # {} THEN [r EXCEPT !.stage = "found", !.flow = Latest(r.sn)]
            ELSE IF r.action = "pass" THEN [r EXCEPT !.stage = "missing"]
            ELSE NoCall]
       /\ UNCHANGED <<configured, usable, lock, unitFlow, record, failed>>

CreateFlow(h) ==
    LET r == request[h]
    IN /\ r # NoCall /\ r.stage = "missing"
       /\ unitFlow' = Append(unitFlow, [sn |-> r.sn, station |-> r.station])
       /\ request' = [request EXCEPT ![h].stage = "created"]
       /\ UNCHANGED <<configured, usable, lock, record, failed>>

FaultyWriteRecord(h) ==   \* moves the unit's newest flow row, not the one it found
    LET r == request[h]
    IN /\ r # NoCall /\ r.stage = "found"
       /\ Len(record) < MaxStationRecords
       /\ record' = Append(record, [flow |-> r.flow, station |-> r.station, action |-> r.action,
                                    by |-> "request"])
       /\ unitFlow' = IF r.action \in MOVES
                      THEN [unitFlow EXCEPT ![Latest(r.sn)].station = r.station] ELSE unitFlow
       /\ request' = [request EXCEPT ![h] = NoCall]
       /\ UNCHANGED <<configured, usable, lock, failed>>

WriteRecord(h) ==
    LET r == request[h]
    IN /\ r # NoCall /\ r.stage = "found"
       /\ Len(record) < MaxStationRecords
       /\ record' = Append(record, [flow |-> r.flow, station |-> r.station, action |-> r.action,
                                    by |-> "request"])
       /\ unitFlow' = IF r.action \in MOVES
                      THEN [unitFlow EXCEPT ![r.flow].station = r.station] ELSE unitFlow
       /\ request' = [request EXCEPT ![h] = NoCall]
       /\ UNCHANGED <<configured, usable, lock, failed>>

-----------------------------------------------------------------------------
(* A record of the newest flow row, or of a new one, beside the requests.  *)

WriteBeside(sn, st, action) ==
    LET none == FlowsOf(sn) = {}
    IN /\ Len(record) < MaxStationRecords
       /\ unitFlow' = IF none THEN Append(unitFlow, [sn |-> sn, station |-> st]) ELSE unitFlow
       /\ record' = Append(record, [flow |-> IF none THEN Len(unitFlow) + 1 ELSE Latest(sn),
                                    station |-> st, action |-> action, by |-> "machine"])
       /\ UNCHANGED <<configured, usable, lock, request, failed>>

MachineReport(sn, st) == \E action \in {"pass", "defect"} : WriteBeside(sn, st, action)
Concede(sn, st) == WriteBeside(sn, st, "concession")

StationNext ==
    \/ \E st \in Stations : Configure(st)
    \/ \E m \in Materials : SwitchMaterial(m) \/ \E k \in Locks : LockMaterial(k, m)
    \/ \E k \in Locks : UnlockMaterial(k)
    \/ \E sn \in Units, st \in Stations : MachineReport(sn, st) \/ Concede(sn, st)
    \/ \E h \in Handlers :
          \/ \E sn \in Units, st \in Stations :
                \/ \E m \in Materials \cup {NoMaterial} : JudgePass(h, sn, st, m)
                \/ \E action \in RequestActions : AcceptOther(h, sn, st, action)
          \/ \E st \in Stations : FailPass(h, st)
          \/ FindFlow(h) \/ CreateFlow(h) \/ WriteRecord(h)

StationSpec == StationInit /\ [][StationNext]_stationVars

-----------------------------------------------------------------------------
(* Properties.                                                             *)

\* The variables hold rows of the tables' types, and every record and every
\* found flow refers to a flow row.
StationTypeOK ==
    /\ configured \subseteq Stations /\ usable \subseteq Materials /\ failed \in BOOLEAN
    /\ lock \in [Locks -> [material : Materials, active : BOOLEAN] \cup {NoRow}]
    /\ unitFlow \in Seq([sn : Units, station : Stations])
    /\ record \in Seq([flow : DOMAIN unitFlow, station : Stations, action : StationActions,
                       by : {"request", "machine"}])
    /\ request \in [Handlers -> Request \cup {NoCall}]
    /\ \A h \in Handlers : request[h] # NoCall /\ request[h].stage = "found" =>
          request[h].flow \in FlowsOf(request[h].sn)

MovesOf(f) ==
    {i \in DOMAIN record : record[i].flow = f /\ record[i].action \in MOVES /\ record[i].by = "request"}

\* However requests for one unit, reports of its machines and concessions
\* overlap, a flow row shows the station of the last request that moved it; and
\* a unit gets more than one flow row only from requests that all found none,
\* at most one each, beside one of a report or concession that found none too.
StationTrail ==
    /\ \A f \in DOMAIN unitFlow : \A i \in MovesOf(f) :
          (\A j \in MovesOf(f) : j <= i) => unitFlow[f].station = record[i].station
    /\ \A sn \in Units :
          Cardinality(FlowsOf(sn))
          + Cardinality({h \in Handlers : request[h] # NoCall /\ request[h].sn = sn
                                          /\ request[h].stage = "missing"})
             <= Cardinality(Handlers) + 1

\* The configuration of a station is what its passes are checked against
\* (API.md, pass-station): no pass there ends in an exception.
ConfiguredStationsCheck == ~ failed
=============================================================================
