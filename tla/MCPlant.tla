------------------------------- MODULE MCPlant -------------------------------
(***************************************************************************)
(* What runs beside the production chain, one module after the other in    *)
(* one run: every behaviour takes the part of one of them, the others stay *)
(* as they are, for no two of them share state.  "passes" and "locks" are  *)
(* both stations: units passing them, and what is configured meanwhile;    *)
(* "andon" and "forms" are both the shop floor.                            *)
(***************************************************************************)
EXTENDS StationControl, ToolLending, EquipmentCare, DatabaseSessions, RateLimiter,
        AndonCalls, RecordOrder, MachineGateway, CsvCollector, AimEventBridge, TLC

MCLimitsOf == [r \in Routes |-> IF r = "login" THEN {<<1, 2>>} ELSE {<<2, 1>>, <<2, 3>>}]
MCAdjustments == {1, -1}
MCContentOf == [f \in Files |-> IF f = "f3" THEN "y" ELSE "x"]
Children_Symmetry == Permutations(Children)

VARIABLE part

Init ==
    /\ part \in {"passes", "locks", "tools", "equipment", "sessions", "limiter", "andon",
                 "forms", "order", "gateway", "collector", "bridge"}
    /\ StationInit /\ ToolInit /\ CareInit /\ SessionsInit /\ LimiterInit /\ FloorInit
    /\ OrderInit /\ GatewayInit /\ CollectorInit /\ BridgeInit
    /\ part # "sessions" => dialect = "sqlite"
    /\ part # "gateway" => \A e \in Endpoints : ~ config[e].enabled /\ config[e].version = 1
    /\ shared = "u1"

\* Who does not take part.
NoStation == UNCHANGED stationVars
NoTool == UNCHANGED toolVars
NoCare == UNCHANGED careVars
NoSession == UNCHANGED sessionVars
NoLimiter == UNCHANGED limiterVars
NoFloor == UNCHANGED floorVars
NoOrder == UNCHANGED orderVars
NoGateway == UNCHANGED gatewayVars
NoCollector == UNCHANGED collectorVars
NoBridge == UNCHANGED bridgeVars
NoLink == NoGateway /\ NoCollector /\ NoBridge
NoShop == NoStation /\ NoTool /\ NoCare /\ NoSession /\ NoLimiter /\ NoFloor /\ NoOrder

\* Bounds: one request at a time and one record while stations are configured;
\* one kind each of the requests that move a unit, apart from a pass, and of
\* those that do not, while units pass.
StationTurn ==
    /\ part \in {"passes", "locks"} /\ StationNext
    /\ part = "passes" => /\ UNCHANGED <<configured, usable, lock>>
                          /\ \A h \in Handlers : request'[h] # NoCall =>
                                request'[h].action \in {"pass", "rework", "skip"}
    /\ part = "locks" => /\ Len(record') <= 1 /\ request'["h2"] = NoCall
                         /\ \A i \in DOMAIN record' : record'[i].by = "request"
    /\ NoTool /\ NoCare /\ NoSession /\ NoLimiter /\ NoFloor /\ NoOrder /\ NoLink

ToolTurn ==
    /\ part = "tools" /\ ToolNext
    /\ NoStation /\ NoCare /\ NoSession /\ NoLimiter /\ NoFloor /\ NoOrder /\ NoLink

CareTurn ==
    /\ part = "equipment" /\ CareNext
    /\ NoStation /\ NoTool /\ NoSession /\ NoLimiter /\ NoFloor /\ NoOrder /\ NoLink

\* Bound: on PostgreSQL, where nothing is kept, what has been promised.
SessionTurn ==
    /\ part = "sessions" /\ SessionsNext
    /\ promised' \in -1 .. MaxPlanQty
    /\ NoStation /\ NoTool /\ NoCare /\ NoLimiter /\ NoFloor /\ NoOrder /\ NoLink

LimiterTurn ==
    /\ part = "limiter" /\ LimiterNext
    /\ NoStation /\ NoTool /\ NoCare /\ NoSession /\ NoFloor /\ NoOrder /\ NoLink

FloorTurn ==
    /\ part \in {"andon", "forms"} /\ FloorNext
    /\ part = "andon" => UNCHANGED form
    /\ part = "forms" => UNCHANGED <<workstation, call, removal>>
    /\ NoStation /\ NoTool /\ NoCare /\ NoSession /\ NoLimiter /\ NoOrder /\ NoLink

\* Bound: one record is deleted, and the steps of one mover are to an end of the list.
OrderTurn ==
    /\ part = "order" /\ OrderNext
    /\ move'["c2"] # NoCall => move'["c2"].target \in Targets
    /\ \A r, s \in ListRecords : listed'[r] = Deleted /\ listed'[s] = Deleted => r = s
    /\ NoStation /\ NoTool /\ NoCare /\ NoSession /\ NoLimiter /\ NoFloor /\ NoLink

\* Bound: processes are left behind once, and the settings stay from then on.
GatewayTurn ==
    /\ part = "gateway" /\ GatewayNext
    /\ overrun # {} => /\ UNCHANGED config
                       /\ monitor' = "down" => \A e \in Endpoints : managed[e] = NoChild
    /\ NoCollector /\ NoBridge /\ NoShop

CollectorTurn == part = "collector" /\ CollectorNext /\ NoGateway /\ NoBridge /\ NoShop
BridgeTurn == part = "bridge" /\ BridgeNext /\ NoGateway /\ NoCollector /\ NoShop

Next ==
    /\ \/ StationTurn \/ ToolTurn \/ CareTurn \/ SessionTurn \/ LimiterTurn \/ FloorTurn
       \/ OrderTurn \/ GatewayTurn \/ CollectorTurn \/ BridgeTurn
    /\ UNCHANGED part

vars == <<part, stationVars, toolVars, careVars, sessionVars, limiterVars, floorVars, orderVars,
          gatewayVars, collectorVars, bridgeVars>>

Spec == Init /\ [][Next]_vars
=============================================================================
