---------------------------------- MODULE Zones ----------------------------------
(***************************************************************************)
(* The delivery zones of delivery_service, and which of them an address is *)
(* in: the first of the active ones, in the order of their creation, that  *)
(* the ray to the east of the point says it is in.                         *)
(*                                                                         *)
(* The requests read one row and write it in one transaction; two that     *)
(* change one zone overwrite each other's columns, no more.  Coordinates   *)
(* are whole numbers, and the code's division by the height of an edge is  *)
(* multiplied out: the rounding of floating point is left out.  The        *)
(* address suggestions of DaData, beside the zones in the router, are not  *)
(* modelled, nor is the coefficient, which is kept like the price.         *)
(***************************************************************************)
EXTENDS Integers, Sequences, FiniteSets

CONSTANTS
    Polygons,      \* what the staff may draw: sequences of points <<lat, lon>>
    ZoneFees,      \* fixed prices of a delivery
    NoFee,
    Places,        \* addresses, as points
    MaxZones       \* bound: zones that are ever drawn

ASSUME ZonesAssumption == NoFee \notin ZoneFees /\ MaxZones \in Nat
ASSUME PolygonsAssumption ==
    /\ Polygons \subseteq Seq(Int \X Int) /\ Places \subseteq Int \X Int
    /\ \A p \in Polygons : Len(p) >= 3

VARIABLE zones   \* the delivery_zones table, in the order of created_at

ZonesInit == zones = << >>

-----------------------------------------------------------------------------
(* point_in_polygon *)

Lat(p) == p[1]
Lon(p) == p[2]

\* Mutant: an edge counts with both of its ends.
CrossesClosed(p, a, b) ==
    /\ Lat(a) # Lat(b)
    /\ \/ Lat(a) >= Lat(p) /\ Lat(b) <= Lat(p)
       \/ Lat(b) >= Lat(p) /\ Lat(a) <= Lat(p)
    /\ IF Lat(b) > Lat(a)
       THEN (Lon(p) - Lon(a)) * (Lat(b) - Lat(a)) < (Lon(b) - Lon(a)) * (Lat(p) - Lat(a))
       ELSE (Lon(p) - Lon(a)) * (Lat(b) - Lat(a)) > (Lon(b) - Lon(a)) * (Lat(p) - Lat(a))

\* The ray from p to the east crosses the edge from a to b: of the edge's two ends the lower
\* one counts, so that the corner of two edges is crossed once or twice as it should be.
Crosses(p, a, b) ==
    /\ (Lat(a) > Lat(p)) # (Lat(b) > Lat(p))
    /\ IF Lat(b) > Lat(a)
       THEN (Lon(p) - Lon(a)) * (Lat(b) - Lat(a)) < (Lon(b) - Lon(a)) * (Lat(p) - Lat(a))
       ELSE (Lon(p) - Lon(a)) * (Lat(b) - Lat(a)) > (Lon(b) - Lon(a)) * (Lat(p) - Lat(a))

Inside(p, polygon) ==
    LET n == Len(polygon)
        crossed == {i \in 1..n : Crosses(p, polygon[i], polygon[IF i = 1 THEN n ELSE i - 1])}
    IN Cardinality(crossed) % 2 = 1

-----------------------------------------------------------------------------
(* The zones *)

\* create_zone.
CreateZone(polygon, fee) ==
    /\ Len(zones) < MaxZones
    /\ zones' = Append(zones, [polygon |-> polygon, fee |-> fee, active |-> TRUE])

\* update_zone: the request leaves out what is null, so a fixed price is never taken back.
UpdateZone(i, polygon, fee, active) ==
    zones' = [zones EXCEPT ![i].polygon = polygon,
                           ![i].fee = IF fee = NoFee THEN @ ELSE fee,
                           ![i].active = active]

\* delete_zone: orders keep pointing at it.
DeleteZone(i) == zones' = [zones EXCEPT ![i].active = FALSE]

ActiveAt(p) == {i \in DOMAIN zones : zones[i].active /\ Inside(p, zones[i].polygon)}

\* resolve, for the preview of a price, for an order and for its edit.
Resolved(p) == IF ActiveAt(p) = {} THEN 0 ELSE CHOOSE i \in ActiveAt(p) : \A j \in ActiveAt(p) : i <= j

ZonesNext ==
    \/ \E polygon \in Polygons, fee \in ZoneFees \cup {NoFee} : CreateZone(polygon, fee)
    \/ \E i \in DOMAIN zones :
          \/ \E polygon \in Polygons, fee \in ZoneFees \cup {NoFee}, active \in BOOLEAN :
                /\ polygon = zones[i].polygon \/ (fee = NoFee /\ active = zones[i].active)
                /\ UpdateZone(i, polygon, fee, active)
          \/ DeleteZone(i)

ZonesSpec == ZonesInit /\ [][ZonesNext]_zones

-----------------------------------------------------------------------------
(* What the ray says, against what a polygon is *)

Turn(a, b, p) == (Lat(b) - Lat(a)) * (Lon(p) - Lon(a)) - (Lon(b) - Lon(a)) * (Lat(p) - Lat(a))

\* point_in_polygon for a triangle, drawn either way round: a point that is on the inner side of
\* its three edges is in it, one that is beyond an edge is not.
TriangleIsExact(t, p) ==
    LET turns == {Turn(t[1], t[2], p), Turn(t[2], t[3], p), Turn(t[3], t[1], p)}
        around == Turn(t[1], t[2], t[3])
    IN around # 0 =>
         /\ (\A x \in turns : x * around > 0) => Inside(p, t)
         /\ (\E x \in turns : x * around < 0) => ~Inside(p, t)

\* A zone that is cut in two along a line from its first corner: the places of the zone are in one
\* of its parts, those on the cut as well, and no other place is in one of them alone.
CutsAddUp(polygon, p) ==
    \A k \in 3..Len(polygon) - 1 :
        LET left  == SubSeq(polygon, 1, k)
            right == <<polygon[1]>> \o SubSeq(polygon, k, Len(polygon))
        IN Inside(p, polygon) <=> (Inside(p, left) # Inside(p, right))

\* zone_service.resolve: what an order pays for its place.  The geometry is exact, neighbours
\* share their border without a gap or an overlap, and the zone is an active one at that.
ZonesOK ==
    \A p \in Places :
        /\ \A i \in DOMAIN zones :
              /\ Len(zones[i].polygon) = 3 => TriangleIsExact(zones[i].polygon, p)
              /\ CutsAddUp(zones[i].polygon, p)
        /\ Resolved(p) # 0 =>
              /\ zones[Resolved(p)].active
              /\ \A i \in 1..Resolved(p) - 1 : ~zones[i].active \/ ~Inside(p, zones[i].polygon)
=============================================================================
