---------------------------------- MODULE Fleet ----------------------------------
(* The GPS trackers and the delivery zones of delivery_service, side by side: they  *)
(* share no table.                                                                  *)
EXTENDS Trackers, Zones

fleetVars == <<gpsVars, zones>>

FleetInit == TrackersInit /\ ZonesInit

FleetNext ==
    \/ TrackersNext /\ UNCHANGED zones
    \/ ZonesNext /\ UNCHANGED gpsVars

FleetSpec == FleetInit /\ [][FleetNext]_fleetVars

(* Trackers: no point without its tracker, none proved with a secret that had been    *)
(* replaced, the limits and the ceiling kept, one tracker on a vehicle; zones: the    *)
(* first active one that an address is in, by a geometry that is exact                *)
(* (ingest_point, update_device, resolve, point_in_polygon).                          *)
FleetOK == /\ TrackersTypeOK /\ PointsHaveTracker /\ SecretsCutOff
           /\ TrackersLimited /\ CeilingHolds /\ OneTrackerEach
           /\ ZonesOK
=============================================================================
