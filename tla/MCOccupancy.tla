------------------------------ MODULE MCOccupancy ------------------------------
(* Occupancy for TLC: a floor read as 20 or 21 cm, a vehicle as 8, a lost echo as  *)
(* 40; 2^32 scaled to 128, above the sum of the probes as on the device.            *)
EXTENDS Occupancy

MCFloorReadings   == {20, 21}
MCVehicleReadings == {8}
================================================================================
