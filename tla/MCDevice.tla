-------------------------------- MODULE MCDevice --------------------------------
(* Device for TLC: see device.cfg. *)
EXTENDS Device

MCFloorReadings   == {20}
MCVehicleReadings == {8}
================================================================================
