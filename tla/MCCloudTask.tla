------------------------------ MODULE MCCloudTask ------------------------------
(* CloudTask for TLC: the retry parameters of azure_iot_cloud.c (five retries,      *)
(* 500 ms doubled up to 5000 ms) and two heap blocks, so that a block allocated     *)
(* while another is live can be seen.                                               *)
EXTENDS CloudTask
================================================================================
