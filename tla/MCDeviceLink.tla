----------------------------- MODULE MCDeviceLink -----------------------------
(* Instances of DeviceLink for TLC; their .cfg files give all the constants.  *)
EXTENDS DeviceLink
================================================================================
