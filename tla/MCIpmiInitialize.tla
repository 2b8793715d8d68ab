--------------------------- MODULE MCIpmiInitialize ---------------------------
(* One boot with three polls per loop, an execution context response more    *)
(* than one byte shorter than the device ID, and self tests with no flag, a  *)
(* flag of the hard kind, and one that is not.                               *)
EXTENDS IpmiInitialize

MCSelfTestParams == {{}, {"FRU_CORRUPT"}, {"SDR_EMPTY"}}
===============================================================================
