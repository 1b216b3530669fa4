-------------------------------- MODULE MCCloudConn --------------------------------
(* The instances of CloudConn that TLC checks: MCCloudConn.cfg,                 *)
(* MCCloudConnReboot.cfg and MCCloudConnCycle.cfg.                             *)
EXTENDS CloudConn

=============================================================================
