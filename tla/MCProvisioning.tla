------------------------------ MODULE MCProvisioning ------------------------------
(* The instances of Provisioning that TLC checks: MCProvisioning.cfg and        *)
(* MCProvisioningCli.cfg give the devices as model values and the bounds.      *)
EXTENDS Provisioning

=============================================================================
