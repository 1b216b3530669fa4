------------------------------- MODULE BeaconRefresh -------------------------------
(***************************************************************************)
(* Beacons with a memory of the beacons that were dropped although their   *)
(* device is listed: what src/src/btmesh.c says of refreshing an entry.    *)
(***************************************************************************)
EXTENDS Beacons

VARIABLE
    ignored   \* history: listed devices whose last beacon did not restart their timer

refreshVars == <<vars, ignored>>

RefreshInit == Init /\ ignored = {}

RefreshNext ==
    \/ \E u \in Uuid :
        /\ BeaconRecv(u)
        /\ ignored' = IF Listed(u) /\ (Len(list) = MaxBeacon \/ IsBlocked(u))
                      THEN ignored \cup {u}
                      ELSE ignored \ {u}
    \/ /\ ListStep \/ ShellStep
       /\ ignored' = ignored \cap ListedUuids'

RefreshSpec == RefreshInit /\ [][RefreshNext]_refreshVars

-----------------------------------------------------------------------------
(* RefreshKeepsListed: a beacon of a listed device that is not blocked restarts *)
(* its timer, "so the beacon stays valid".                                  *)
RefreshKeepsListed == [][\A u \in ignored' \ ignored : u \in blocked]_refreshVars

=============================================================================
