----------------------------- MODULE MCServices -----------------------------
(***************************************************************************)
(* The services behind the REST and gRPC servers, and the front of the     *)
(* REST server, share nothing but the answer they give: each behaviour     *)
(* runs one of them (focus) and leaves the others as they start.           *)
(***************************************************************************)
EXTENDS Storage, VolumeDrivers, Network, Dhcp, Devices, Registry,
        Gateway, OAuth2, RateLimiter, Dispatch, Cli, TLC

VARIABLE focus

stOwn == <<stored, counters, calls, wrapped, disks>>
vdOwn == <<ceph, zfs>>
nwOwn == <<nft, tables, links, chain, netCalls>>
dvOwn == <<sysfs, devices, kernel>>
rgOwn == <<images, nextImageID, templates, nextTemplateID, entering>>
gwOwn == <<conf, authVars, boots, desk>>
oaOwn == <<simulated, codes, nextCode, starts, exchanged>>
dsOwn == <<backends, inv, created, pending>>

vars == <<focus, answer, stOwn, vdOwn, nwOwn, dhcp, dvOwn, rgOwn, gwOwn, oaOwn, rlVars, dsOwn, cliVars>>

Init ==
    /\ focus \in {"storage", "ceph", "zfs", "network", "dhcp", "devices",
                  "registry", "gateway", "oauth2", "limiter", "compute", "cli"}
    /\ StInit /\ VdInit /\ DhInit /\ RgInit /\ RlInit /\ DsInit
    /\ NwInit /\ (nft => focus = "network")
    /\ GwInit /\ (conf.rbac \/ conf.secret \/ conf.db => focus = "gateway")
    /\ OaInit /\ (simulated => focus = "oauth2")
    /\ DvInit /\ (sysfs => focus = "devices")
    /\ CliInit /\ (rbac => focus = "cli")

Storage_ == /\ focus = "storage" /\ StNext
            /\ UNCHANGED <<vdOwn, nwOwn, dhcp, dvOwn, rgOwn, gwOwn, oaOwn, rlVars, dsOwn, cliVars>>
Volumes_ == /\ \/ focus = "ceph" /\ CephNext
               \/ focus = "zfs" /\ ZfsNext
            /\ UNCHANGED <<stOwn, nwOwn, dhcp, dvOwn, rgOwn, gwOwn, oaOwn, rlVars, dsOwn, cliVars>>
Network_ == /\ focus = "network" /\ NwNext
            /\ UNCHANGED <<stOwn, vdOwn, dhcp, dvOwn, rgOwn, gwOwn, oaOwn, rlVars, dsOwn, cliVars>>
Dhcp_ == /\ focus = "dhcp" /\ DhNext
         /\ UNCHANGED <<stOwn, vdOwn, nwOwn, dvOwn, rgOwn, gwOwn, oaOwn, rlVars, dsOwn, cliVars>>
Devices_ == /\ focus = "devices" /\ DvNext
            /\ UNCHANGED <<stOwn, vdOwn, nwOwn, dhcp, rgOwn, gwOwn, oaOwn, rlVars, dsOwn, cliVars>>
Registry_ == /\ focus = "registry" /\ RgNext
             /\ UNCHANGED <<stOwn, vdOwn, nwOwn, dhcp, dvOwn, gwOwn, oaOwn, rlVars, dsOwn, cliVars>>
Gateway_ == /\ focus = "gateway" /\ GwNext
            /\ UNCHANGED <<stOwn, vdOwn, nwOwn, dhcp, dvOwn, rgOwn, oaOwn, rlVars, dsOwn, cliVars>>
OAuth2_ == /\ focus = "oauth2" /\ OaNext
           /\ UNCHANGED <<stOwn, vdOwn, nwOwn, dhcp, dvOwn, rgOwn, gwOwn, rlVars, dsOwn, cliVars>>
Limiter_ == /\ focus = "limiter" /\ RlNext
            /\ UNCHANGED <<answer, stOwn, vdOwn, nwOwn, dhcp, dvOwn, rgOwn, gwOwn, oaOwn, dsOwn, cliVars>>
Compute_ == /\ focus = "compute" /\ DsNext
            /\ UNCHANGED <<stOwn, vdOwn, nwOwn, dhcp, dvOwn, rgOwn, gwOwn, oaOwn, rlVars, cliVars>>
Cli_ == /\ focus = "cli" /\ CliNext
        /\ UNCHANGED <<stOwn, vdOwn, nwOwn, dhcp, dvOwn, rgOwn, gwOwn, oaOwn, rlVars, dsOwn>>

Next == /\ UNCHANGED focus
        /\ \/ Storage_ \/ Volumes_ \/ Network_ \/ Dhcp_ \/ Devices_
           \/ Registry_ \/ Gateway_ \/ OAuth2_ \/ Limiter_ \/ Compute_ \/ Cli_

Spec == Init /\ [][Next]_vars

-----------------------------------------------------------------------------
(* What TLC tells states apart by: the part in focus without the answer,   *)
(* which no guard reads, and without data no guard and no property reads.  *)

\* A token that is expired or signed with another key stays so.
Dead(t) == t \in expired \/ issued[t].key # signingKey

DeskView(d) ==
    IF d.path \notin Checked THEN <<d.path = "vms", d.spent>>
    ELSE <<d.at, d.path, d.spent, IF d.path = "users" THEN d.method ELSE "",
           IF d.at = "checked" /\ d.path = "users" THEN NoCred ELSE d.cred>>

View ==
    <<focus,
      CASE focus = "storage" -> <<stored, counters, calls, wrapped>>
        [] focus \in {"ceph", "zfs"} -> vdOwn
        [] focus = "network" -> <<nft, zones, zoneIfaces, rules, nextRuleID, links, chain, netCalls>>
        [] focus = "dhcp" -> <<dhcp>>
        [] focus = "devices" -> dvOwn
        [] focus = "registry" -> rgOwn
        [] focus = "gateway" ->
              <<conf, accounts, boots, [c \in DOMAIN desk |-> DeskView(desk[c])],
                [t \in Tokens |-> IF Dead(t) THEN << >>
                                  ELSE <<issued[t].role, t \in blacklist, t \in loggedOut>>]>>
        [] focus = "oauth2" -> oaOwn
        [] focus = "limiter" -> rlVars
        [] focus = "compute" -> dsOwn
        [] focus = "cli" -> <<rbac, tokenFile, accepted, logins, shells, run, SuccessIsServed>>>>

Interchangeable == Permutations(Clients)
=============================================================================
