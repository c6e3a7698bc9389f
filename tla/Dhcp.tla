-------------------------------- MODULE Dhcp --------------------------------
(***************************************************************************)
(* DHCPManager: address pools, allocation by first fit, release.           *)
(* Addresses are numbers 0 .. Top.  net.IP has a 4-byte and a 16-byte      *)
(* form: incrementing the last address of the 4-byte form wraps to 0, of   *)
(* the 16-byte form it gives a value compareIP finds larger than any end.  *)
(* Both ends of a range have the same form.  Nothing reads the order of    *)
(* the lease list: it is kept as the number of entries of every address.   *)
(***************************************************************************)
EXTENDS Api

CONSTANTS PoolNames, Top

ASSUME TopAssumption == Top \in Nat

VARIABLE dhcp           \* pool -> [start, end, short, allocated, leases]

dhVars == <<answer, dhcp>>
Address == 0 .. Top
DhInit == answer = Pending /\ dhcp = Empty

\* The range is stored as given: neither order nor form is checked.
AddPool ==
    \E p \in PoolNames, a, b \in Address, short \in BOOLEAN :
        \/ p \in DOMAIN dhcp /\ Reply(409) /\ UNCHANGED dhcp
        \/ /\ p \notin DOMAIN dhcp /\ Reply(201)
           /\ dhcp' = Put(dhcp, p, [start |-> a, end |-> b, short |-> short,
                                    allocated |-> {}, leases |-> Empty])

incrementIP(ip, short) == IF ip = Top /\ short THEN 0 ELSE ip + 1
compareIP(a, b) == IF a < b THEN -1 ELSE IF a > b THEN 1 ELSE 0

\* The addresses the loop of AllocateIP looks at, the start first.
Candidates(pool) ==
    LET c[k \in 0 .. (Top + 1)] ==
            IF k = 0 THEN pool.start ELSE incrementIP(c[k - 1], pool.short)
    IN  c

\* The loop gets to the k-th candidate: all before it are taken and none but
\* the first, which is not compared, lies beyond the end.
Reaches(pool, k) ==
    /\ \A j \in 0 .. (k - 1) : Candidates(pool)[j] \in pool.allocated
    /\ \A j \in 1 .. k : compareIP(Candidates(pool)[j], pool.end) <= 0

\* One more entry of the lease list.
Lease(leases, ip) == Put(leases, ip, IF ip \in DOMAIN leases THEN leases[ip] + 1 ELSE 1)

\* The loop ends with an address, with "exhausted", or not at all.
AllocateIP(p) ==
    \/ p \notin DOMAIN dhcp /\ Reply(404) /\ UNCHANGED dhcp
    \/ /\ p \in DOMAIN dhcp
       /\ LET pool == dhcp[p]
              free == {k \in Address : /\ Reaches(pool, k)
                                       /\ Candidates(pool)[k] \notin pool.allocated}
          IN  \/ /\ \E k \in free :
                       dhcp' = [dhcp EXCEPT ![p].allocated = @ \cup {Candidates(pool)[k]},
                                            ![p].leases = Lease(@, Candidates(pool)[k])]
                 /\ Reply(200)
              \/ /\ free = {} /\ UNCHANGED dhcp
                 /\ \E k \in Address : /\ Reaches(pool, k)
                                       /\ compareIP(Candidates(pool)[k + 1], pool.end) > 0
                 /\ Reply(507)

\* Mutant: the address is not taken out of the allocated set.
ReleaseIPKept ==
    \E p \in DOMAIN dhcp, ip \in Address :
        \/ ip \notin dhcp[p].allocated /\ Reply(404) /\ UNCHANGED dhcp
        \/ /\ ip \in dhcp[p].allocated /\ Reply(200)
           /\ dhcp' = [dhcp EXCEPT ![p].leases = Del(@, ip)]

ReleaseIP ==
    \E p \in PoolNames, ip \in Address :
        \/ p \notin DOMAIN dhcp /\ Reply(404) /\ UNCHANGED dhcp
        \/ p \in DOMAIN dhcp /\ ip \notin dhcp[p].allocated /\ Reply(404) /\ UNCHANGED dhcp
        \/ /\ p \in DOMAIN dhcp /\ ip \in dhcp[p].allocated /\ Reply(200)
           /\ dhcp' = [dhcp EXCEPT ![p].allocated = @ \ {ip},
                                   ![p].leases = Del(@, ip)]

ListLeases == Reply(200) /\ UNCHANGED dhcp
GenerateDnsmasqConfig == Reply(200) /\ UNCHANGED dhcp

DhNext == \/ AddPool \/ ReleaseIP \/ ListLeases \/ GenerateDnsmasqConfig
          \/ \E p \in PoolNames : AllocateIP(p)

DhSpec == DhInit /\ [][DhNext]_dhVars

-----------------------------------------------------------------------------
Proper(pool) == pool.start <= pool.end /\ (pool.short => pool.end < Top)

\* No address is leased twice, the allocated set and the lease list agree,
\* and with a proper range every lease lies in it.
LeasesSound ==
    \A p \in DOMAIN dhcp :
        LET pool == dhcp[p]
        IN  /\ DOMAIN pool.leases = pool.allocated
            /\ \A ip \in pool.allocated : pool.leases[ip] = 1
            /\ Proper(pool) => pool.allocated \subseteq pool.start .. pool.end

\* A proper pool is reported exhausted only when every address of its range
\* is leased: released addresses are found again by the next scan.
ExhaustedIsFull ==
    [][\A p \in DOMAIN dhcp :
          AllocateIP(p) /\ answer' = 507 /\ Proper(dhcp[p]) =>
              DOMAIN dhcp[p].leases = dhcp[p].start .. dhcp[p].end]_dhVars
=============================================================================
