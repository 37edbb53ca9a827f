----------------------------- MODULE NetworkPlan -----------------------------
(***************************************************************************)
(* What deploy-cluster checks of its network knobs before it touches the    *)
(* host, and the DHCP reservations it then makes (deploy_cluster.rs:        *)
(* resolve_primary_macs, validate_extra_network, ip_in_cidr,                *)
(* check_extra_network_on_host, ensure_dhcp_reservation).  VM 0 is the      *)
(* control plane, VM i the i-th worker.  A knob gets its value when it is   *)
(* first looked at, and is forgotten once nothing reads it any more; the    *)
(* reservations a deploy finds on the network are any that earlier ones may *)
(* have left.                                                               *)
(***************************************************************************)
EXTENDS Integers, Sequences, FiniteSets

CONSTANTS
  MaxNetWorkers,   \* bound: entries of WORKER_NAMES
  MaxNic,          \* bound: different MACs
  AddrBits,        \* bound: width of an address (32 in the code)
  MaxLeft,         \* bound: reservations found on the network
  NetFaults        \* what the host may do: "dump" fails, "update" fails

ASSUME NetAssumption ==
  /\ MaxNetWorkers \in Nat /\ MaxNic \in Nat \ {0} /\ AddrBits \in Nat \ {0}
  /\ MaxLeft \in Nat /\ NetFaults \subseteq {"dump", "update"}

\* Powers of two: a range of prefix p has 2^(AddrBits - p) addresses, and 2^p such ranges
\* make up them all.
ASSUME PowersAssumption ==
  \A p \in 0 .. AddrBits : 2^p \in Nat \ {0} /\ 2^p * 2^(AddrBits - p) = 2^AddrBits

VARIABLES
  netStep,    \* the check at hand
  ruling,     \* "open", "ok" or "refused"
  workers,    \* number of WORKER_NAMES
  knobs,      \* the values the check at hand reads
  primary,    \* primary_macs: the MAC of each VM's first NIC, as it is written
  hosts,      \* the <host mac ip> entries of the network "default": MAC -> address
  pins,       \* of this deploy: VM -> the address CP_IP / WORKER_IPS gives it
  added,      \* of this deploy: the MACs it made an entry for
  warned      \* a WARN line was logged about a reservation

netVars == <<netStep, ruling, workers, knobs, primary, hosts, pins, added, warned>>
resVars == <<hosts, pins, added, warned>>

Distinct(f) == \A i, j \in DOMAIN f : f[i] = f[j] => i = j

NoKnobs == [none |-> TRUE]
NoAddr == 2^AddrBits
Addr == 0 .. 2^AddrBits - 1
Vms == 0 .. workers

(* MACs: a value and the case it is written in; 0 is no value at all.       *)
NoMac == <<0, "unset">>
BadMac == <<0, "bad">>
ValidMac == (1 .. MaxNic) \X {"lower", "upper"}
Mac == {NoMac, BadMac} \cup ValidMac
is_valid_mac(m) == m[1] # 0
CaseKept(m) == m
to_ascii_lowercase(m) == IF m[2] = "upper" THEN <<m[1], "lower">> ELSE m

\* CP_MAC / WORKER_MACS[i], and what derive_primary_mac makes of the VM's name.
\* The second is 24 bits of a hash: two names may share it.
MacEntry ==
  {[given |-> m, derived |-> 1] : m \in Mac \ {NoMac}}
    \cup {[given |-> NoMac, derived |-> d] : d \in 1 .. MaxNic}

NetSteps ==
  {"idle", "macs", "ranges", "family", "arrays", "extra", "addresses", "host", "reserve", "done"}

NetTypeOK ==
  /\ netStep \in NetSteps /\ ruling \in {"open", "ok", "refused"}
  /\ workers \in 0 .. MaxNetWorkers
  /\ \A i \in DOMAIN primary : primary[i] \in ValidMac
  /\ DOMAIN hosts \subseteq 1 .. MaxNic /\ \A m \in DOMAIN hosts : hosts[m] \in Addr
  /\ DOMAIN pins \subseteq Vms /\ \A i \in DOMAIN pins : pins[i] \in Addr
  /\ added \subseteq DOMAIN hosts /\ warned \in BOOLEAN

NetInit ==
  /\ netStep = "idle" /\ ruling = "open" /\ workers = 0
  /\ knobs = NoKnobs /\ primary = <<>> /\ hosts = <<>> /\ pins = <<>>
  /\ added = {} /\ warned = FALSE

Decide(ok) ==
  /\ ruling = "open" /\ ruling' = IF ok THEN "ok" ELSE "refused"
  /\ UNCHANGED <<netStep, workers, knobs, resVars>>

\* The check named s is next, and these are the values it reads.
Look(s, k) ==
  /\ netStep' = s /\ ruling' = "open" /\ knobs' = k
  /\ UNCHANGED <<workers, primary>>

(* ---- primary MACs -------------------------------------------------------*)

StartPlan ==
  /\ netStep = "idle"
  /\ \E n \in 0 .. MaxNetWorkers :
       /\ workers' = n
       /\ \E e \in [0 .. n -> MacEntry] : knobs' = [entries |-> e]
  /\ netStep' = "macs" /\ ruling' = "open"
  /\ UNCHANGED <<primary, resVars>>

MacOf(e) == IF e.given = NoMac THEN <<e.derived, "lower">> ELSE e.given

PrimaryCollides(e, i) ==
  \E j \in 0 .. i - 1 : to_ascii_lowercase(MacOf(e[j])) = to_ascii_lowercase(MacOf(e[i]))

resolve_primary_macs ==
  LET e == knobs.entries
      ok == \A i \in DOMAIN e : is_valid_mac(MacOf(e[i])) /\ ~PrimaryCollides(e, i)
  IN  /\ netStep = "macs" /\ Decide(ok)
      /\ primary' = IF ok THEN [i \in DOMAIN e |-> MacOf(e[i])] ELSE <<>>

LookRanges ==
  /\ netStep = "macs" /\ ruling = "ok"
  /\ Look("ranges", NoKnobs) /\ UNCHANGED resVars

\* POD_CIDR and SERVICE_CIDR are unset or well-formed, whatever EXTRA_NETWORK says.
CheckRanges ==
  /\ netStep = "ranges" /\ \E ok \in BOOLEAN : Decide(ok)
  /\ UNCHANGED primary

(* ---- the EXTRA_NET_* family ---------------------------------------------*)

Shape == {"unset", "bad", "good"}
Shapes == UNION {[1 .. k -> Shape] : k \in 0 .. MaxNetWorkers}

\* EXTRA_NETWORK, the two values of the control plane, and whether any entry of the two
\* arrays of the workers is not empty.
LookFamily ==
  /\ netStep = "ranges" /\ ruling = "ok"
  /\ \E net \in BOOLEAN, m \in Shape, a \in Shape, any \in BOOLEAN :
       Look("family", [network |-> net, mac |-> m, ip |-> a, any |-> any])
  /\ UNCHANGED resVars

HalfSet(k) == k.mac # "unset" \/ k.ip # "unset" \/ k.any
GoodCp(k) == k.mac = "good" /\ k.ip = "good"

CheckFamily ==
  /\ netStep = "family"
  /\ Decide(IF knobs.network THEN GoodCp(knobs) ELSE ~HalfSet(knobs))
  /\ UNCHANGED primary

LookArrays ==
  /\ netStep = "family" /\ ruling = "ok" /\ knobs.network
  /\ \E ms \in Shapes, as \in Shapes : Look("arrays", [macs |-> ms, ips |-> as])
  /\ UNCHANGED resVars

\* The arrays are parallel to WORKER_NAMES, and every entry is well-formed.
Parallel(s) == Len(s) = workers
AllGood(s) == \A i \in DOMAIN s : s[i] = "good"

CheckArrays ==
  /\ netStep = "arrays"
  /\ Decide(\A s \in {knobs.macs, knobs.ips} : Parallel(s) /\ AllGood(s))
  /\ UNCHANGED primary

LookExtraMacs ==
  /\ netStep = "arrays" /\ ruling = "ok"
  /\ \E m \in [Vms -> ValidMac] : Look("extra", [macs |-> m])
  /\ UNCHANGED resVars

\* The case-folded MACs of the family, pairwise and against the primary ones.
ExtraCollides(m, i) ==
  \/ \E j \in 0 .. i - 1 : to_ascii_lowercase(m[j]) = to_ascii_lowercase(m[i])
  \/ \E j \in Vms : to_ascii_lowercase(primary[j]) = to_ascii_lowercase(m[i])

CheckExtraMacs ==
  /\ netStep = "extra" /\ Decide(\A i \in Vms : ~ExtraCollides(knobs.macs, i))
  /\ UNCHANGED primary

(* ---- addresses ----------------------------------------------------------*)

Cidr == Addr \X (0 .. AddrBits)
NoRange == <<NoAddr, 0>>

LookAddresses ==
  /\ netStep = "extra" /\ ruling = "ok"
  /\ \E a \in [Vms -> Addr], pod \in Cidr \cup {NoRange}, svc \in Cidr \cup {NoRange} :
       Look("addresses", [ips |-> a, pod |-> pod, svc |-> svc])
  /\ UNCHANGED resVars

\* (a & mask) == (c & mask): the first p bits agree.
ip_in_cidr(a, c) ==
  LET below == 2^(AddrBits - c[2])
  IN  c # NoRange /\ (c[2] = 0 \/ a \div below = c[1] \div below)

CheckAddresses ==
  /\ netStep = "addresses"
  /\ Decide(\A i \in Vms :
       /\ \A j \in 0 .. i - 1 : knobs.ips[j] # knobs.ips[i]
       /\ ~ip_in_cidr(knobs.ips[i], knobs.pod) /\ ~ip_in_cidr(knobs.ips[i], knobs.svc))
  /\ UNCHANGED primary

(* ---- the host -----------------------------------------------------------*)

\* virsh net-info and net-dumpxml of EXTRA_NETWORK: it is there, it is active, and the
\* number of VFs if it is a hostdev pool (-1: it is not one, or the dump failed).
LookHost ==
  /\ netStep = "addresses" /\ ruling = "ok"
  /\ \E defined \in BOOLEAN, active \in BOOLEAN, vfs \in -1 .. MaxNetWorkers + 1 :
       Look("host", [defined |-> defined, active |-> active, vfs |-> vfs])
  /\ UNCHANGED resVars

check_extra_network_on_host ==
  /\ netStep = "host"
  /\ Decide(knobs.defined /\ knobs.active /\ (knobs.vfs >= 0 => knobs.vfs >= 1 + workers))
  /\ UNCHANGED primary

(* ---- reservations -------------------------------------------------------*)

\* What the network may carry: no MAC and no address twice.
Left ==
  UNION {{h \in [D -> Addr] : Distinct(h)} :
           D \in {E \in SUBSET (1 .. MaxNic) : Cardinality(E) <= MaxLeft}}

Accepted ==
  /\ ruling = "ok"
  /\ netStep = "host" \/ (netStep = "family" /\ ~knobs.network)

\* From here on the case of a MAC is not read: classify_dhcp_reservation folds both sides.
StartReservations ==
  /\ Accepted /\ netStep' = "reserve" /\ ruling' = "open" /\ knobs' = [vm |-> 0]
  /\ primary' = [i \in Vms |-> to_ascii_lowercase(primary[i])]
  /\ hosts' \in Left /\ UNCHANGED <<workers, pins, added, warned>>

Present(mac) == mac \in DOMAIN hosts
Taken(ip) == \E m \in DOMAIN hosts : hosts[m] = ip

\* With dumped = FALSE net-dumpxml failed, and nothing is found in it.
classify_dhcp_reservation(mac, ip, dumped) ==
  IF dumped /\ Present(mac) THEN "AlreadyPresent"
  ELSE IF dumped /\ Taken(ip) THEN "IpTakenByOtherMac" ELSE "Absent"

\* libvirt's net-update: it refuses an entry whose MAC or address it has already.
NetUpdateFails(mac, ip) == Present(mac) \/ Taken(ip) \/ "update" \in NetFaults
NetUpdateWorks(mac, ip) == ~Present(mac) /\ ~Taken(ip)

net_update_add_ip_dhcp_host(mac, ip) ==
  hosts' = [m \in DOMAIN hosts \cup {mac} |-> IF m = mac THEN ip ELSE hosts[m]]

Reserved(mac, ip) ==
  \/ /\ NetUpdateWorks(mac, ip) /\ net_update_add_ip_dhcp_host(mac, ip)
     /\ added' = added \cup {mac} /\ UNCHANGED warned
  \/ NetUpdateFails(mac, ip) /\ warned' = TRUE /\ UNCHANGED <<hosts, added>>

ensure_dhcp_reservation(mac, ip) ==
  \E dumped \in {TRUE} \cup {FALSE : f \in NetFaults \cap {"dump"}} :
    LET found == classify_dhcp_reservation(mac, ip, dumped)
    IN  \/ found = "AlreadyPresent" /\ UNCHANGED <<hosts, added, warned>>
        \/ found = "IpTakenByOtherMac" /\ warned' = TRUE /\ UNCHANGED <<hosts, added>>
        \/ found = "Absent" /\ Reserved(mac, ip)

\* A VM gets its reservation just before it is defined; one without CP_IP or
\* WORKER_IPS[i] gets none.
ReserveVm ==
  LET i == knobs.vm
  IN  /\ netStep = "reserve" /\ i \in Vms
      /\ \/ UNCHANGED resVars
         \/ \E ip \in Addr :
              /\ ensure_dhcp_reservation(primary[i][1], ip)
              /\ pins' = [j \in DOMAIN pins \cup {i} |-> IF j = i THEN ip ELSE pins[j]]
      /\ knobs' = [vm |-> i + 1]
      /\ UNCHANGED <<netStep, ruling, workers, primary>>

PlanDone ==
  /\ netStep = "reserve" /\ knobs.vm > workers
  /\ netStep' = "done" /\ UNCHANGED <<ruling, workers, knobs, primary, resVars>>

\* The process ends, refused or done; another deploy may follow.
PlanOver ==
  /\ netStep = "done" \/ ruling = "refused"
  /\ netStep' = "idle" /\ ruling' = "open" /\ workers' = 0
  /\ knobs' = NoKnobs /\ primary' = <<>> /\ hosts' = <<>> /\ pins' = <<>>
  /\ added' = {} /\ warned' = FALSE

NetNext ==
  \/ StartPlan \/ resolve_primary_macs \/ LookRanges \/ CheckRanges
  \/ LookFamily \/ CheckFamily \/ LookArrays \/ CheckArrays \/ LookExtraMacs \/ CheckExtraMacs
  \/ LookAddresses \/ CheckAddresses \/ LookHost \/ check_extra_network_on_host
  \/ StartReservations \/ ReserveVm \/ PlanDone \/ PlanOver

(* ---- properties ---------------------------------------------------------*)

Used(f) == {f[i] : i \in DOMAIN f}

\* The addresses of a range the configuration sets, counted out.  Of one it leaves unset
\* deploy-cluster knows none, though the nodes then use the default of their image.
KnownRange(c) ==
  IF c = NoRange THEN {}
  ELSE LET size == 2^(AddrBits - c[2])
       IN  {a \in Addr : \E k \in Nat \cap (0 .. 2^c[2] - 1) :
              a \in k * size .. (k + 1) * size - 1 /\ c[1] \in k * size .. (k + 1) * size - 1}

\* What the check at hand has to make of the values it reads, said of the cluster as a
\* whole: every NIC of every VM has a MAC of its own.
NicsAreApart ==
  CASE netStep = "macs" ->
         LET ids == [i \in Vms |-> MacOf(knobs.entries[i])[1]]
         IN  0 \notin Used(ids) /\ Distinct(ids)
    [] netStep = "extra" ->
         LET ids == [n \in Vms \X {1, 2} |-> IF n[2] = 1 THEN primary[n[1]][1]
                                             ELSE knobs.macs[n[1]][1]]
         IN  Distinct(ids)
    [] OTHER -> TRUE

\* No address of the second network is used twice, or lies in a POD_CIDR or SERVICE_CIDR
\* that the configuration sets.
AddressesAreApart ==
  netStep = "addresses" =>
    /\ Distinct(knobs.ips)
    /\ Used(knobs.ips) \cap (KnownRange(knobs.pod) \cup KnownRange(knobs.svc)) = {}

\* A deploy that warned of nothing leaves every VM for which CP_IP or WORKER_IPS gives an
\* address an entry under its MAC: the one it asked for, unless the MAC had one before,
\* which is left as it is without a word.
ReservationsHold ==
  (netStep = "done" /\ ~warned) =>
    \A i \in DOMAIN pins :
      LET m == primary[i][1]
      IN  m \in DOMAIN hosts /\ (m \in added => hosts[m] = pins[i])

\* deploy-cluster goes on exactly with the plans whose NICs and addresses are apart
\* (resolve_primary_macs, validate_extra_network), whatever the case a MAC is written in,
\* and its reservations hold (ensure_dhcp_reservation).  Two things an operator might
\* expect are not asked for: that an address lies outside the image's default range of a
\* knob left unset, and that a reservation found under a MAC gives the address asked for.
PlanIsSound ==
  /\ (ruling = "ok" /\ netStep # "reserve") => NicsAreApart /\ AddressesAreApart
  /\ (ruling = "refused" /\ netStep \in {"macs", "extra", "addresses"}) =>
       ~(NicsAreApart /\ AddressesAreApart)
  /\ ReservationsHold
==============================================================================
