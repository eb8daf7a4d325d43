---------------------------- MODULE NetCfgProofs ----------------------------
(***************************************************************************)
(* Proofs about NetCfg, for every set of processes, addresses and leases,  *)
(* every word width and every bound.                                       *)
(***************************************************************************)
EXTENDS NetCfg, Integers, FiniteSetTheorems, TLAPS

-----------------------------------------------------------------------------
(* Netmasks, for every word width. *)

\* The mask of a prefix is its first p bits, 0 and the full width included.
LEMMA MaskOfPrefix ==
    ASSUME NEW p \in PrefixLengths
    PROVE  PrefixToNetmask(p) = [b \in Bits |-> b <= p]
<1> USE WidthAssumption DEF PrefixLengths
<1>1. CASE p = 0
  <2>1. PrefixToNetmask(p) = [b \in Bits |-> FALSE]
    BY <1>1 DEF PrefixToNetmask
  <2>2. \A b \in Bits : (b <= p) = FALSE
    BY <1>1 DEF Bits
  <2> QED
    BY <2>1, <2>2
<1>2. CASE p = Width
  <2>1. 0 % Width = 0
    OBVIOUS
  <2>2. PrefixToNetmask(p) = ShiftLeft(0)
    BY <1>2 DEF PrefixToNetmask
  <2> QED
    BY <1>2, <2>1, <2>2 DEF ShiftLeft, Bits
<1>3. CASE p # 0 /\ p # Width
  <2>1. Width - p \in 0 .. Width - 1
    BY <1>3
  <2>2. (Width - p) % Width = Width - p
    BY <2>1
  <2>3. PrefixToNetmask(p) = ShiftLeft(Width - p)
    BY <1>3 DEF PrefixToNetmask
  <2> QED
    BY <2>1, <2>2, <2>3 DEF ShiftLeft, Bits
<1> QED
  BY <1>1, <1>2, <1>3

\* prefix_to_netmask writes a mask.
LEMMA MaskType ==
    ASSUME NEW p \in PrefixLengths
    PROVE  PrefixToNetmask(p) \in Masks
<1>1. \A b \in Bits : (b <= p) \in BOOLEAN
  OBVIOUS
<1>2. [b \in Bits |-> b <= p] \in [Bits -> BOOLEAN]
  BY <1>1, Zenon
<1> QED
  BY <1>2, MaskOfPrefix, Zenon DEF Masks

\* leading_ones counts at most the bits of the word.
LEMMA LeadingOnesType ==
    ASSUME NEW m
    PROVE  LeadingOnes(m) \in PrefixLengths
<1> DEFINE S == {n \in Bits : \A b \in 1 .. n : m[b]}
<1>1. IsFiniteSet(Bits) /\ Cardinality(Bits) = Width
  BY FS_Interval, WidthAssumption DEF Bits
<1>2. IsFiniteSet(S) /\ Cardinality(S) <= Width
  BY <1>1, FS_Subset
<1>3. Cardinality(S) \in Nat
  BY <1>2, FS_CardinalityType
<1> QED
  BY <1>2, <1>3, WidthAssumption DEF LeadingOnes, PrefixLengths

\* netmask_to_prefix returns a prefix or None, whatever the file holds.
LEMMA PrefixType ==
    ASSUME NEW m
    PROVE  NetmaskToPrefix(m) \in PrefixLengths \cup {None}
BY LeadingOnesType DEF NetmaskToPrefix

\* A prefix survives the trip through the mask file: what write_files stores in
\* /etc/net/ip_subnet is what files_to_scheme reads back at the next boot.
THEOREM RoundTrip ==
    ASSUME NEW p \in PrefixLengths
    PROVE  NetmaskToPrefix(PrefixToNetmask(p)) = p
<1> DEFINE m == PrefixToNetmask(p)
           S == {n \in Bits : \A b \in 1 .. n : m[b]}
<1>0. p \in Nat /\ p <= Width /\ Width \in Nat
  BY WidthAssumption DEF PrefixLengths
<1>1. m = [b \in Bits |-> b <= p]
  BY MaskOfPrefix
<1>2. S = 1 .. p
  <2>1. ASSUME NEW n \in S PROVE n \in 1 .. p
    <3>1. n \in Bits /\ m[n]
      BY <2>1 DEF Bits
    <3>2. m[n] = (n <= p)
      BY <1>1, <3>1, Zenon
    <3>3. n <= p
      BY <3>1, <3>2, Zenon
    <3>4. n \in Nat /\ 1 <= n
      BY <3>1, WidthAssumption DEF Bits
    <3> QED
      BY <1>0, <3>3, <3>4
  <2>2. ASSUME NEW n \in 1 .. p PROVE n \in S
    <3>1. n \in Bits /\ \A b \in 1 .. n : b \in Bits /\ b <= p
      BY <1>0, <2>2 DEF Bits
    <3> QED
      BY <1>1, <3>1
  <2> QED
    BY <2>1, <2>2
<1>3. LeadingOnes(m) = p
  <2>1. Cardinality(1 .. p) = p
    BY <1>0, FS_Interval
  <2> QED
    BY <1>2, <2>1 DEF LeadingOnes
<1>4. m = IF p = 0 THEN [b \in Bits |-> FALSE] ELSE ShiftLeft(Width - p)
  BY <1>0 DEF PrefixToNetmask
<1> QED
  BY <1>3, <1>4 DEF NetmaskToPrefix

-----------------------------------------------------------------------------
USE ActorAssumption, PrefixAssumption, NoneAssumption, ConfigAssumption

-----------------------------------------------------------------------------
(* Types. *)

\* What a process writes is what the readers of the files expect.
LEMMA WrittenType ==
    ASSUME TypeOK, NEW a \in Actor
    PROVE  Written(a) \in Image
<1>1. job[a] \in Job /\ kind[a] \in Modes
  BY DEF TypeOK
<1>2. ASSUME job[a].prefix # None
      PROVE  PrefixToNetmask(job[a].prefix) \in Masks
  BY <1>1, <1>2, MaskType DEF Job, Option
<1> QED
  BY <1>1, <1>2 DEF Written, Image, Job, Option

\* Truncating or replacing one file of an image gives an image.
LEMMA OneFile ==
    ASSUME NEW e \in Image, NEW i \in Image, NEW f \in File
    PROVE  /\ [e EXCEPT ![f] = i[f]] \in Image
           /\ [e EXCEPT ![f] = None] \in Image
<1>1. CASE f = "mode"
  BY <1>1 DEF Image, Option
<1>2. CASE f = "ip"
  BY <1>2 DEF Image, Option
<1>3. CASE f = "subnet"
  BY <1>3 DEF Image, Option
<1>4. CASE f = "router"
  BY <1>4 DEF Image, Option
<1>5. CASE f = "dns"
  BY <1>5 DEF Image, Option
<1> QED
  BY <1>1, <1>2, <1>3, <1>4, <1>5 DEF File, AddressFile

\* The boot always gets a usable prefix, whatever ip_subnet holds.
LEMMA ReadPrefixType ==
    ASSUME NEW m
    PROVE  ReadPrefix(m) \in PrefixLengths
BY PrefixType DEF ReadPrefix

\* The default routes, and the gateways they lead to, across a step that leaves
\* them or drops them all.
LEMMA RoutesKept ==
    /\ routes' = routes => Gateways' = Gateways
    /\ routes = <<>> => Gateways = {}
    /\ routes' = <<>> => Gateways' = {}
BY DEF Gateways

\* Across a step that adds one, whether or not there is one to that gateway.
LEMMA RouteAdded ==
    ASSUME TypeOK, NEW a \in Actor, AddDefault(a) \/ DhcpdRoute(a)
    PROVE  /\ routes' \in Seq(Gateway) /\ routes' # <<>>
           /\ job[a].gateway \in Gateway
           /\ Gateways' = Gateways \cup {job[a].gateway}
           /\ routes = <<>> => Len(routes') = 1 /\ Gateways' = {job[a].gateway}
<1>0. routes \in Seq(Gateway) /\ job[a].gateway \in Gateway
  BY DEF AddDefault, DhcpdRoute, At, TypeOK, JobReady, Job, Option
<1>1. routes' = Append(routes, job[a].gateway)
  BY DEF AddDefault, DhcpdRoute, WriteRoute
<1>2. /\ Len(routes') = Len(routes) + 1 /\ routes' \in Seq(Gateway)
      /\ Len(routes) \in Nat /\ DOMAIN routes = 1 .. Len(routes)
      /\ DOMAIN routes' = 1 .. Len(routes) + 1
      /\ \A i \in 1 .. Len(routes) : routes'[i] = routes[i]
      /\ routes'[Len(routes) + 1] = job[a].gateway
  BY <1>0, <1>1
<1>3. Gateways' = {routes'[i] : i \in DOMAIN routes'}
  BY DEF Gateways
<1>4. Gateways' = Gateways \cup {job[a].gateway}
  BY <1>2, <1>3 DEF Gateways
<1>5. routes' # <<>> /\ (routes = <<>> => Len(routes') = 1)
  BY <1>2
<1> QED
  BY <1>0, <1>2, <1>4, <1>5, RoutesKept

\* A default route leads to a gateway.
LEMMA RoutesType == TypeOK => Gateways \subseteq Gateway
  BY DEF TypeOK, Gateways

\* If there is one default route, all lead to its gateway.
LEMMA LoneRoute ==
    ASSUME TypeOK, faults = 0, AtMostOneDefaultRoute
    PROVE  \A g \in Gateways : Gateways \subseteq {g}
<1>1. Len(routes) \in Nat /\ Len(routes) <= 1 /\ DOMAIN routes = 1 .. Len(routes)
  BY DEF TypeOK, AtMostOneDefaultRoute
<1> QED
  BY <1>1 DEF Gateways

\* A machine that boots has well-typed processes, files and counters.
LEMMA InitType == Init => TypeOK
<1> SUFFICES ASSUME Init PROVE TypeOK
  OBVIOUS
<1>1. etc \in Image
  BY DEF Init
<1>2. pc \in [Actor -> Labels]
  BY DEF Init, BootPc, Labels, Rest
<1>3. job \in [Actor -> Job]
  BY DEF Init, Job, Blank, Option
<1>4. JobReady
  BY DEF Init, BootPc, JobReady, AddressFile, Actor
<1> QED
  BY <1>1, <1>2, <1>3, <1>4 DEF Init, TypeOK, Option, Modes

\* A read fills one field of the job of a process.
LEMMA ReadKeepsType ==
    ASSUME TypeOK, NEW a \in Actor, NEW l \in Labels, NEW j \in Job, Read(a, l, j),
           /\ l \notin {"elevate", "mode", "b_subnet"} \cup Rest =>
                  j.ip # None /\ j.prefix # None
           /\ l = "b_subnet" => j.ip # None
           /\ l \in {"rm", "add", "d_route", "router"} => j.gateway # None
           /\ l \in {"resolver", "d_dns", "dns"} => j.dns # None,
           l \notin {"elevate", "mode"}
    PROVE  TypeOK'
<1>1. /\ job \in [Actor -> Job] /\ pc \in [Actor -> Labels] /\ JobReady
      /\ job' = [job EXCEPT ![a] = j] /\ pc' = [pc EXCEPT ![a] = l] /\ kind' = kind
  BY DEF TypeOK, Read, Goto
<1>2. job' \in [Actor -> Job] /\ pc' \in [Actor -> Labels]
  BY <1>1
<1>3. JobReady'
  BY <1>1 DEF JobReady, HasAddress, AddressFile, Rest
<1> QED
  BY <1>2, <1>3 DEF TypeOK, Read, live, history, counters

\* The reads that follow the address.
LEMMA FieldsType ==
    ASSUME TypeOK, NEW a \in Actor,
           \/ MirrorRoute(a) \/ MirrorDns(a)
           \/ a = Boot /\ (BootSubnet \/ BootRouter \/ BootDns)
    PROVE  TypeOK'
<1>1. /\ job[a] \in Job /\ etc \in Image /\ resolver \in Option(Dns) /\ JobReady
      /\ Gateways \subseteq Gateway
  BY RoutesType DEF TypeOK
<1>2. /\ pc[a] \in {"m_route", "m_dns", "b_router", "b_dns"} => HasAddress(a)
      /\ pc[a] = "b_subnet" => job[a].ip # None
  BY <1>1 DEF JobReady
<1>3. /\ \A g \in Option(Gateway) : [job[a] EXCEPT !.gateway = g] \in Job
      /\ \A d \in Option(Dns) : [job[a] EXCEPT !.dns = d] \in Job
      /\ \A p \in PrefixLengths : [job[a] EXCEPT !.prefix = p] \in Job
  BY <1>1 DEF Job, Option
<1>4. {"m_dns", "ip", "addr", "rm", "b_dns", "resolver", "ok"} \subseteq Labels
  BY DEF Labels, Rest, File, AddressFile
<1>5. CASE MirrorRoute(a)
  <2>1. PICK g \in Option(Gateway) : Read(a, "m_dns", [job[a] EXCEPT !.gateway = g])
    BY <1>1, <1>5 DEF MirrorRoute, Option
  <2>2. HasAddress(a)
    BY <1>2, <1>5 DEF MirrorRoute, At
  <2>3. [job[a] EXCEPT !.gateway = g].ip # None /\ [job[a] EXCEPT !.gateway = g].prefix # None
    BY <1>1, <2>2 DEF HasAddress, Job
  <2> QED
    BY <1>3, <1>4, <2>1, <2>3, ReadKeepsType DEF Rest
<1>6. CASE MirrorDns(a)
  <2>1. Read(a, "ip", [job[a] EXCEPT !.dns = resolver]) /\ HasAddress(a)
    BY <1>2, <1>6 DEF MirrorDns, At
  <2>2. [job[a] EXCEPT !.dns = resolver].ip # None
        /\ [job[a] EXCEPT !.dns = resolver].prefix # None
    BY <1>1, <2>1 DEF HasAddress, Job
  <2> QED
    BY <1>1, <1>3, <1>4, <2>1, <2>2, ReadKeepsType DEF Rest
<1>7. CASE a = Boot /\ BootSubnet
  <2> DEFINE p == ReadPrefix(etc["subnet"])
             j == [job[a] EXCEPT !.prefix = p]
  <2>1. Read(a, "addr", j) /\ job[a].ip # None
    BY <1>2, <1>7 DEF BootSubnet, At
  <2>2. p \in PrefixLengths /\ p # None
    BY ReadPrefixType, PrefixAssumption
  <2>3. j \in Job /\ j.ip # None /\ j.prefix # None
    <3> HIDE DEF p
    <3> QED
      BY <1>1, <1>3, <2>1, <2>2 DEF Job
  <2> HIDE DEF j
  <2> QED
    BY <1>4, <2>1, <2>3, ReadKeepsType DEF Rest
<1>8. CASE a = Boot /\ BootRouter
  <2> DEFINE j == [job[a] EXCEPT !.gateway = etc["router"]]
  <2>1. HasAddress(a) /\ etc["router"] \in Option(Gateway)
    BY <1>1, <1>2, <1>8 DEF BootRouter, At, Image
  <2>2. j \in Job /\ j.ip # None /\ j.prefix # None /\ j.gateway = etc["router"]
    BY <1>1, <1>3, <2>1 DEF HasAddress, Job
  <2> HIDE DEF j
  <2>3. \/ Read(a, "b_dns", j)
        \/ Read(a, "rm", j) /\ j.gateway # None
    BY <1>8, <2>2 DEF BootRouter, j
  <2> QED
    BY <1>4, <2>2, <2>3, ReadKeepsType DEF Rest
<1>9. CASE a = Boot /\ BootDns
  <2> DEFINE j == [job[a] EXCEPT !.dns = etc["dns"]]
  <2>1. HasAddress(a) /\ etc["dns"] \in Option(Dns)
    BY <1>1, <1>2, <1>9 DEF BootDns, At, Image
  <2>2. j \in Job /\ j.ip # None /\ j.prefix # None /\ j.dns = etc["dns"]
    BY <1>1, <1>3, <2>1 DEF HasAddress, Job
  <2> HIDE DEF j
  <2>3. \/ Read(a, "ok", j)
        \/ Read(a, "resolver", j) /\ j.dns # None
    BY <1>9, <2>2 DEF BootDns, j
  <2> QED
    BY <1>4, <2>2, <2>3, ReadKeepsType DEF Rest
<1> QED
  BY <1>5, <1>6, <1>7, <1>8, <1>9

\* Every step keeps the types.
LEMMA StepType == TypeOK /\ [Next]_vars => TypeOK'
<1> SUFFICES ASSUME TypeOK, [Next]_vars PROVE TypeOK'
  OBVIOUS
<1> USE DEF TypeOK
<1>1. ASSUME NEW a \in Shim, NEW k \in Modes, NEW c \in Job, Launch(a, k, c),
             k = "static" => c.ip # None /\ c.prefix # None
      PROVE  TypeOK'
  BY <1>1, SMTT(60) DEF Launch, Quiet, Blank, Modes, Actor, live, Labels, Rest, File,
     AddressFile, JobReady, HasAddress, Job, Option
<1>2. ASSUME NEW a \in Actor, Elevate(a)
      PROVE  TypeOK'
  BY <1>2 DEF Elevate, Goto, At, live, counters, history, Labels, Rest, File,
     AddressFile, JobReady, HasAddress, Job, Option
<1>3. ASSUME NEW a \in Actor, SetAddr(a)
      PROVE  TypeOK'
  BY <1>3 DEF SetAddr, Goto, At, counters, WriteAddr, Live, AfterAddr, AfterRoute,
     Labels, Rest, File, AddressFile, JobReady, HasAddress, Job, Option
<1>4. ASSUME NEW a \in Actor, RemoveDefault(a)
      PROVE  TypeOK'
  BY <1>4 DEF RemoveDefault, Goto, At, counters, Live, Labels, Rest, File,
     AddressFile, JobReady, HasAddress, Job, Option
<1>5. ASSUME NEW a \in Actor, AddDefault(a)
      PROVE  TypeOK'
  <2>1. routes' \in Seq(Gateway)
    BY <1>5, RouteAdded
  <2> QED
    BY <1>5, <2>1 DEF AddDefault, Goto, At, counters, WriteRoute, Live, AfterRoute, Labels,
       Rest, File, AddressFile, JobReady, HasAddress, Job, Option
<1>6. ASSUME NEW a \in Actor, SetResolver(a)
      PROVE  TypeOK'
  BY <1>6 DEF SetResolver, Goto, At, counters, WriteResolver, Live, Labels, Rest,
     File, AddressFile, JobReady, HasAddress, Job, Option
<1>7. ASSUME NEW a \in Actor, LeaseGranted(a)
      PROVE  TypeOK'
  BY <1>7 DEF LeaseGranted, Goto, At, counters, Config, live, history, Labels, Rest,
     File, AddressFile, JobReady, HasAddress, Job, Option
<1>8. ASSUME NEW a \in Actor, LeaseRefused(a)
      PROVE  TypeOK'
  BY <1>8 DEF LeaseRefused, Goto, At, counters, live, history, Labels, Rest, File,
     AddressFile, JobReady, HasAddress, Job, Option
<1>9. ASSUME NEW a \in Actor, DhcpdAddr(a)
      PROVE  TypeOK'
  BY <1>9 DEF DhcpdAddr, Goto, At, counters, WriteAddr, Live, AfterDhcpd, Labels,
     Rest, File, AddressFile, JobReady, HasAddress, Job, Option
<1>10. ASSUME NEW a \in Actor, DhcpdRoute(a)
      PROVE  TypeOK'
  <2>1. routes' \in Seq(Gateway)
    BY <1>10, RouteAdded
  <2> QED
    BY <1>10, <2>1 DEF DhcpdRoute, Goto, At, counters, WriteRoute, Live, AfterDhcpd, Labels,
       Rest, File, AddressFile, JobReady, HasAddress, Job, Option
<1>11. ASSUME NEW a \in Actor, DhcpdDns(a)
      PROVE  TypeOK'
  BY <1>11 DEF DhcpdDns, Goto, At, counters, WriteResolver, Live, AfterDhcpd, Labels,
     Rest, File, AddressFile, JobReady, HasAddress, Job, Option
<1>12. ASSUME NEW a \in Actor, MirrorAddr(a)
      PROVE  TypeOK'
  <2>1. CASE addr = None
    <3>1. Read(a, NoAddress(a), Blank)
      BY <1>12, <2>1 DEF MirrorAddr
    <3> QED
      BY <3>1 DEF Read, Goto, NoAddress, Blank, counters, live, history,
         Labels, Rest, File, AddressFile, JobReady, HasAddress, Job, Option
  <2>2. CASE addr # None
    <3>1. addr.ip \in Ip /\ addr.prefix \in PrefixLengths
      BY <2>2 DEF Option
    <3>2. Read(a, "m_route", [Blank EXCEPT !.ip = addr.ip, !.prefix = addr.prefix])
      BY <1>12, <2>2 DEF MirrorAddr
    <3> QED
      BY <3>1, <3>2, ZenonT(30) DEF Read, Goto, Blank, counters, live, history,
         Labels, Rest, File, AddressFile, JobReady, HasAddress, Job, Option
  <2> QED
    BY <2>1, <2>2
<1>13. ASSUME NEW a \in Actor, MirrorRoute(a)
      PROVE  TypeOK'
  BY <1>13, FieldsType
<1>14. ASSUME NEW a \in Actor, MirrorDns(a)
      PROVE  TypeOK'
  BY <1>14, FieldsType
<1>15. ASSUME NEW a \in Actor, Truncate(a)
      PROVE  TypeOK'
  BY <1>15, OneFile DEF Truncate, Goto, At, counters, live, history, Labels, Rest,
     File, AddressFile, JobReady, HasAddress, Job, Option
<1>16. ASSUME NEW a \in Actor, Store(a)
      PROVE  TypeOK'
  BY <1>16, WrittenType, OneFile, ZenonT(60) DEF Store, Goto, At, counters, AfterFile,
     AfterMode,
     live, history, Labels, Rest, File, AddressFile, JobReady, HasAddress, Job, Option
<1>17. ASSUME NEW a \in Actor, SchemeFault(a)
      PROVE  TypeOK'
  BY <1>17 DEF SchemeFault, Goto, At, counters, Fault, AfterDhcpd, live, history,
     Labels, Rest, File, AddressFile, JobReady, HasAddress, Job, Option
<1>18. ASSUME NEW a \in Actor, ReadFault(a)
      PROVE  TypeOK'
  BY <1>18 DEF ReadFault, Goto, At, counters, Fault, NoAddress, live, history, Labels,
     Rest, File, AddressFile, JobReady, HasAddress, Job, Option
<1>19. ASSUME NEW a \in Actor, FileFault(a)
      PROVE  TypeOK'
  BY <1>19 DEF FileFault, Goto, At, counters, Fault, AfterFile, AfterMode, live,
     history, Labels, Rest, File, AddressFile, JobReady, HasAddress, Job, Option
<1>20. ASSUME BootStart
      PROVE  TypeOK'
  BY <1>20 DEF BootStart, Goto, At, counters, Actor, Modes, live, history, Labels,
     Rest, File, AddressFile, JobReady, HasAddress, Job, Option
<1>21. ASSUME BootIp
      PROVE  TypeOK'
  BY <1>21 DEF BootIp, Goto, At, counters, Actor, Read, Blank, Image, live, history,
     Labels, Rest, File, AddressFile, JobReady, HasAddress, Job, Option
<1>22. ASSUME BootSubnet
      PROVE  TypeOK'
  BY <1>22, FieldsType DEF Actor
<1>23. ASSUME BootRouter
      PROVE  TypeOK'
  BY <1>23, FieldsType DEF Actor
<1>24. ASSUME BootDns
      PROVE  TypeOK'
  BY <1>24, FieldsType DEF Actor
<1>25. ASSUME WaitSees
      PROVE  TypeOK'
  BY <1>25 DEF WaitSees, Goto, At, counters, Actor, live, history, Labels, Rest, File,
     AddressFile, JobReady, HasAddress, Job, Option
<1>26. ASSUME WaitExpires
      PROVE  TypeOK'
  BY <1>26 DEF WaitExpires, Goto, At, counters, Actor, live, history, Labels, Rest,
     File, AddressFile, JobReady, HasAddress, Job, Option
<1>27. ASSUME Reboot
      PROVE  TypeOK'
  BY <1>27 DEF Reboot, BootPc, Blank, Modes, Actor, live, history, Labels, Rest, File,
     AddressFile, JobReady, HasAddress, Job, Option
<1>28. ASSUME UNCHANGED vars
      PROVE  TypeOK'
  BY <1>28 DEF vars, live, process, history, counters, JobReady, HasAddress
<1>29. ASSUME NewApply
       PROVE  TypeOK'
  <2>1. ASSUME NEW a \in Shim, NEW c \in Requests, Launch(a, "static", c)
        PROVE  TypeOK'
    BY <1>1, <2>1 DEF Modes, Config, Job, Option
  <2>2. ASSUME NEW a \in Shim, Launch(a, "dhcp", Blank)
        PROVE  TypeOK'
    BY <1>1, <2>2 DEF Modes, Blank, Job, Option
  <2> QED
    BY <1>29, <2>1, <2>2 DEF NewApply
<1> HIDE DEF TypeOK
<1>30. ASSUME NEW a \in Actor, Progress(a)
       PROVE  TypeOK'
  BY <1>30, <1>2, <1>3, <1>4, <1>5, <1>6, <1>7, <1>8, <1>9, <1>10, <1>11, <1>12,
     <1>13, <1>14, <1>15, <1>16, <1>20, <1>21, <1>22, <1>23, <1>24, <1>25, <1>26
     DEF Progress, ShimStep, DhcpdStep, BootStep
<1> QED
  BY <1>17, <1>18, <1>19, <1>27, <1>28, <1>29, <1>30 DEF Next, Trouble

\* Type correctness of every behaviour: the files always hold values of the
\* format their readers expect, and no write lacks its value.
THEOREM TypeCorrect == Spec => []TypeOK
<1>1. Init => TypeOK
  BY InitType
<1>2. TypeOK /\ [Next]_vars => TypeOK'
  BY StepType
<1> QED
  BY <1>1, <1>2, PTL DEF Spec
-----------------------------------------------------------------------------
(* Live before files.  FilesInv is inductive: a value reaches the files only  *)
(* through the job of a process, and it was live when it got there.           *)

\* What the files hold at first boot counts as seen, and nothing is carried yet.
LEMMA InitFiles == Init => FilesInv
<1> SUFFICES ASSUME Init PROVE FilesInv
  OBVIOUS
<1>1. seen = [f \in AddressFile |-> {etc[f]} \ {None}] /\ pc = BootPc
  BY DEF Init
<1> QED
  BY <1>1, RoutesKept DEF Init, FilesInv, LiveSeen, CarriedSeen, LiveBeforeFiles,
     SeenOrNone,
     BootPc, AddressFile, Actor

\* A scheme write records what it makes live, a read takes what is live, and a
\* file gets what its process carries: no step, and no error, breaks the chain.
LEMMA StepFiles == TypeOK /\ FilesInv /\ [Next]_vars => FilesInv'
<1> SUFFICES ASSUME TypeOK, FilesInv, [Next]_vars PROVE FilesInv'
  OBVIOUS
<1> USE RoutesKept DEF FilesInv, LiveSeen, CarriedSeen, LiveBeforeFiles, SeenOrNone, TypeOK
<1>1. ASSUME NEW a \in Actor, Elevate(a)
      PROVE  FilesInv'
  BY <1>1 DEF Elevate, Goto, At, live, counters, history, AddressFile, Job,
     Option
<1>2. ASSUME NEW a \in Actor, SetAddr(a)
      PROVE  FilesInv'
  BY <1>2 DEF SetAddr, Goto, At, live, counters, WriteAddr, Live, AfterAddr,
     AfterRoute, AddressFile, Job, Option
<1>3. ASSUME NEW a \in Actor, RemoveDefault(a)
      PROVE  FilesInv'
  BY <1>3 DEF RemoveDefault, Goto, At, live, counters, Live, AddressFile, Job,
     Option
<1>4. ASSUME NEW a \in Actor, AddDefault(a)
      PROVE  FilesInv'
  BY <1>4, RouteAdded, ZenonT(40) DEF AddDefault, Goto, At, live, counters, WriteRoute, Live,
     AfterRoute, AddressFile, Job, Option
<1>5. ASSUME NEW a \in Actor, SetResolver(a)
      PROVE  FilesInv'
  BY <1>5 DEF SetResolver, Goto, At, live, counters, WriteResolver, Live,
     AddressFile, Job, Option
<1>6. ASSUME NEW a \in Actor, LeaseGranted(a)
      PROVE  FilesInv'
  BY <1>6 DEF LeaseGranted, Goto, At, live, counters, history, AddressFile,
     Job, Option
<1>7. ASSUME NEW a \in Actor, LeaseRefused(a)
      PROVE  FilesInv'
  BY <1>7 DEF LeaseRefused, Goto, At, live, counters, history, AddressFile,
     Job, Option
<1>8. ASSUME NEW a \in Actor, DhcpdAddr(a)
      PROVE  FilesInv'
  BY <1>8 DEF DhcpdAddr, Goto, At, live, counters, WriteAddr, Live,
     AfterDhcpd, AddressFile, Job, Option
<1>9. ASSUME NEW a \in Actor, DhcpdRoute(a)
      PROVE  FilesInv'
  BY <1>9, RouteAdded DEF DhcpdRoute, Goto, At, live, counters, WriteRoute, Live,
     AfterDhcpd, AddressFile, Job, Option
<1>10. ASSUME NEW a \in Actor, DhcpdDns(a)
      PROVE  FilesInv'
  BY <1>10 DEF DhcpdDns, Goto, At, live, counters, WriteResolver, Live,
     AfterDhcpd, AddressFile, Job, Option
<1>11. ASSUME NEW a \in Actor, MirrorAddr(a)
      PROVE  FilesInv'
  <2>1. CASE addr = None
    <3>1. Read(a, NoAddress(a), Blank)
      BY <1>11, <2>1 DEF MirrorAddr
    <3> QED
      BY <3>1 DEF Read, Goto, NoAddress, Blank, live, history, AddressFile, Job, Option
  <2>2. CASE addr # None
    <3>1. addr.ip \in seen["ip"]
      BY <2>2
    <3>2. Read(a, "m_route", [Blank EXCEPT !.ip = addr.ip, !.prefix = addr.prefix])
      BY <1>11, <2>2 DEF MirrorAddr
    <3> QED
      BY <3>1, <3>2 DEF Read, Goto, Blank, live, history, AddressFile, Job, Option
  <2> QED
    BY <2>1, <2>2
<1>12. ASSUME NEW a \in Actor, MirrorRoute(a)
      PROVE  FilesInv'
  BY <1>12, RoutesType DEF MirrorRoute, Goto, At, live, counters, Read, history,
     AddressFile, Job, Option
<1>13. ASSUME NEW a \in Actor, MirrorDns(a)
      PROVE  FilesInv'
  BY <1>13 DEF MirrorDns, Goto, At, live, counters, Read, history,
     AddressFile, Job, Option
<1>14. ASSUME NEW a \in Actor, Truncate(a)
      PROVE  FilesInv'
  BY <1>14 DEF Truncate, Goto, At, live, counters, File, Image, history,
     AddressFile, Job, Option
<1>15. ASSUME NEW a \in Actor, Store(a)
      PROVE  FilesInv'
  BY <1>15 DEF Store, Goto, At, live, counters, File, Image, Written,
     AfterFile, AfterMode, history, AddressFile, Job, Option
<1>16. ASSUME NEW a \in Actor, SchemeFault(a)
      PROVE  FilesInv'
  BY <1>16 DEF SchemeFault, Goto, At, live, counters, Fault, AfterDhcpd,
     history, AddressFile, Job, Option
<1>17. ASSUME NEW a \in Actor, ReadFault(a)
      PROVE  FilesInv'
  BY <1>17 DEF ReadFault, Goto, At, live, counters, Fault, NoAddress, history,
     AddressFile, Job, Option
<1>18. ASSUME NEW a \in Actor, FileFault(a)
      PROVE  FilesInv'
  BY <1>18 DEF FileFault, Goto, At, live, counters, Fault, File, AfterFile,
     AfterMode, history, AddressFile, Job, Option
<1>19. ASSUME BootStart
      PROVE  FilesInv'
  BY <1>19 DEF BootStart, Goto, At, live, counters, Actor, Modes, history,
     AddressFile, Job, Option
<1>20. ASSUME BootIp
      PROVE  FilesInv'
  BY <1>20 DEF BootIp, Goto, At, live, counters, Actor, Read, history,
     AddressFile, Job, Option
<1>21. ASSUME BootSubnet
      PROVE  FilesInv'
  BY <1>21 DEF BootSubnet, Goto, At, live, counters, Actor, Read, history,
     AddressFile, Job, Option
<1>22. ASSUME BootRouter
      PROVE  FilesInv'
  BY <1>22 DEF BootRouter, Goto, At, live, counters, Actor, Read, history,
     AddressFile, Job, Option
<1>23. ASSUME BootDns
      PROVE  FilesInv'
  BY <1>23 DEF BootDns, Goto, At, live, counters, Actor, Read, history,
     AddressFile, Job, Option
<1>24. ASSUME WaitSees
      PROVE  FilesInv'
  BY <1>24 DEF WaitSees, Goto, At, live, counters, Actor, history,
     AddressFile, Job, Option
<1>25. ASSUME WaitExpires
      PROVE  FilesInv'
  BY <1>25 DEF WaitExpires, Goto, At, live, counters, Actor, history,
     AddressFile, Job, Option
<1>26. ASSUME NewApply
      PROVE  FilesInv'
  BY <1>26 DEF NewApply, Launch, live, AddressFile, Rest, Actor
<1>27. ASSUME Reboot
      PROVE  FilesInv'
  BY <1>27 DEF Reboot, BootPc, AddressFile, Actor
<1>28. ASSUME UNCHANGED vars
      PROVE  FilesInv'
  BY <1>28 DEF vars, live, process, history
<1> HIDE DEF FilesInv, TypeOK
<1>29. ASSUME NEW a \in Actor, Progress(a)
      PROVE  FilesInv'
  BY <1>29, <1>1, <1>2, <1>3, <1>4, <1>5, <1>6, <1>7, <1>8, <1>9, <1>10,
     <1>11, <1>12, <1>13, <1>14, <1>15, <1>19, <1>20, <1>21, <1>22, <1>23,
     <1>24, <1>25 DEF Progress, ShimStep, DhcpdStep, BootStep
<1> QED
  BY <1>16, <1>17, <1>18, <1>26, <1>27, <1>28, <1>29 DEF Next, Trouble

\* Nothing reaches the files of /etc/net that was never live: not with applies
\* that overlap, crashes in the middle of a write, or errors.
THEOREM FilesWereLive == Spec => []LiveBeforeFiles
<1>1. Init => TypeOK /\ FilesInv
  BY InitType, InitFiles
<1>2. TypeOK /\ FilesInv /\ [Next]_vars => (TypeOK /\ FilesInv)'
  BY StepType, StepFiles
<1>3. FilesInv => LiveBeforeFiles
  BY DEF FilesInv
<1> QED
  BY <1>1, <1>2, <1>3, PTL DEF Spec
-----------------------------------------------------------------------------
(* One default route.  A shim that waits for a lease, and a process between    *)
(* the rm and the add, find the route removed because nothing else runs.       *)

\* Applies wait for one another and the boot service obtains no lease; dropping
\* either gives two default routes, as does a route/rm that fails.
Undisturbed == ~Overlap /\ BootLeases = {}

\* The machine boots without routes, and with the boot process alone at work.
LEMMA InitRoute == Init => RouteInv
<1> SUFFICES ASSUME Init PROVE RouteInv
  OBVIOUS
<1>1. pc = BootPc /\ routes = <<>>
  BY DEF Init
<1> QED
  BY <1>1 DEF BootPc, RouteInv, OneAtATime, NoRouteYet, AtMostOneDefaultRoute,
     Rest, Actor

\* Only a call that fails adds to the count of failures.
LEMMA FaultsGrow == [Next]_vars /\ TypeOK /\ faults' = 0 => faults = 0
<1> SUFFICES ASSUME [Next]_vars, TypeOK, faults' = 0 PROVE faults = 0
  OBVIOUS
<1>0. faults \in Nat
  BY ConfigAssumption DEF TypeOK
<1>1. ASSUME NEW a \in Actor, Trouble(a) PROVE FALSE
  BY <1>0, <1>1 DEF Trouble, SchemeFault, ReadFault, FileFault, Fault
<1>2. ASSUME NEW a \in Actor, ShimStep(a) PROVE faults' = faults
  BY <1>2 DEF ShimStep, Elevate, SetAddr, RemoveDefault, AddDefault, SetResolver,
     MirrorAddr, MirrorRoute, MirrorDns, Truncate, Store, Live, Read, counters
<1>3. ASSUME NEW a \in Actor, DhcpdStep(a) PROVE faults' = faults
  BY <1>3 DEF DhcpdStep, LeaseGranted, LeaseRefused, DhcpdAddr, DhcpdRoute,
     DhcpdDns, Live, counters
<1>4. ASSUME BootStep PROVE faults' = faults
  BY <1>4 DEF BootStep, BootStart, BootIp, BootSubnet, BootRouter, BootDns,
     WaitSees, WaitExpires, Read, counters
<1>5. ASSUME NewApply PROVE faults' = faults
  BY <1>5 DEF NewApply, Launch
<1>6. ASSUME Reboot PROVE faults' = faults
  BY <1>6 DEF Reboot
<1> QED
  BY <1>1, <1>2, <1>3, <1>4, <1>5, <1>6 DEF Next, Progress, vars, counters

\* Only one process works, and it adds a route only when there is none.
LEMMA StepRoute ==
    ASSUME Undisturbed
    PROVE  TypeOK /\ RouteInv /\ [Next]_vars => RouteInv'
<1> SUFFICES ASSUME TypeOK, RouteInv, [Next]_vars, faults' = 0, faults = 0
             PROVE  RouteInv'
  BY FaultsGrow DEF RouteInv
<1> USE DEF Undisturbed
<1>0. /\ pc \in [Actor -> Labels] /\ faults \in 0 .. MaxFaults
      /\ \A a \in Actor : a \in Shim \cup {Boot} \/ a = Service
  BY DEF TypeOK, Actor
<1>1. ASSUME NEW a \in Actor, Trouble(a)
      PROVE  FALSE
  BY <1>0, <1>1 DEF Trouble, SchemeFault, ReadFault, FileFault, Fault
\* A process at work is the only one, so what the others need is not disturbed.
<1> DEFINE Moves(a, l) == a \in Shim \cup {Boot} /\ pc[a] \notin Rest /\ Goto(a, l)
<1>2. ASSUME NEW a \in Actor, NEW l, Moves(a, l),
             \/ routes' = routes /\ l \notin {"add", "lease", "d_addr", "d_route"}
             \/ routes' = routes /\ pc[a] \in {"add", "lease", "d_addr", "d_route"}
             \/ routes' = <<>>
             \/ /\ routes = <<>> /\ l \notin {"add", "lease", "d_addr", "d_route"}
                /\ Len(routes') = 1
      PROVE  RouteInv'
  <2>1. OneAtATime'
    BY <1>0, <1>2 DEF RouteInv, OneAtATime, Goto, Rest, Actor
  <2>2. NoRouteYet'
    BY <1>0, <1>2 DEF RouteInv, OneAtATime, NoRouteYet, Goto, Rest, Actor
  <2>3. Len(routes') <= 1
    <3>1. Len(routes) <= 1
      BY DEF RouteInv, AtMostOneDefaultRoute
    <3>2. Len(<<>>) <= 1 /\ 1 <= 1
      OBVIOUS
    <3> QED
      BY <1>2, <3>1, <3>2
  <2> QED
    BY <2>1, <2>2, <2>3 DEF RouteInv, AtMostOneDefaultRoute
<1>3. \A a \in Actor : pc[a] \notin Rest \cup {"lease"} => a \in Shim \cup {Boot}
  BY <1>0 DEF RouteInv, OneAtATime, Rest
<1>4. Boot \in Actor
  BY DEF Actor
<1>5. ASSUME NEW a \in Actor, Elevate(a)
      PROVE  RouteInv'
  BY <1>5, <1>2, <1>3 DEF Elevate, At, Goto, live, Rest
<1>6. ASSUME NEW a \in Actor, SetAddr(a)
      PROVE  RouteInv'
  BY <1>6, <1>2, <1>3 DEF SetAddr, At, Goto, Live, WriteAddr, AfterAddr,
     AfterRoute, Rest
<1>7. ASSUME NEW a \in Actor, RemoveDefault(a)
      PROVE  RouteInv'
  BY <1>7, <1>2, <1>3 DEF RemoveDefault, At, Goto, Live, Rest
<1>8. ASSUME NEW a \in Actor, AddDefault(a)
      PROVE  RouteInv'
  <2>1. pc[a] = "add" /\ a \in Shim \cup {Boot}
    BY <1>8, <1>3 DEF AddDefault, At, Rest
  <2>2. routes = <<>>
    BY <2>1 DEF RouteInv, NoRouteYet
  <2>3. Len(routes') = 1
    BY <1>8, <2>2, RouteAdded
  <2>4. PICK l \in {"b_dns", "resolver", "ip"} : Goto(a, l)
    BY <1>8 DEF AddDefault, Live, AfterRoute
  <2> QED
    BY <2>1, <2>2, <2>3, <2>4, <1>2 DEF Rest
<1>9. ASSUME NEW a \in Actor, SetResolver(a)
      PROVE  RouteInv'
  BY <1>9, <1>2, <1>3 DEF SetResolver, At, Goto, Live, WriteResolver, Rest
<1>10. ASSUME NEW a \in Actor, DhcpdAddr(a)
      PROVE  RouteInv'
  BY <1>10, <1>2, <1>3 DEF DhcpdAddr, At, Goto, Live, WriteAddr, AfterDhcpd,
     Rest
<1>11. ASSUME NEW a \in Actor, DhcpdRoute(a)
      PROVE  RouteInv'
  <2>1. pc[a] = "d_route" /\ a \in Shim \cup {Boot}
    BY <1>11, <1>3 DEF DhcpdRoute, At, Rest
  <2>2. routes = <<>>
    BY <2>1 DEF RouteInv, NoRouteYet
  <2>3. Len(routes') = 1
    BY <1>11, <2>2, RouteAdded
  <2>4. PICK l \in {"d_dns", "ok", "m_addr"} : Goto(a, l)
    BY <1>11 DEF DhcpdRoute, Live, AfterDhcpd
  <2> QED
    BY <2>1, <2>2, <2>3, <2>4, <1>2 DEF Rest
<1>12. ASSUME NEW a \in Actor, DhcpdDns(a)
      PROVE  RouteInv'
  BY <1>12, <1>2, <1>3 DEF DhcpdDns, At, Goto, Live, WriteResolver,
     AfterDhcpd, Rest
<1>13. ASSUME NEW a \in Actor, MirrorAddr(a)
      PROVE  RouteInv'
  <2>1. PICK l \in {"ok", "fail", "m_route"} : Goto(a, l)
    BY <1>13 DEF MirrorAddr, Read, NoAddress
  <2>2. routes' = routes /\ pc[a] = "m_addr"
    BY <1>13 DEF MirrorAddr, Read, At, live
  <2> QED
    BY <2>1, <2>2, <1>2, <1>3 DEF Rest
<1>14. ASSUME NEW a \in Actor, MirrorRoute(a)
      PROVE  RouteInv'
  BY <1>14, <1>2, <1>3 DEF MirrorRoute, At, Goto, Read, live, Rest
<1>15. ASSUME NEW a \in Actor, MirrorDns(a)
      PROVE  RouteInv'
  BY <1>15, <1>2, <1>3 DEF MirrorDns, At, Goto, Read, live, Rest
<1>16. ASSUME NEW a \in Actor, Truncate(a)
      PROVE  RouteInv'
  BY <1>16 DEF Truncate, live, RouteInv, OneAtATime, NoRouteYet,
     AtMostOneDefaultRoute
<1>17. ASSUME NEW a \in Actor, Store(a)
      PROVE  RouteInv'
  BY <1>17, <1>2, <1>3 DEF Store, live, Goto, AfterFile, AfterMode, File,
     AddressFile, Rest
<1>18. ASSUME NEW a \in Actor, LeaseGranted(a)
      PROVE  RouteInv'
  <2>1. a # Service
    BY <1>18 DEF LeaseGranted
  <2> QED
    BY <1>18, <2>1, <1>0, <1>2 DEF LeaseGranted, live, At, Goto, Rest
<1>19. ASSUME NEW a \in Actor, LeaseRefused(a)
      PROVE  RouteInv'
  BY <1>19, <1>0 DEF LeaseRefused, live, At, Goto, Rest, Actor, RouteInv, OneAtATime,
     NoRouteYet, AtMostOneDefaultRoute
<1>20. ASSUME BootStep
      PROVE  RouteInv'
  BY <1>20, <1>2, <1>4 DEF BootStep, BootStart, BootIp, BootSubnet,
     BootRouter, BootDns, WaitSees, WaitExpires, Read, At, Goto, live, Rest
<1>21. ASSUME NewApply
      PROVE  RouteInv'
  <2>1. PICK a \in Shim, k \in Modes, c \in Requests \cup {Blank} : Launch(a, k, c)
    BY <1>21 DEF NewApply, Modes
  <2>2. \A b \in Actor : pc[b] \in Rest
    BY <2>1 DEF Launch, Quiet
  <2>3. /\ pc'[Service] = pc[Service] /\ routes' = routes
        /\ \A b \in Shim \cup {Boot} : b # a => pc'[b] \in Rest
    BY <2>1, <2>2 DEF Launch, live, Actor, Rest
  <2>4. pc'[a] = "elevate"
    BY <2>1 DEF Launch, Actor
  <2> QED
    BY <2>2, <2>3, <2>4 DEF RouteInv, OneAtATime, NoRouteYet, AtMostOneDefaultRoute,
       Rest
<1>22. ASSUME Reboot
      PROVE  RouteInv'
  BY <1>22 DEF Reboot, BootPc, RouteInv, OneAtATime, NoRouteYet, AtMostOneDefaultRoute,
     Rest, Actor
<1>23. ASSUME UNCHANGED vars
      PROVE  RouteInv'
  BY <1>23 DEF vars, live, process, RouteInv, OneAtATime, NoRouteYet,
     AtMostOneDefaultRoute
<1>24. ASSUME NEW a \in Actor, Progress(a)
      PROVE  RouteInv'
  BY <1>24, <1>5, <1>6, <1>7, <1>8, <1>9, <1>10, <1>11, <1>12, <1>13, <1>14,
     <1>15, <1>16, <1>17, <1>18, <1>19, <1>20 DEF Progress, ShimStep,
     DhcpdStep
<1> QED
  BY <1>1, <1>21, <1>22, <1>23, <1>24 DEF Next

\* An apply or a boot that nothing disturbs leaves one default route at most,
\* until a call fails, whatever routes, leases and configurations came before it.
THEOREM OneDefaultRoute ==
    ASSUME Undisturbed
    PROVE  Spec => []AtMostOneDefaultRoute
<1>1. Init => TypeOK /\ RouteInv
  BY InitType, InitRoute
<1>2. TypeOK /\ RouteInv /\ [Next]_vars => (TypeOK /\ RouteInv)'
  BY StepType, StepRoute, Undisturbed
<1>3. RouteInv => AtMostOneDefaultRoute
  BY DEF RouteInv, AtMostOneDefaultRoute
<1> QED
  BY <1>1, <1>2, <1>3, PTL DEF Spec
-----------------------------------------------------------------------------
(* Applies that wait for one another: what success and failure mean.          *)

Serial == ~Overlap

\* A step of a process moves it and no other, and does not start it.
LEMMA OneMoves ==
    ASSUME TypeOK, NEW a \in Actor, Progress(a) \/ Trouble(a)
    PROVE  /\ pc[a] \notin Rest
           /\ \E l \in Labels \ {"idle", "elevate"} : pc' = [pc EXCEPT ![a] = l]
           /\ base' = base /\ pinned' = pinned
<1> USE DEF Labels, Rest, File, AddressFile, At, Goto, history
<1>1. CASE Elevate(a) \/ SetAddr(a) \/ RemoveDefault(a) \/ AddDefault(a) \/ SetResolver(a)
  BY <1>1 DEF Elevate, SetAddr, RemoveDefault, AddDefault, SetResolver, Live, AfterAddr,
     AfterRoute
<1>2. CASE MirrorAddr(a) \/ MirrorRoute(a) \/ MirrorDns(a)
  BY <1>2 DEF MirrorAddr, MirrorRoute, MirrorDns, Read, NoAddress
<1>3. CASE Truncate(a)
  BY <1>3 DEF Truncate, TypeOK
<1>4. CASE Store(a)
  BY <1>4 DEF Store, AfterFile, AfterMode
<1>5. CASE DhcpdStep(a)
  BY <1>5 DEF DhcpdStep, LeaseGranted, LeaseRefused, DhcpdAddr, DhcpdRoute, DhcpdDns,
     Live, AfterDhcpd
<1>6. CASE a = Boot /\ BootStep
  BY <1>6 DEF BootStep, BootStart, BootIp, BootSubnet, BootRouter, BootDns, WaitSees,
     WaitExpires, Read
<1>7. CASE SchemeFault(a)
  BY <1>7 DEF SchemeFault, AfterDhcpd
<1>8. CASE ReadFault(a)
  BY <1>8 DEF ReadFault, NoAddress
<1>9. CASE FileFault(a)
  BY <1>9 DEF FileFault, AfterFile, AfterMode
<1> QED
  BY <1>1, <1>2, <1>3, <1>4, <1>5, <1>6, <1>7, <1>8, <1>9 DEF Progress, ShimStep, Trouble

\* While a process is at work, every other shim is idle.
LEMMA OthersIdle ==
    ASSUME TypeOK, Alone, NEW a \in Actor, Progress(a) \/ Trouble(a)
    PROVE  \A b \in Shim : b # a => pc[b] = "idle" /\ pc'[b] = "idle"
<1>1. pc[a] \notin Rest /\ \E l \in Labels : pc' = [pc EXCEPT ![a] = l]
  BY OneMoves
<1> QED
  BY <1>1 DEF TypeOK, Alone, Actor

\* A launched shim finds the others at rest, and those that ended are forgotten.
LEMMA LaunchMoves ==
    ASSUME TypeOK, Serial, NewApply
    PROVE  \E a \in Shim :
               /\ pc' = [b \in Actor |-> IF b = a THEN "elevate"
                                        ELSE IF b \in Shim THEN "idle" ELSE pc[b]]
               /\ Quiet /\ base' = etc /\ pinned' = None
               /\ UNCHANGED <<live, etc, faults>>
<1>1. PICK a \in Shim, k \in Modes, c \in Requests \cup {Blank} : Launch(a, k, c)
  BY DEF NewApply, Modes
<1> QED
  BY <1>1 DEF Launch, Serial, Quiet, TypeOK, Actor, Rest

LEMMA InitSerial == Init => SerialInv
  BY DEF Init, BootPc, SerialInv, Alone, InForce, Untouched, ModeWritten, OnShimPath,
     AddressFile, Actor

\* One process at a time: what it puts in force stays, and so do the files until it
\* writes the first one.
LEMMA StepSerial ==
    ASSUME Serial
    PROVE  TypeOK /\ SerialInv /\ [Next]_vars => SerialInv'
<1> SUFFICES ASSUME TypeOK, SerialInv, [Next]_vars PROVE SerialInv'
  OBVIOUS
<1> DEFINE Kept(a) == InForce(a) /\ Untouched(a) /\ ModeWritten(a) /\ OnShimPath(a)
<1>1. Alone /\ \A a \in Shim : Kept(a)
  BY DEF SerialInv
<1>2. pc \in [Actor -> Labels] /\ Shim \subseteq Actor
  BY DEF TypeOK, Actor
\* An idle shim has nothing to keep.
<1>3. ASSUME NEW a \in Shim, pc'[a] = "idle" PROVE Kept(a)'
  BY <1>3 DEF InForce, Untouched, ModeWritten, OnShimPath, AddressFile
\* The process that moved is the only one to look at.
<1>4. ASSUME NEW a \in Actor, Progress(a) \/ Trouble(a), a \in Shim => Kept(a)'
      PROVE  SerialInv'
  <2>1. \A b \in Shim : b # a => pc'[b] = "idle"
    BY <1>1, <1>4, OthersIdle
  <2>2. \A b \in Shim : Kept(b)'
    BY <1>3, <1>4, <2>1
  <2>3. pc[a] \notin Rest /\ \E l \in Labels : pc' = [pc EXCEPT ![a] = l]
    BY <1>4, OneMoves
  <2>4. Alone'
    BY <1>1, <1>2, <2>1, <2>3 DEF Alone, Rest
  <2> QED
    BY <2>2, <2>4 DEF SerialInv
<1> USE RoutesKept DEF TypeOK, SerialInv, InForce, Untouched, ModeWritten, OnShimPath
<1>5. ASSUME NEW a \in Shim, Elevate(a) PROVE Kept(a)'
  BY <1>5, <1>2 DEF Elevate, history, At, Goto, Option, Job, live, counters, AddressFile
<1>6. ASSUME NEW a \in Shim, SetAddr(a) PROVE Kept(a)'
  <2>1. addr' \in [ip : Ip, prefix : PrefixLengths]
    BY <1>6, <1>2 DEF SetAddr, WriteAddr, At, JobReady, HasAddress, Job, Option
  <2> QED
    BY <1>6, <1>2, <2>1 DEF SetAddr, WriteAddr, Live, AfterAddr, AfterRoute, At, Goto,
       Option,
     Job, live, counters, AddressFile
<1>7. ASSUME NEW a \in Shim, RemoveDefault(a) PROVE Kept(a)'
  BY <1>7, <1>2 DEF RemoveDefault, Live, At, Goto, Option, Job, live, counters, AddressFile
<1>8. ASSUME NEW a \in Shim, AddDefault(a) PROVE Kept(a)'
  <2>1. /\ Gateways' = Gateways \cup {job[a].gateway} /\ UNCHANGED <<addr, resolver>>
        /\ At(a, "add") /\ Live(a, AfterRoute(a))
    BY <1>8, <1>2, RouteAdded DEF AddDefault, WriteRoute
  <2> QED
    BY <1>2, <2>1 DEF Live, AfterRoute, At, Goto, Option, Job, counters, AddressFile
<1>9. ASSUME NEW a \in Shim, SetResolver(a) PROVE Kept(a)'
  BY <1>9, <1>2 DEF SetResolver, WriteResolver, Live, At, Goto, Option, Job, live,
     counters, AddressFile
<1>10. ASSUME NEW a \in Shim, LeaseGranted(a) PROVE Kept(a)'
  BY <1>10, <1>2 DEF LeaseGranted, history, At, Goto, Option, Job, live, counters,
     AddressFile
<1>11. ASSUME NEW a \in Shim, LeaseRefused(a) PROVE Kept(a)'
  BY <1>11, <1>2 DEF LeaseRefused, history, At, Goto, Option, Job, live, counters,
     AddressFile
<1>12. ASSUME NEW a \in Shim, DhcpdAddr(a) PROVE Kept(a)'
  BY <1>12, <1>2 DEF DhcpdAddr, WriteAddr, Live, AfterDhcpd, At, Goto, Option, Job, live,
     counters, AddressFile
<1>13. ASSUME NEW a \in Shim, DhcpdRoute(a) PROVE Kept(a)'
  BY <1>13, <1>2, RouteAdded DEF DhcpdRoute, WriteRoute, Live, AfterDhcpd, At, Goto,
     Option, Job,
     live, counters, AddressFile
<1>14. ASSUME NEW a \in Shim, DhcpdDns(a) PROVE Kept(a)'
  BY <1>14, <1>2 DEF DhcpdDns, WriteResolver, Live, AfterDhcpd, At, Goto, Option, Job,
     live, counters, AddressFile
<1>15. ASSUME NEW a \in Shim, MirrorAddr(a) PROVE Kept(a)'
  <2>1. CASE addr = None
    <3>1. Read(a, NoAddress(a), Blank)
      BY <1>15, <2>1 DEF MirrorAddr
    <3> QED
      BY <1>15, <1>2, <3>1 DEF MirrorAddr, At, Read, Goto, NoAddress, live, history,
         AddressFile
  <2>2. CASE addr # None
    <3>1. addr = [ip |-> addr.ip, prefix |-> addr.prefix]
      BY <2>2 DEF Option
    <3>2. Read(a, "m_route", [Blank EXCEPT !.ip = addr.ip, !.prefix = addr.prefix])
      BY <1>15, <2>2 DEF MirrorAddr
    <3> QED
      BY <1>15, <1>2, <2>2, <3>1, <3>2 DEF MirrorAddr, At, Read, Goto, Blank, live, history,
         AddressFile
  <2> QED
    BY <2>1, <2>2
<1>16. ASSUME NEW a \in Shim, MirrorRoute(a) PROVE Kept(a)'
  BY <1>16, <1>2, SMTT(30) DEF MirrorRoute, Read, history, At, Goto, Option, Job, live,
     counters,
     AddressFile
<1>17. ASSUME NEW a \in Shim, MirrorDns(a) PROVE Kept(a)'
  BY <1>17, <1>2, SMTT(30) DEF MirrorDns, Read, history, At, Goto, Option, Job, live,
     counters,
     AddressFile
<1>18. ASSUME NEW a \in Shim, Truncate(a) PROVE Kept(a)'
  BY <1>18, <1>2 DEF Truncate, File, Image, history, At, Goto, Option, Job, live,
     counters, AddressFile
<1>19. ASSUME NEW a \in Shim, Store(a) PROVE Kept(a)'
  BY <1>19, <1>2 DEF Store, File, Image, AfterFile, AfterMode, Written, history, At, Goto,
     Option, Job, live, counters, AddressFile
<1>20. ASSUME NEW a \in Shim, SchemeFault(a) PROVE Kept(a)'
  BY <1>20, <1>2 DEF SchemeFault, Fault, AfterDhcpd, history, At, Goto, Option, Job, live,
     counters, AddressFile
<1>21. ASSUME NEW a \in Shim, ReadFault(a) PROVE Kept(a)'
  BY <1>21, <1>2 DEF ReadFault, Fault, NoAddress, history, At, Goto, Option, Job, live,
     counters, AddressFile
<1>22. ASSUME NEW a \in Shim, FileFault(a) PROVE Kept(a)'
  BY <1>22, <1>2 DEF FileFault, Fault, AfterFile, AfterMode, File, history, At, Goto,
     Option, Job, live, counters, AddressFile
<1> HIDE DEF TypeOK, SerialInv, InForce, Untouched, ModeWritten, OnShimPath, Kept
<1>23. ASSUME NEW a \in Actor, Progress(a) \/ Trouble(a) PROVE SerialInv'
  <2>1. ASSUME a \in Shim PROVE Kept(a)'
    <3>1. a # Boot
      BY <2>1
    <3> QED
      BY <1>23, <2>1, <3>1, <1>5, <1>6, <1>7, <1>8, <1>9, <1>10, <1>11, <1>12, <1>13,
         <1>14, <1>15, <1>16, <1>17, <1>18, <1>19, <1>20, <1>21, <1>22
         DEF Progress, ShimStep, DhcpdStep, Trouble
  <2> QED
    BY <1>4, <1>23, <2>1
<1>24. ASSUME NewApply PROVE SerialInv'
  <2>1. PICK a \in Shim :
            /\ pc' = [b \in Actor |-> IF b = a THEN "elevate"
                                     ELSE IF b \in Shim THEN "idle" ELSE pc[b]]
            /\ Quiet /\ base' = etc /\ etc' = etc
    BY <1>24, LaunchMoves
  <2>2. \A b \in Shim : b # a => pc'[b] = "idle"
    BY <1>2, <2>1
  <2>3. pc'[a] = "elevate"
    BY <1>2, <2>1
  <2>4. Kept(a)'
    BY <2>1, <2>3 DEF Kept, InForce, Untouched, ModeWritten, OnShimPath, AddressFile
  <2>5. Alone'
    BY <1>2, <2>1 DEF Alone, Quiet, Rest
  <2> QED
    BY <1>3, <2>2, <2>4, <2>5 DEF SerialInv, Kept
<1>25. ASSUME Reboot PROVE SerialInv'
  <2>1. \A a \in Shim : pc'[a] = "idle"
    BY <1>25 DEF Reboot, BootPc, Actor
  <2>2. Alone'
    BY <2>1 DEF Alone
  <2> QED
    BY <1>3, <2>1, <2>2 DEF SerialInv, Kept
<1>26. ASSUME UNCHANGED vars PROVE SerialInv'
  BY <1>26, RoutesKept DEF vars, live, process, history, SerialInv, Alone, InForce,
     Untouched,
     ModeWritten, OnShimPath
<1> QED
  BY <1>23, <1>24, <1>25, <1>26 DEF Next

\* An apply that fails leaves the address files as it found them, whatever failed
\* and wherever, for applies that wait for one another.
THEOREM FailureIsHarmless ==
    ASSUME Serial
    PROVE  Spec => []FailKeepsFiles
<1>1. Init => TypeOK /\ SerialInv
  BY InitType, InitSerial
<1>2. TypeOK /\ SerialInv /\ [Next]_vars => (TypeOK /\ SerialInv)'
  BY StepType, StepSerial, Serial
<1>3. SerialInv => FailKeepsFiles
  BY DEF SerialInv, Untouched, FailKeepsFiles, AddressFile
<1> QED
  BY <1>1, <1>2, <1>3, PTL DEF Spec

\* An apply that exits 0 has put everything it was asked for on the live stack,
\* whatever failed on the way, for applies that wait for one another.
THEOREM SuccessIsInForce ==
    ASSUME Serial
    PROVE  Spec => []OkMeansApplied
<1>1. Init => TypeOK /\ SerialInv
  BY InitType, InitSerial
<1>2. TypeOK /\ SerialInv /\ [Next]_vars => (TypeOK /\ SerialInv)'
  BY StepType, StepSerial, Serial
<1>3. SerialInv => OkMeansApplied
  BY DEF SerialInv, InForce, OkMeansApplied
<1> QED
  BY <1>1, <1>2, <1>3, PTL DEF Spec
-----------------------------------------------------------------------------
(* The files say what is live.  VisibleInv needs SerialInv, for one process at  *)
(* a time, and RouteInv, for the one route that the mirror reads.               *)

\* The mask a shim stores is read back as the prefix it made live.
LEMMA StoredMask ==
    ASSUME NEW p \in PrefixLengths
    PROVE  ReadPrefix(PrefixToNetmask(p)) = p
<1>1. PrefixToNetmask(p) \in Masks /\ NetmaskToPrefix(PrefixToNetmask(p)) = p
  BY MaskType, RoundTrip
<1> QED
  BY <1>1 DEF ReadPrefix

LEMMA InitVisible == Init => VisibleInv
  BY RoutesKept DEF Init, BootPc, VisibleInv, AddrVisible, RoutesVisible, DnsVisible,
     DueKnown,
     BootInv,
     RouteDue, AddressFile, Rest, Actor

\* A boot on its way makes live what it read from the files, which nobody writes.
LEMMA BootVisible ==
    ASSUME TypeOK, BootInv, BootStep, AddrVisible, RoutesVisible, DnsVisible
    PROVE  (AddrVisible /\ RoutesVisible /\ DnsVisible /\ BootInv)'
<1> USE RoutesKept DEF TypeOK, BootInv, AddrVisible, RoutesVisible, DnsVisible, At, Goto, live, history,
        Read, Rest
<1>0. Boot \in Actor
  BY DEF Actor
<1>1. CASE BootStart
  <2>1. /\ UNCHANGED <<live, etc, job>> /\ pc[Boot] = "start"
        /\ Goto(Boot, "b_ip") \/ Goto(Boot, "wait")
    BY <1>1 DEF BootStart
  <2>2. pc'[Boot] \in {"b_ip", "wait"}
    BY <1>0, <2>1
  <2> QED
    BY <2>1, <2>2
<1>2. CASE BootIp
  BY <1>0, <1>2 DEF BootIp, Blank
<1>3. CASE BootSubnet
  BY <1>0, <1>3 DEF BootSubnet, Job
<1>4. CASE BootRouter
  BY <1>0, <1>4 DEF BootRouter, Job
<1>5. CASE BootDns
  BY <1>0, <1>5 DEF BootDns, Job
<1>6. CASE WaitSees
  BY <1>0, <1>6 DEF WaitSees
<1>7. CASE WaitExpires
  BY <1>0, <1>7 DEF WaitExpires
<1> QED
  BY <1>1, <1>2, <1>3, <1>4, <1>5, <1>6, <1>7 DEF BootStep

LEMMA BootWritesVisible ==
    ASSUME TypeOK, BootInv, SetAddr(Boot) \/ RemoveDefault(Boot) \/ AddDefault(Boot)
                            \/ SetResolver(Boot),
           routes = <<>> \/ pc[Boot] # "add",
           AddrVisible, RoutesVisible, DnsVisible
    PROVE  (AddrVisible /\ RoutesVisible /\ DnsVisible /\ BootInv)'
<1> USE RoutesKept DEF TypeOK, BootInv, AddrVisible, RoutesVisible, DnsVisible, At, Goto, Live, Rest
<1>0. Boot \in Actor
  BY DEF Actor
<1>1. CASE SetAddr(Boot)
  BY <1>0, <1>1 DEF SetAddr, WriteAddr, AfterAddr
<1>2. CASE RemoveDefault(Boot)
  BY <1>0, <1>2 DEF RemoveDefault
<1>3. CASE AddDefault(Boot)
  <2>1. /\ Gateways' = {job[Boot].gateway} /\ UNCHANGED <<addr, resolver, etc, job>>
        /\ pc[Boot] = "add" /\ pc' = [pc EXCEPT ![Boot] = "b_dns"]
    BY <1>0, <1>3, RouteAdded DEF AddDefault, WriteRoute, AfterRoute
  <2>2. /\ pc'[Boot] = "b_dns" /\ job[Boot].gateway = etc["router"]
    BY <1>0, <2>1
  <2> QED
    BY <2>1, <2>2
<1>4. CASE SetResolver(Boot)
  BY <1>0, <1>4 DEF SetResolver, WriteResolver
<1> QED
  BY <1>1, <1>2, <1>3, <1>4

\* Between two failures, a step leaves nothing live that is neither in the files nor
\* about to be written there.
LEMMA StepVisible ==
    ASSUME Undisturbed
    PROVE  TypeOK /\ RouteInv /\ SerialInv /\ VisibleInv /\ [Next]_vars => VisibleInv'
<1> SUFFICES ASSUME TypeOK, RouteInv, SerialInv, VisibleInv, [Next]_vars,
                    faults' = 0, faults = 0
             PROVE  VisibleInv'
  BY FaultsGrow DEF VisibleInv
<1> DEFINE Vis(a) == /\ ~AddrDue(a) => AddrVisible
                     /\ ~RouteDue(a) => RoutesVisible
                     /\ ~DnsDue(a) => DnsVisible
                     /\ DueKnown(a)
           AllVisible == AddrVisible /\ RoutesVisible /\ DnsVisible
<1>1. /\ pc \in [Actor -> Labels] /\ Shim \subseteq Actor /\ Boot \in Actor
      /\ Alone /\ \A a \in Shim : InForce(a)
  BY DEF TypeOK, Actor, SerialInv
<1>2. OneAtATime /\ NoRouteYet /\ AtMostOneDefaultRoute
  BY DEF RouteInv
<1>3. /\ (\A a \in Shim : ~AddrDue(a)) => AddrVisible
      /\ (\A a \in Shim : ~RouteDue(a)) => RoutesVisible
      /\ (\A a \in Shim : ~DnsDue(a)) => DnsVisible
      /\ \A a \in Shim : DueKnown(a)
      /\ BootInv
  BY DEF VisibleInv
<1>4. ASSUME NEW a \in Actor, Trouble(a) PROVE FALSE
  <2>1. faults \in Nat
    BY ConfigAssumption DEF TypeOK
  <2> QED
    BY <1>4, <2>1 DEF Trouble, SchemeFault, ReadFault, FileFault, Fault
\* A shim at rest has nothing due.
<1>5. ASSUME NEW a \in Shim
      PROVE  /\ pc[a] \in Rest => ~AddrDue(a) /\ ~RouteDue(a) /\ ~DnsDue(a)
             /\ pc'[a] \in Rest => (~AddrDue(a) /\ ~RouteDue(a) /\ ~DnsDue(a) /\ DueKnown(a))'
  BY DEF AddrDue, RouteDue, DnsDue, DueKnown, AddressFile, Rest
\* While one shim is at work, the others and the boot are at rest.
<1>6. ASSUME NEW a \in Shim, Progress(a), Vis(a)'
      PROVE  VisibleInv'
  <2>1. \A b \in Shim : b # a => pc'[b] = "idle"
    BY <1>1, <1>6, OthersIdle
  <2>2. pc[a] \notin Rest /\ \E l \in Labels : pc' = [pc EXCEPT ![a] = l]
    BY <1>1, <1>6, OneMoves
  <2>3. pc[Boot] \in Rest /\ pc'[Boot] = pc[Boot]
    BY <1>1, <2>2 DEF Alone, Rest
  <2>4. BootInv'
    BY <2>3 DEF BootInv, Rest
  <2>5. /\ (\A b \in Shim : ~AddrDue(b)') => AddrVisible'
        /\ (\A b \in Shim : ~RouteDue(b)') => RoutesVisible'
        /\ (\A b \in Shim : ~DnsDue(b)') => DnsVisible'
    BY <1>6
  <2>6. \A b \in Shim : DueKnown(b)'
    BY <1>5, <1>6, <2>1 DEF Rest
  <2> QED
    BY <2>4, <2>5, <2>6 DEF VisibleInv
<1>7. ASSUME NEW a \in Shim, Progress(a) PROVE Vis(a)
  <2>1. \A b \in Shim : b # a => pc[b] = "idle"
    BY <1>1, <1>7, OthersIdle
  <2>2. \A b \in Shim : b # a => ~AddrDue(b) /\ ~RouteDue(b) /\ ~DnsDue(b)
    BY <1>5, <2>1 DEF Rest
  <2> QED
    BY <1>3, <2>2
\* While no shim is at work, everything is visible, and stays so.
<1>8. ASSUME \A a \in Shim : pc[a] \in Rest
      PROVE  AllVisible
  BY <1>3, <1>5, <1>8
<1>9. ASSUME AllVisible', BootInv', \A a \in Shim : pc'[a] \in Rest
      PROVE  VisibleInv'
  BY <1>5, <1>9 DEF VisibleInv
<1> USE RoutesKept DEF TypeOK, InForce, AddrDue, RouteDue, DnsDue, DueKnown, AddrVisible, RoutesVisible,
        DnsVisible, JobReady, HasAddress
<1>10. ASSUME NEW a \in Shim, Elevate(a), Vis(a), InForce(a) PROVE Vis(a)'
  BY <1>10, <1>1 DEF Elevate, history, At, Goto, Option, Job, live, counters, AddressFile,
     Rest
<1>11. ASSUME NEW a \in Shim, SetAddr(a), Vis(a), InForce(a) PROVE Vis(a)'
  BY <1>11, <1>1 DEF SetAddr, WriteAddr, Live, AfterAddr, AfterRoute, At, Goto, Option,
     Job, live, counters, AddressFile, Rest
<1>12. ASSUME NEW a \in Shim, RemoveDefault(a), Vis(a), InForce(a) PROVE Vis(a)'
  BY <1>12, <1>1 DEF RemoveDefault, Live, At, Goto, Option, Job, live, counters,
     AddressFile, Rest
<1>13. ASSUME NEW a \in Shim, AddDefault(a), Vis(a), InForce(a) PROVE Vis(a)'
  <2>1. routes = <<>>
    BY <1>13, <1>2 DEF AddDefault, At, NoRouteYet
  <2> QED
    BY <1>13, <1>1, <2>1, RouteAdded DEF AddDefault, WriteRoute, Live, AfterRoute, At,
       Goto, Option,
       Job, live, counters, AddressFile, Rest
<1>14. ASSUME NEW a \in Shim, SetResolver(a), Vis(a), InForce(a) PROVE Vis(a)'
  BY <1>14, <1>1 DEF SetResolver, WriteResolver, Live, At, Goto, Option, Job, live,
     counters, AddressFile, Rest
<1>15. ASSUME NEW a \in Shim, LeaseGranted(a), Vis(a), InForce(a) PROVE Vis(a)'
  BY <1>15, <1>1 DEF LeaseGranted, history, At, Goto, Option, Job, live, counters,
     AddressFile, Rest
<1>16. ASSUME NEW a \in Shim, LeaseRefused(a), Vis(a), InForce(a) PROVE Vis(a)'
  BY <1>16, <1>1 DEF LeaseRefused, history, At, Goto, Option, Job, live, counters,
     AddressFile, Rest
<1>17. ASSUME NEW a \in Shim, DhcpdAddr(a), Vis(a), InForce(a) PROVE Vis(a)'
  <2>1. routes = <<>>
    BY <1>17, <1>2 DEF DhcpdAddr, At, NoRouteYet
  <2>2. addr' \in [ip : Ip, prefix : PrefixLengths]
    BY <1>17, <1>1 DEF DhcpdAddr, WriteAddr, At, Job, Option
  <2> QED
    BY <1>17, <1>1, <2>1, <2>2 DEF DhcpdAddr, WriteAddr, Live, AfterDhcpd, At, Goto, Option,
       Job, live, counters, AddressFile, Rest
<1>18. ASSUME NEW a \in Shim, DhcpdRoute(a), Vis(a), InForce(a) PROVE Vis(a)'
  <2>1. routes = <<>>
    BY <1>18, <1>2 DEF DhcpdRoute, At, NoRouteYet
  <2> QED
    BY <1>18, <1>1, <2>1, RouteAdded DEF DhcpdRoute, WriteRoute, Live, AfterDhcpd, At,
       Goto, Option,
       Job, live, counters, AddressFile, Rest
<1>19. ASSUME NEW a \in Shim, DhcpdDns(a), Vis(a), InForce(a) PROVE Vis(a)'
  BY <1>19, <1>1 DEF DhcpdDns, WriteResolver, Live, AfterDhcpd, At, Goto, Option, Job,
     live, counters, AddressFile, Rest
<1>20. ASSUME NEW a \in Shim, MirrorAddr(a), Vis(a), InForce(a) PROVE Vis(a)'
  <2>1. addr # None
    BY <1>20 DEF MirrorAddr, At
  <2>2. Read(a, "m_route", [Blank EXCEPT !.ip = addr.ip, !.prefix = addr.prefix])
    BY <1>20, <2>1 DEF MirrorAddr
  <2> QED
    BY <1>20, <1>1, <2>2 DEF MirrorAddr, At, Read, Goto, Blank, live, history, AddressFile
<1>21. ASSUME NEW a \in Shim, MirrorRoute(a), Vis(a), InForce(a) PROVE Vis(a)'
  <2>1. \A g \in Gateways : Gateways \subseteq {g}
    BY <1>2, LoneRoute
  <2>2. PICK g : /\ Read(a, "m_dns", [job[a] EXCEPT !.gateway = g])
                 /\ Gateways \subseteq {g} /\ (g = None => Gateways = {})
    BY <1>21, <2>1, RoutesType DEF MirrorRoute
  <2>3. At(a, "m_route")
    BY <1>21 DEF MirrorRoute
  <2> QED
    BY <1>21, <1>1, <2>2, <2>3 DEF Read, history, At, Goto, Option, Job, live,
       counters, AddressFile, Rest
<1>22. ASSUME NEW a \in Shim, MirrorDns(a), Vis(a), InForce(a) PROVE Vis(a)'
  BY <1>22, <1>1 DEF MirrorDns, Read, history, At, Goto, Option, Job, live, counters,
     AddressFile, Rest
<1>23. ASSUME NEW a \in Shim, Truncate(a), Vis(a), InForce(a) PROVE Vis(a)'
  BY <1>23, <1>1 DEF Truncate, File, Image, history, At, Goto, Option, Job, live,
     counters, AddressFile, Rest
<1>24. ASSUME NEW a \in Shim, Store(a), Vis(a), InForce(a) PROVE Vis(a)'
  <2>1. job[a].prefix # None /\ pc[a] = "subnet" =>
            ReadPrefix(PrefixToNetmask(job[a].prefix)) = job[a].prefix
    BY <1>1, StoredMask DEF Job, Option
  <2>2. pc[a] = "subnet" => job[a].prefix # None
    BY <1>1 DEF JobReady, HasAddress, AddressFile
  <2> QED
    BY <1>24, <1>1, <2>1, <2>2, SMTT(30) DEF Store, File, Image, AfterFile, AfterMode,
       Written,
       history, At, Goto, Option, Job, live, counters, AddressFile, Rest
<1> HIDE DEF TypeOK, InForce, AddrDue, RouteDue, DnsDue, DueKnown, AddrVisible,
         RoutesVisible, DnsVisible, JobReady, HasAddress, Vis, AllVisible
<1>25. ASSUME NEW a \in Shim, Progress(a) PROVE VisibleInv'
  <2>1. Vis(a) /\ InForce(a) /\ a # Boot
    BY <1>1, <1>7, <1>25
  <2>2. Vis(a)'
    BY <1>25, <2>1, <1>10, <1>11, <1>12, <1>13, <1>14, <1>15, <1>16, <1>17, <1>18, <1>19,
       <1>20, <1>21, <1>22, <1>23, <1>24
       DEF Progress, ShimStep, DhcpdStep
  <2> QED
    BY <1>6, <1>25, <2>2
<1>26. ASSUME Progress(Boot) PROVE VisibleInv'
  <2>1. pc[Boot] \notin Rest /\ \A a \in Shim : pc[a] = "idle" /\ pc'[a] = "idle"
    BY <1>1, <1>26, OneMoves, OthersIdle
  <2>2. AllVisible
    BY <1>8, <2>1 DEF Rest
  <2>3. \/ BootStep
        \/ SetAddr(Boot) \/ RemoveDefault(Boot) \/ AddDefault(Boot) \/ SetResolver(Boot)
    BY <1>3, <1>26, <2>1 DEF BootInv, Progress, ShimStep, DhcpdStep, Elevate, MirrorAddr,
       MirrorRoute, MirrorDns, Truncate, Store, LeaseGranted, LeaseRefused, DhcpdAddr,
       DhcpdRoute, DhcpdDns, At, File, AddressFile
  <2>4. routes = <<>> \/ pc[Boot] # "add"
    BY <1>2 DEF NoRouteYet
  <2>5. AllVisible' /\ BootInv'
    BY <1>3, <2>2, <2>3, <2>4, BootVisible, BootWritesVisible DEF AllVisible
  <2> QED
    BY <1>9, <2>1, <2>5 DEF Rest
<1>27. ASSUME Progress(Service) PROVE VisibleInv'
  <2>1. Service \in Actor /\ pc[Service] \in {"lease", "fail"}
    BY <1>2 DEF OneAtATime, Actor
  <2>2. \A a \in Shim : pc[a] = "idle" /\ pc'[a] = "idle"
    BY <1>27, <1>1, <2>1, OthersIdle DEF Actor
  <2>3. LeaseRefused(Service)
    BY <1>27, <2>1 DEF Undisturbed, Progress, ShimStep, DhcpdStep, Elevate, SetAddr,
       RemoveDefault, AddDefault, SetResolver, MirrorAddr, MirrorRoute, MirrorDns, Truncate,
       Store, LeaseGranted, DhcpdAddr, DhcpdRoute, DhcpdDns, At, File, AddressFile
  <2>4. AllVisible'
    BY <1>8, <2>2, <2>3 DEF LeaseRefused, live, AllVisible, AddrVisible, RoutesVisible,
       DnsVisible, Rest
  <2>5. pc'[Boot] = pc[Boot]
    BY <1>1, <2>3 DEF LeaseRefused, Goto
  <2>6. BootInv'
    BY <1>3, <2>3, <2>5 DEF BootInv, LeaseRefused, live
  <2> QED
    BY <1>9, <2>2, <2>4, <2>6 DEF Rest
<1>28. ASSUME NewApply PROVE VisibleInv'
  <2>1. PICK a \in Shim :
            /\ pc' = [b \in Actor |-> IF b = a THEN "elevate"
                                     ELSE IF b \in Shim THEN "idle" ELSE pc[b]]
            /\ Quiet /\ UNCHANGED <<live, etc>>
    BY <1>28, LaunchMoves DEF Serial, Undisturbed
  <2>2. \A b \in Shim : pc[b] \in Rest
    BY <1>1, <2>1 DEF Quiet
  <2>3. AllVisible'
    BY <1>8, <2>1, <2>2 DEF live, AllVisible, AddrVisible, RoutesVisible, DnsVisible
  <2>4. pc[Boot] \in Rest /\ pc'[Boot] = pc[Boot]
    BY <1>1, <2>1 DEF Quiet
  <2>5. BootInv'
    BY <2>4 DEF BootInv, Rest
  <2>6. \A b \in Shim : pc'[b] \in {"elevate", "idle"}
    BY <1>1, <2>1
  <2>7. \A b \in Shim : DueKnown(b)'
    BY <2>6 DEF DueKnown
  <2> QED
    BY <2>3, <2>5, <2>7 DEF VisibleInv, AllVisible
<1>29. ASSUME Reboot PROVE VisibleInv'
  <2>1. \A a \in Shim : pc'[a] = "idle"
    BY <1>29, RoutesKept DEF Reboot, BootPc, Actor
  <2>2. AllVisible' /\ BootInv'
    BY <1>29, RoutesKept DEF Reboot, BootPc, Actor, AllVisible, AddrVisible,
       RoutesVisible, DnsVisible,
       BootInv, Rest
  <2> QED
    BY <1>9, <2>1, <2>2 DEF Rest
<1>30. ASSUME UNCHANGED vars PROVE VisibleInv'
  BY <1>30, RoutesKept DEF vars, live, process, counters, VisibleInv, AddrDue, RouteDue,
     DnsDue,
     DueKnown,
     AddrVisible, RoutesVisible, DnsVisible, BootInv
<1> QED
  BY <1>4, <1>25, <1>26, <1>27, <1>28, <1>29, <1>30 DEF Next, Actor

\* When nothing runs, the files say what is live, until a call fails: for applies
\* that wait for one another and a boot service that gets no lease.
THEOREM FilesShowLive ==
    ASSUME Undisturbed
    PROVE  Spec => []LiveIsVisible
<1>1. Init => TypeOK /\ RouteInv /\ SerialInv /\ VisibleInv
  BY InitType, InitRoute, InitSerial, InitVisible
<1>2. TypeOK /\ RouteInv /\ SerialInv /\ VisibleInv /\ [Next]_vars
          => (TypeOK /\ RouteInv /\ SerialInv /\ VisibleInv)'
  BY StepType, StepRoute, StepSerial, StepVisible, Undisturbed DEF Undisturbed, Serial
<1>3. VisibleInv => LiveIsVisible
  <2>1. ASSUME Quiet, NEW a \in Shim PROVE ~AddrDue(a) /\ ~RouteDue(a) /\ ~DnsDue(a)
    BY <2>1 DEF Quiet, Actor, AddrDue, RouteDue, DnsDue, AddressFile, Rest
  <2> QED
    BY <2>1 DEF VisibleInv, LiveIsVisible
<1> QED
  BY <1>1, <1>2, <1>3, PTL DEF Spec
-----------------------------------------------------------------------------
(* A static configuration survives the reboot: what VisibleInv finds in the     *)
(* files when the machine goes down is what the next boot reads.                *)

LEMMA InitPinned == Init => PinnedInv
  BY DEF Init, PinnedInv

\* The boot of a static machine restores the live stack piece by piece.
LEMMA BootRestores ==
    ASSUME TypeOK, BootInv, Restorable, Restored, pc[Boot] \notin Rest \ {"ok"},
           pc[Boot] # "wait", pinned' = pinned,
           BootStep \/ SetAddr(Boot) \/ RemoveDefault(Boot) \/ AddDefault(Boot)
                    \/ SetResolver(Boot)
    PROVE  (Restorable /\ Restored)' /\ pc'[Boot] \notin {"idle", "wait", "fail"}
<1> USE RoutesKept DEF TypeOK, BootInv, Restorable, Restored, At, Goto, live, history, Read, Live, Rest
<1>0. Boot \in Actor
  BY DEF Actor
<1>1. CASE BootStart
  BY <1>0, <1>1 DEF BootStart
<1>2. CASE BootIp
  <2>1. etc["ip"] # None
    BY DEF Option
  <2> QED
    BY <1>0, <1>2, <2>1 DEF BootIp
<1>3. CASE BootSubnet
  BY <1>0, <1>3 DEF BootSubnet
<1>4. CASE BootRouter
  BY <1>0, <1>4 DEF BootRouter
<1>5. CASE BootDns
  BY <1>0, <1>5 DEF BootDns
<1>6. CASE WaitSees \/ WaitExpires
  BY <1>6 DEF WaitSees, WaitExpires
<1>7. CASE SetAddr(Boot)
  BY <1>0, <1>7 DEF SetAddr, WriteAddr, AfterAddr
<1>8. CASE RemoveDefault(Boot)
  BY <1>0, <1>8 DEF RemoveDefault
<1>9. CASE AddDefault(Boot)
  <2>1. /\ Gateways' = Gateways \cup {job[Boot].gateway} /\ UNCHANGED <<addr, resolver, etc>>
        /\ pc[Boot] = "add" /\ pc' = [pc EXCEPT ![Boot] = "b_dns"]
    BY <1>0, <1>9, RouteAdded DEF AddDefault, WriteRoute, AfterRoute
  <2>2. /\ pc'[Boot] = "b_dns" /\ addr = pinned.addr /\ job[Boot].gateway = etc["router"]
    BY <1>0, <2>1
  <2> QED
    BY <2>1, <2>2
<1>10. CASE SetResolver(Boot)
  BY <1>0, <1>10 DEF SetResolver, WriteResolver
<1> QED
  BY <1>1, <1>2, <1>3, <1>4, <1>5, <1>6, <1>7, <1>8, <1>9, <1>10 DEF BootStep

LEMMA StepPinned ==
    ASSUME Undisturbed
    PROVE  TypeOK /\ RouteInv /\ SerialInv /\ VisibleInv /\ PinnedInv /\ [Next]_vars
               => PinnedInv'
<1> SUFFICES ASSUME TypeOK, RouteInv, SerialInv, VisibleInv, PinnedInv, [Next]_vars,
                    faults' = 0, faults = 0, pinned' # None
             PROVE  /\ \A a \in Shim : pc'[a] = "idle"
                    /\ pc'[Boot] \notin {"idle", "wait", "fail"}
                    /\ (Restorable /\ Restored)'
  BY FaultsGrow DEF PinnedInv
<1> DEFINE Goal == /\ \A a \in Shim : pc'[a] = "idle"
                   /\ pc'[Boot] \notin {"idle", "wait", "fail"}
                   /\ (Restorable /\ Restored)'
<1>1. pc \in [Actor -> Labels] /\ Shim \subseteq Actor /\ Boot \in Actor /\ Alone
  BY DEF TypeOK, Actor, SerialInv
<1>2. pinned # None => /\ \A a \in Shim : pc[a] = "idle"
                       /\ pc[Boot] \notin {"idle", "wait", "fail"}
                       /\ Restorable /\ Restored
  BY DEF PinnedInv
<1>3. BootInv /\ OneAtATime
  BY DEF VisibleInv, RouteInv
<1>4. ASSUME NEW a \in Actor, Trouble(a) PROVE FALSE
  <2>1. faults \in Nat
    BY ConfigAssumption DEF TypeOK
  <2> QED
    BY <1>4, <2>1 DEF Trouble, SchemeFault, ReadFault, FileFault, Fault
<1>5. ASSUME NEW a \in Actor, Progress(a) PROVE Goal
  <2>1. pc[a] \notin Rest /\ pinned' = pinned
        /\ \E l \in Labels : pc' = [pc EXCEPT ![a] = l]
    BY <1>5, OneMoves
  <2>2. a \notin Shim /\ \A b \in Shim : pc'[b] = "idle"
    BY <1>1, <1>2, <2>1 DEF Rest
  <2>3. CASE a = Boot
    <3>1. \/ BootStep
          \/ SetAddr(Boot) \/ RemoveDefault(Boot) \/ AddDefault(Boot) \/ SetResolver(Boot)
      BY <1>3, <1>5, <2>1, <2>3 DEF BootInv, Progress, ShimStep, DhcpdStep, Elevate,
         MirrorAddr, MirrorRoute, MirrorDns, Truncate, Store, LeaseGranted, LeaseRefused,
         DhcpdAddr, DhcpdRoute, DhcpdDns, At, File, AddressFile
    <3>2. (Restorable /\ Restored)' /\ pc'[Boot] \notin {"idle", "wait", "fail"}
      BY <1>2, <1>3, <2>1, <3>1, BootRestores DEF Rest
    <3> QED
      BY <2>2, <3>2
  <2>4. CASE a = Service
    <3>1. pc[Service] = "lease"
      BY <1>3, <2>1, <2>4 DEF OneAtATime, Rest
    <3>2. LeaseRefused(Service)
      BY <1>5, <2>4, <3>1 DEF Undisturbed, Progress, ShimStep, DhcpdStep, Elevate, SetAddr,
         RemoveDefault, AddDefault, SetResolver, MirrorAddr, MirrorRoute, MirrorDns,
         Truncate, Store, LeaseGranted, DhcpdAddr, DhcpdRoute, DhcpdDns, At, File,
         AddressFile
    <3>3. pc'[Boot] = pc[Boot]
      BY <1>1, <3>2 DEF LeaseRefused, Goto
    <3>4. (Restorable /\ Restored)'
      BY <1>2, <2>1, <3>2, <3>3, RoutesKept DEF LeaseRefused, Restorable, Restored, live
    <3> QED
      BY <1>2, <2>1, <2>2, <3>3, <3>4
  <2> QED
    BY <2>2, <2>3, <2>4 DEF Actor
<1>6. ASSUME NewApply PROVE FALSE
  BY <1>6, LaunchMoves DEF Serial, Undisturbed
<1>7. ASSUME Reboot PROVE Goal
  <2>1. (\A a \in Shim : pc'[a] = "idle") /\ pc'[Boot] = "start" /\ etc' = etc
    BY <1>7 DEF Reboot, BootPc, Actor
  <2>2. Restored'
    BY <2>1 DEF Restored
  <2>3. ASSUME NEW a \in Shim, kind[a] = "static", pc[a] = "ok"
        PROVE  Restorable'
    <3>1. pinned' = [addr |-> addr, routes |-> Gateways, resolver |-> resolver]
      BY <1>7, <2>3 DEF Reboot
    <3>2. addr # None /\ etc["mode"] = "static"
      BY <2>3 DEF SerialInv, InForce, ModeWritten
    <3>3. addr \in [ip : Ip, prefix : PrefixLengths] /\ Gateways \subseteq Gateway
      BY <3>2, RoutesType DEF TypeOK, Option
    <3>4. \A b \in Shim : pc[b] \in Rest
      BY <1>1, <2>3 DEF Alone, Rest
    <3>5. \A b \in Shim : ~AddrDue(b) /\ ~RouteDue(b) /\ ~DnsDue(b)
      BY <3>4 DEF AddrDue, RouteDue, DnsDue, AddressFile, Rest
    <3>6. AddrVisible /\ RoutesVisible /\ DnsVisible
      BY <3>5 DEF VisibleInv
    <3> QED
      BY <2>1, <3>1, <3>2, <3>3, <3>6 DEF AddrVisible, RoutesVisible, DnsVisible, Restorable
  <2>4. ASSUME pinned' = pinned PROVE Restorable'
    BY <1>2, <2>1, <2>4 DEF Restorable
  <2>5. Restorable'
    BY <1>7, <2>3, <2>4 DEF Reboot
  <2> QED
    BY <2>1, <2>2, <2>5
<1>8. ASSUME UNCHANGED vars PROVE Goal
  BY <1>2, <1>8, RoutesKept DEF vars, live, process, history, Restorable, Restored
<1> QED
  BY <1>4, <1>5, <1>6, <1>7, <1>8 DEF Next

\* What a static apply put in force is in force again once the next boot has
\* settled, however many crashes that boot takes, until a call fails: for applies
\* that wait for one another and a boot service that gets no lease.
THEOREM RebootRestores ==
    ASSUME Undisturbed
    PROVE  Spec => []SurvivesReboot
<1> DEFINE I == TypeOK /\ RouteInv /\ SerialInv /\ VisibleInv /\ PinnedInv
<1>1. Init => I
  BY InitType, InitRoute, InitSerial, InitVisible, InitPinned
<1>2. I /\ [Next]_vars => I'
  BY StepType, StepRoute, StepSerial, StepVisible, StepPinned, Undisturbed
     DEF Undisturbed, Serial
<1>3. I => SurvivesReboot
  BY DEF PinnedInv, Restored, SurvivesReboot, Quiet, Actor, Rest
<1> QED
  BY <1>1, <1>2, <1>3, PTL DEF Spec
=============================================================================
