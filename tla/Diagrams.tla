------------------------------ MODULE Diagrams ------------------------------
(***************************************************************************)
(* Diagrams and topologies (types/builder): how a stored topology, or an   *)
(* experiment made from it, becomes a document of the Builder, what makes  *)
(* a document valid, and the topology that a publish makes of it, beside   *)
(* the merge of included topologies that phenix itself does                *)
(* (types/topology.go).                                                    *)
(*                                                                         *)
(* A topology is a sequence of nodes and of names of included topologies.  *)
(* A node has a hostname and interfaces, each with a name, a VLAN and an   *)
(* address. Of a document there are its devices, networks, switches and    *)
(* connections; presentation, scenarios and templates are left out.        *)
(***************************************************************************)
EXTENDS Integers, Sequences, FiniteSets

LOCAL INSTANCE SequencesExt

CONSTANTS
    TopologyNames, Root,  \* names of stored topologies, and the one imported
    FirstTopologies,      \* what the store may hold at first
    FoldKey,              \* FoldKey[name]: the name without its case
    Spaced,               \* names with whitespace in them
    RefusedNames,         \* hostnames phenix refuses to start
    MaxIncludes,          \* maxIncludeResolutions
    MaxEdits,             \* bound on edits of a document
    NotStored

ASSUME DiagramsAssumption ==
    /\ Root \in TopologyNames /\ MaxIncludes \in Nat /\ MaxEdits \in Nat
    /\ \A n \in DOMAIN FoldKey : FoldKey[FoldKey[n]] = FoldKey[n]

VARIABLES
    topologies,  \* the stored topologies
    expTopology, \* the topology of an experiment, and the one it was made from
    diagram,     \* the document, or NotStored
    diagramEdits

diagramVars == <<topologies, expTopology, diagram, diagramEdits>>

Fold(n) == FoldKey[n]
Blank(n) == n = ""

----------------------------------------------------------------------------
(* Included topologies.                                                    *)

ValidIncludeName(n) == ~Blank(n) /\ n \notin Spaced

\* includeNames
IncludeNames(t) == SelectSeq(t.includes, ValidIncludeName)

ReadableTopology(n) == n \in TopologyNames /\ topologies[n] # NotStored

RECURSIVE ResolveIncludes(_, _, _)
\* resolveIncludes: depth first, each topology once, none of the path.
ResolveIncludes(names, path, g) ==
    IF names = <<>> THEN g
    ELSE LET n == Head(names)
             count == Cardinality(g.reached)
             met == [g EXCEPT !.reached = @ \cup {n}]
         IN  CASE n \in path \cup g.reached -> ResolveIncludes(Tail(names), path, g)
               [] n \notin path \cup g.reached /\ count >= MaxIncludes ->
                    [g EXCEPT !.unreadable = Append(@, n)]
               [] n \notin path \cup g.reached /\ count < MaxIncludes /\ ~ReadableTopology(n) ->
                    ResolveIncludes(Tail(names), path, [met EXCEPT !.unreadable = Append(@, n)])
               [] OTHER ->
                    LET below == ResolveIncludes(IncludeNames(topologies[n]), path \cup {n},
                                                 [met EXCEPT !.resolved = Append(@, n)])
                    IN  ResolveIncludes(Tail(names), path, below)

NoIncludes == [reached |-> {}, unreadable |-> <<>>, resolved |-> <<>>]

\* resolveAll
ResolveAll(includes) == ResolveIncludes(includes, {Root}, NoIncludes)

RECURSIVE UnresolvedFrom(_, _, _)
\* The walk of unresolvedIncludes: w.seen, w.unresolved.
UnresolvedFrom(names, resolved, w) ==
    IF names = <<>> THEN w
    ELSE LET n == Head(names)
             seen == [w EXCEPT !.seen = @ \cup {n}]
             next == IF n \in w.seen THEN w
                     ELSE IF n \in resolved THEN UnresolvedFrom(IncludeNames(topologies[n]), resolved, seen)
                     ELSE [seen EXCEPT !.unresolved = Append(@, n)]
         IN  UnresolvedFrom(Tail(names), resolved, next)

UnresolvedIncludes(includes, resolved) ==
    UnresolvedFrom(includes, resolved, [seen |-> {Root}, unresolved |-> <<>>]).unresolved

----------------------------------------------------------------------------
(* Generation: FromConfig.                                                 *)

\* specHostnames
Hostnames(nodes) == {nodes[i].host : i \in DOMAIN nodes} \ {""}
Folded(names) == {Fold(n) : n \in names}

\* Fault: every named interface can be connected.
HandlesAll(node) == {i \in DOMAIN node.ifaces : ~Blank(node.ifaces[i].name)}

\* The interfaces that can be connected: named, the first of their name.
Handles(node) ==
    {i \in DOMAIN node.ifaces :
        /\ ~Blank(node.ifaces[i].name)
        /\ \A k \in 1 .. i - 1 : Fold(node.ifaces[k].name) # Fold(node.ifaces[i].name)}

Named(vlan) == ~Blank(vlan) /\ vlan \notin Spaced

HandleID(host, name, i) == <<Fold(host), Fold(name), i>>

\* addDevice, network and connect: the device, and a connection to the
\* switch of its VLAN for each interface that has one.
AddDevice(g, node, from) ==
    LET points == {[id |-> HandleID(node.host, node.ifaces[i].name, i), name |-> node.ifaces[i].name, at |-> i] :
                        i \in Handles(node)}
        wired == {p \in points : Named(node.ifaces[p.at].vlan)}
        VlanOf(p) == node.ifaces[p.at].vlan
    IN  [devices |-> Append(g.devices, [host |-> node.host, spec |-> node, from |-> from, points |-> points]),
         networks |-> g.networks \cup {VlanOf(p) : p \in wired},
         edges |-> g.edges \cup {[point |-> p.id, switch |-> VlanOf(p), network |-> VlanOf(p)] : p \in wired}]

\* importNodes: nodes without a hostname, and repeated hostnames, are skipped;
\* from[h] is the topology that hostname h is included from.
ImportNodes(g, nodes, from) ==
    LET Import(h, node) ==
            IF Blank(node.host) \/ Fold(node.host) \in Folded(Hostnames(h.devices)) THEN h
            ELSE AddDevice(h, node, from[node.host])
    IN  FoldLeft(Import, g, nodes)

NothingYet == [devices |-> <<>>, networks |-> {}, edges |-> {}]

\* groupIncludedDevices: own devices first, then those of each include.
GroupIncludedDevices(devices) ==
    LET ranks == FoldLeft(LAMBDA r, d : IF d.from \in ToSet(r) THEN r ELSE Append(r, d.from), <<"">>, devices)
    IN  FoldLeft(LAMBDA s, from : s \o SelectSeq(devices, LAMBDA d : d.from = from), <<>>, ranks)

\* finish
Finish(g, includes, unresolved) ==
    [devices |-> GroupIncludedDevices(g.devices),
     networks |-> g.networks,
     switches |-> {[id |-> e.switch, network |-> e.network] : e \in g.edges},
     edges |-> g.edges, includes |-> includes, unresolved |-> unresolved]

\* importIncludes: the devices of the included topologies after its own.
ImportTopology(t) ==
    LET includes == IncludeNames(t)
        found == ResolveAll(includes)
        own == ImportNodes(NothingYet, t.nodes, [h \in Hostnames(t.nodes) |-> ""])
        all == FoldLeft(LAMBDA g, n : ImportNodes(g, topologies[n].nodes, [h \in Hostnames(topologies[n].nodes) |-> n]), own, found.resolved)
    IN  Finish(all, includes, UnresolvedIncludes(includes, ToSet(found.resolved)))

\* experimentIncludes: the topology that a hostname of the experiment is
\* from, the first that has it and is not the root.
IncludeOwner(found, host) ==
    LET having == SelectSeq(found.resolved, LAMBDA n : Fold(host) \in Folded(Hostnames(topologies[n].nodes)))
    IN  IF having = <<>> THEN "" ELSE Head(having)

\* rootHostnames: nothing is known of a root that cannot be read.
RootHostnames == IF ReadableTopology(Root) THEN Folded(Hostnames(topologies[Root].nodes)) ELSE {}

\* markUnreadable: what neither the root nor an include has is from the
\* first include that cannot be read.
MarkUnreadable(found, host) ==
    IF found.unreadable # <<>> /\ ReadableTopology(Root) THEN Head(found.unreadable) ELSE ""

OwnerOf(found, host) ==
    IF Fold(host) \in RootHostnames THEN ""
    ELSE IF IncludeOwner(found, host) # "" THEN IncludeOwner(found, host)
    ELSE MarkUnreadable(found, host)

\* The topology of an experiment holds the included nodes: they are marked.
ImportExperiment(t) ==
    LET includes == IncludeNames(t)
        found == ResolveAll(includes)
        from == [h \in Hostnames(t.nodes) |-> IF includes = <<>> THEN "" ELSE OwnerOf(found, h)]
    IN  Finish(ImportNodes(NothingYet, t.nodes, from), includes, <<>>)

\* CombineIncludes
CombineIncludes(d) ==
    [d EXCEPT !.devices = [i \in DOMAIN @ |-> [@[i] EXCEPT !.from = ""]],
              !.includes = d.unresolved, !.unresolved = <<>>]

----------------------------------------------------------------------------
(* Validate.                                                               *)

ValidateNetworks(d) == \A n \in d.networks : Named(n)

\* validateDevice
ValidateDevice(d) ==
    /\ \A i \in DOMAIN d.devices : ~Blank(d.devices[i].host) /\ d.devices[i].host \notin Spaced
    /\ \A i, k \in DOMAIN d.devices : i # k => Fold(d.devices[i].host) # Fold(d.devices[k].host)

\* validateDeviceHandles
ValidateDeviceHandles(d) ==
    /\ \A i, k \in DOMAIN d.devices : i # k =>
            {p.id : p \in d.devices[i].points} \cap {p.id : p \in d.devices[k].points} = {}
    /\ \A i \in DOMAIN d.devices : \A p, q \in d.devices[i].points :
            p # q => p.id # q.id /\ Fold(p.name) # Fold(q.name)

ValidateIncludedFrom(d) ==
    \A i \in DOMAIN d.devices : d.devices[i].from # "" =>
        ValidIncludeName(d.devices[i].from) /\ d.includes # <<>>

ValidateSwitch(d) == \A s \in d.switches : s.network \in d.networks

\* validateEdges: a connection point of a device and a switch, each point
\* once.
ValidateEdges(d) ==
    /\ \A e \in d.edges :
        /\ \E i \in DOMAIN d.devices : \E p \in d.devices[i].points : p.id = e.point
        /\ \E s \in d.switches : s.id = e.switch
    /\ \A e, f \in d.edges : e.point = f.point => e = f

\* validateEdgeNetwork
ValidateEdgeNetwork(d) ==
    \A e \in d.edges : e.network \in d.networks
        /\ \A s \in d.switches : s.id = e.switch => s.network = e.network

ValidateIncludes(d) == \A n \in ToSet(d.includes) \cup ToSet(d.unresolved) : ValidIncludeName(n)

Validate(d) ==
    /\ ValidateNetworks(d) /\ ValidateDevice(d) /\ ValidateDeviceHandles(d) /\ ValidateIncludedFrom(d)
    /\ ValidateSwitch(d) /\ ValidateEdges(d) /\ ValidateEdgeNetwork(d) /\ ValidateIncludes(d)

----------------------------------------------------------------------------
(* Projection: ToTopology and the checks of a publish.                     *)

\* findInterfaceIndex: the first of exactly the name, else without case.
FindInterface(ifaces, name) ==
    LET exact == {i \in DOMAIN ifaces : ifaces[i].name = name}
        folded == {i \in DOMAIN ifaces : Fold(ifaces[i].name) = Fold(name)}
        First(s) == CHOOSE i \in s : \A k \in s : i <= k
    IN  IF exact # {} THEN First(exact) ELSE IF folded # {} THEN First(folded) ELSE 0

\* handleNetworks, connectInterfaces: a connected interface gets its network.
ConnectInterfaces(d, dev) ==
    [i \in DOMAIN dev.spec.ifaces |->
        LET on == {e \in d.edges : \E p \in dev.points :
                        p.id = e.point /\ FindInterface(dev.spec.ifaces, p.name) = i}
        IN  IF on = {} THEN dev.spec.ifaces[i]
            ELSE [dev.spec.ifaces[i] EXCEPT !.vlan = (CHOOSE e \in on : TRUE).network]]

\* deviceSpec: under the hostname of the device.
DeviceSpec(d, dev) == [dev.spec EXCEPT !.host = dev.host, !.ifaces = ConnectInterfaces(d, dev)]

ProjectedDevice(dev) == dev.from = ""

ToTopology(d) ==
    LET own == SelectSeq(d.devices, ProjectedDevice)
    IN  [nodes |-> [i \in DOMAIN own |-> DeviceSpec(d, own[i])], includes |-> d.includes]

\* startedNodes
Started(nodes) == {i \in DOMAIN nodes : ~nodes[i].external}

CheckInterfaceVLANs(t) ==
    \A i \in Started(t.nodes) : \A k \in DOMAIN t.nodes[i].ifaces : ~Blank(t.nodes[i].ifaces[k].vlan)

CheckHostnames(t) == \A i \in Started(t.nodes) : t.nodes[i].host \notin RefusedNames

\* eachAddressUse: the addresses in use, on the network a publish writes.
AddressUses(d) ==
    UNION {{[by |-> <<i, k>>, own |-> ProjectedDevice(d.devices[i]), iface |-> DeviceSpec(d, d.devices[i]).ifaces[k]] :
                k \in {x \in DOMAIN d.devices[i].spec.ifaces : ~Blank(d.devices[i].spec.ifaces[x].ip)}} :
           i \in DOMAIN d.devices}

Clash(u, v) == u.by # v.by /\ u.iface.ip = v.iface.ip /\ u.iface.vlan = v.iface.vlan

CheckInterfaceAddresses(d) ==
    \A u, v \in AddressUses(d) : Clash(u, v) => ~u.own /\ ~v.own

\* CheckIncludes, includeClashRefusal: no hostname of the topology is one of
\* an included topology.
CheckIncludes(t) ==
    \A n \in ToSet(ResolveAll(IncludeNames(t)).resolved) :
        Folded(Hostnames(topologies[n].nodes)) \cap Folded(Hostnames(t.nodes)) = {}

\* projectTopology
Publishable(d) ==
    Validate(d) /\ CheckInterfaceVLANs(ToTopology(d)) /\ CheckInterfaceAddresses(d)
    /\ CheckHostnames(ToTopology(d))

----------------------------------------------------------------------------
(* phenix: DecodeTopologyFromConfig.                                       *)

RECURSIVE DecodeTopology(_, _, _)
\* decodeTopologyRecursive: the nodes, each with the topology it is from, or
\* NotStored for an error: a cycle, a name that is not stored, or a hostname
\* of an included topology that is there already.
DecodeTopology(t, name, visited) ==
    IF name \in visited \/ t = NotStored THEN NotStored
    ELSE LET Merge(nodes, include) ==
                LET child == DecodeTopology(IF ReadableTopology(include) THEN topologies[include] ELSE NotStored,
                                            include, visited \cup {name})
                    Hosts(s) == {s[i].node.host : i \in DOMAIN s}
                IN  IF nodes = NotStored \/ child = NotStored THEN NotStored
                    ELSE IF \E i \in DOMAIN child :
                                child[i].node.host \in Hosts(nodes) \cup Hosts(SubSeq(child, 1, i - 1))
                    THEN NotStored
                    ELSE nodes \o child
             own == [i \in DOMAIN t.nodes |-> [node |-> t.nodes[i], of |-> name]]
         IN  FoldLeft(Merge, own, t.includes)

Merged == DecodeTopology(topologies[Root], Root, {})

----------------------------------------------------------------------------
(* Users: an experiment is created, a document imported, edited, saved and *)
(* published; an included topology is deleted.                             *)

DiagramsInit ==
    /\ topologies \in FirstTopologies
    /\ expTopology = NotStored /\ diagram = NotStored /\ diagramEdits = 0

\* The topology of a new experiment is the merged one.
CreateFromTopology ==
    /\ expTopology = NotStored /\ Merged # NotStored
    /\ expTopology' = [nodes |-> [i \in DOMAIN Merged |-> Merged[i].node], includes |-> topologies[Root].includes,
                    from |-> topologies[Root]]
    /\ UNCHANGED <<topologies, diagram, diagramEdits>>

RemoveTopology(n) ==
    /\ diagram = NotStored /\ ReadableTopology(n)
    /\ topologies' = [topologies EXCEPT ![n] = NotStored]
    /\ UNCHANGED <<expTopology, diagram, diagramEdits>>

\* FromConfig: of a topology, combined or not, or of an experiment, which
\* is not combined; what is not valid is refused.
FromConfig(kind, combine) ==
    LET d == IF kind = "topology" THEN ImportTopology(topologies[Root]) ELSE ImportExperiment(expTopology)
        made == IF combine THEN CombineIncludes(d) ELSE d
    IN  /\ diagram = NotStored
        /\ IF kind = "topology" THEN ReadableTopology(Root) ELSE expTopology # NotStored /\ ~combine
        /\ Validate(made)
        /\ diagram' = made
        /\ UNCHANGED <<topologies, expTopology, diagramEdits>>

\* What the editor may send of a document: a device renamed or removed, with
\* its connections or not, an interface connected, disconnected, or moved to
\* another switch while the network stays.
EditedDiagram(d) ==
    UNION {
        {[d EXCEPT !.devices[i].host = h] : i \in DOMAIN d.devices, h \in DOMAIN FoldKey},
        {[d EXCEPT !.devices = RemoveAt(@, i)] : i \in DOMAIN d.devices},
        {[d EXCEPT !.devices = RemoveAt(@, i),
                   !.edges = {e \in @ : \A p \in d.devices[i].points : p.id # e.point}] : i \in DOMAIN d.devices},
        {[d EXCEPT !.edges = @ \cup {[point |-> p.id, switch |-> s.id, network |-> s.network]}] :
            p \in UNION {d.devices[i].points : i \in DOMAIN d.devices}, s \in d.switches},
        {[d EXCEPT !.edges = @ \ {e}] : e \in d.edges},
        {[d EXCEPT !.edges = (@ \ {e}) \cup {[e EXCEPT !.switch = s.id]}] : e \in d.edges, s \in d.switches},
        {[d EXCEPT !.includes = <<>>]}}

\* A draft is saved when the document is valid.
SaveDocument ==
    /\ diagram # NotStored /\ diagramEdits < MaxEdits
    /\ \E d \in EditedDiagram(diagram) : Validate(d) /\ diagram' = d
    /\ diagramEdits' = diagramEdits + 1
    /\ UNCHANGED <<topologies, expTopology>>

\* PublishTopology
PublishDiagram ==
    /\ diagram # NotStored /\ Publishable(diagram) /\ CheckIncludes(ToTopology(diagram))
    /\ topologies' = [topologies EXCEPT ![Root] = ToTopology(diagram)]
    /\ diagram' = NotStored
    /\ UNCHANGED <<expTopology, diagramEdits>>

DiagramsNext ==
    \/ CreateFromTopology \/ SaveDocument \/ PublishDiagram
    \/ \E n \in TopologyNames : RemoveTopology(n)
    \/ \E kind \in {"topology", "experiment"}, combine \in BOOLEAN : FromConfig(kind, combine)

DiagramsSpec == DiagramsInit /\ [][DiagramsNext]_diagramVars

----------------------------------------------------------------------------
DiagramsTypeOK ==
    /\ \A n \in TopologyNames : ReadableTopology(n) => Hostnames(topologies[n].nodes) \subseteq DOMAIN FoldKey
    /\ diagram # NotStored => \A e \in diagram.edges : e.network \in DOMAIN FoldKey
    /\ diagramEdits \in 0 .. MaxEdits

\* The nodes with a hostname, the first of each.
FirstNamed(nodes) ==
    LET kept == {i \in DOMAIN nodes : ~Blank(nodes[i].host)
                    /\ \A k \in 1 .. i - 1 : Fold(nodes[k].host) # Fold(nodes[i].host)}
    IN  FoldLeft(LAMBDA s, i : IF i \in kept THEN Append(s, nodes[i]) ELSE s, <<>>, [i \in DOMAIN nodes |-> i])

\* Whatever is stored can be opened, and nothing of it is lost or changed on
\* the way to a document and back: a topology that is imported and published
\* as it is holds the same nodes, with the same VLANs, and the same includes,
\* and so does one that is published from any document the editor saved,
\* imported and published again.
RoundTrips ==
    /\ ReadableTopology(Root) =>
        LET d == ImportTopology(topologies[Root])
        IN  /\ Validate(d) /\ Validate(CombineIncludes(d))
            /\ ToTopology(d) = [nodes |-> FirstNamed(topologies[Root].nodes),
                                includes |-> IncludeNames(topologies[Root])]
    /\ expTopology # NotStored => Validate(ImportExperiment(expTopology))
    /\ diagram # NotStored => ToTopology(ImportTopology(ToTopology(diagram))) = ToTopology(diagram)

RECURSIVE Reach(_)
\* The names included by those, or by what they include, of what is stored.
Reach(names) ==
    LET more == names \cup UNION {ToSet(IncludeNames(topologies[n])) : n \in {x \in names : ReadableTopology(x)}}
    IN  IF more = names THEN names ELSE Reach(more)

\* The document shows what phenix merges: its devices are the nodes of the
\* experiment that the topology makes, in that order, each marked with the
\* topology that defines it, when phenix accepts it at all. Every included
\* topology is either shown or listed as unresolved, however the resolution
\* ended. Of an experiment, only the nodes of the topology itself are taken
\* for its own, although some included topology may be gone by now, so a
\* publish never copies an included node into it. What a publish accepts,
\* phenix merges, if it merges the included topologies at all.
ShowsMerge ==
    /\ ReadableTopology(Root) =>
        LET t == topologies[Root]
            found == ResolveAll(IncludeNames(t))
            d == ImportTopology(t)
            hosts == [i \in DOMAIN Merged |-> Merged[i].node.host]
        IN  /\ (Merged # NotStored /\ found.unreadable = <<>> /\ "" \notin ToSet(hosts)
                /\ \A i, k \in DOMAIN hosts : i # k => Fold(hosts[i]) # Fold(hosts[k])) =>
                    [i \in DOMAIN d.devices |-> <<d.devices[i].spec, d.devices[i].from>>] =
                    [i \in DOMAIN Merged |-> <<Merged[i].node, IF Merged[i].of = Root THEN "" ELSE Merged[i].of>>]
            /\ ToSet(found.resolved) \cap ToSet(d.unresolved) = {}
            /\ found.unreadable = <<>> => ToSet(found.resolved) = Reach(ToSet(IncludeNames(t))) \ {Root}
            /\ \A n \in {Root} \cup ToSet(found.resolved) :
                    ToSet(IncludeNames(topologies[n])) \subseteq {Root} \cup ToSet(found.resolved \o d.unresolved)
    /\ (expTopology # NotStored /\ expTopology.from = topologies[Root]) =>
            ToTopology(ImportExperiment(expTopology)).nodes = FirstNamed(topologies[Root].nodes)
    /\ diagram # NotStored =>
        LET t == ToTopology(diagram)
            Decoded(x) == DecodeTopology(x, Root, {})
        IN  (Publishable(diagram) /\ CheckIncludes(t) /\ ResolveAll(t.includes).unreadable = <<>>
             /\ Decoded([t EXCEPT !.nodes = <<>>]) # NotStored) => Decoded(t) # NotStored

\* Nothing is lost or misattributed between topologies and diagrams: both.
DiagramsFaithful == RoundTrips /\ ShowsMerge
=============================================================================
