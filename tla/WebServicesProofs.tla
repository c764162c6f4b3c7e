-------------------------- MODULE WebServicesProofs --------------------------
(***************************************************************************)
(* Proofs about the services of the web server: port forwards, the         *)
(* tunneler that follows them on users' machines, and users; for any keys, *)
(* ports and requests and every bound.                                     *)
(***************************************************************************)
EXTENDS Forwards, Tunneler, Users, FiniteSetTheorems, WellFoundedInduction, TLAPS

----------------------------------------------------------------------------
(* Forwards. The two parts of ForwardsConsistent need what the map says    *)
(* between two reaps. A delete closes the tunnels of other users' forwards *)
(* too and leaves those in the map; until the next reap such a forward     *)
(* names a port at which there may be anything. It does no harm because    *)
(* there is then no tunnel to its destination at all, so that the reap     *)
(* with which every handler begins drops it before the map is used.        *)


ForwardsTyped ==
    /\ forwards \in [Keys -> ClusterPorts \cup {NoPort, VncPort}]
    /\ tunnels \in [ClusterPorts -> (Destinations \ {VncDest}) \cup {NoPort}]
    /\ closedInPart \in BOOLEAN

\* Forwards to VNC have no port, and the others have one.
VncApart == \A k \in Keys : forwards[k] = VncPort => Dest(k) = VncDest

\* A tunnel is at the port of its forward, or the forward's destination has
\* no tunnel and the forward will be reaped.
PortsMatch ==
    ~closedInPart =>
        \A k \in Keys : forwards[k] \in ClusterPorts =>
            tunnels[forwards[k]] = Dest(k) \/ ~ForwardExists(k)

\* An experiment that starts has no tunnels.
StoppedBare == running = "stopped" => \A p \in ClusterPorts : tunnels[p] = NoPort

ForwardsInv == ForwardsTyped /\ VncApart /\ PortsMatch /\ StoppedBare /\ TunnelsOwned /\ ReachesDestination

----------------------------------------------------------------------------
\* The reap with which a handler begins leaves every forward at its tunnel.
LEMMA ReapSettles ==
    ASSUME ForwardsTyped, VncApart, PortsMatch
    PROVE  /\ Kept \in [Keys -> ClusterPorts \cup {NoPort, VncPort}]
           /\ \A k \in Keys :
                /\ Kept[k] # NoPort => Kept[k] = forwards[k] /\ ForwardExists(k)
                /\ Kept[k] = VncPort => Dest(k) = VncDest
                /\ ~closedInPart /\ Kept[k] \in ClusterPorts => tunnels[Kept[k]] = Dest(k)
<1>1. Kept \in [Keys -> ClusterPorts \cup {NoPort, VncPort}]
    BY DEF Kept, ForwardsTyped
<1>2. ASSUME NEW k \in Keys, Kept[k] # NoPort
      PROVE  Kept[k] = forwards[k] /\ ForwardExists(k)
    BY <1>2 DEF Kept, Reaped
<1>3. NoPort \notin ClusterPorts /\ NoPort # VncPort
    BY ForwardsAssumption
<1>. QED BY <1>1, <1>2, <1>3 DEF VncApart, PortsMatch

\* It closes no tunnel, and drops no forward to whose destination there is one.
LEMMA ReapKeepsOwners ==
    ASSUME ForwardsTyped, TunnelsOwned, running = "running", NEW p \in ClusterPorts, tunnels[p] # NoPort
    PROVE  \E k \in Keys : Dest(k) = tunnels[p] /\ Kept[k] # NoPort /\ Kept[k] = forwards[k]
<1>1. PICK k \in Keys : Dest(k) = tunnels[p] /\ forwards[k] # NoPort
    BY DEF TunnelsOwned
<1>2. p \in TunnelsTo(Dest(k))
    BY <1>1 DEF TunnelsTo
<1>3. k \notin Reaped
    BY <1>2 DEF Reaped, ForwardExists
<1>4. Kept[k] = forwards[k]
    BY <1>3 DEF Kept
<1>. QED BY <1>1, <1>4

\* A step that leaves the tunnels as they are, and the forwards as they are
\* or as the reap leaves them.
LEMMA SameTunnels ==
    ASSUME ForwardsInv, tunnels' = tunnels, closedInPart' = closedInPart, forwards' = forwards \/ forwards' = Kept,
           running' = running, ReachesDestination'
    PROVE  ForwardsInv'
<1>1. /\ ForwardsTyped /\ VncApart /\ PortsMatch /\ StoppedBare /\ TunnelsOwned
      /\ \A k \in Keys : ForwardExists(k)' = ForwardExists(k)
    BY DEF ForwardsInv, ForwardExists, TunnelsTo
<1>2. StoppedBare'
    BY <1>1 DEF StoppedBare
<1>3. CASE forwards' = forwards
    BY <1>1, <1>2, <1>3 DEF ForwardsInv, ForwardsTyped, VncApart, PortsMatch, TunnelsOwned
<1>4. CASE forwards' = Kept
    <2>1. ForwardsTyped' /\ VncApart' /\ PortsMatch'
        BY <1>1, <1>4, ReapSettles DEF ForwardsTyped, VncApart, PortsMatch
    <2>2. TunnelsOwned'
        BY <1>1, <1>4, ReapKeepsOwners DEF TunnelsOwned
    <2>. QED BY <1>2, <2>1, <2>2 DEF ForwardsInv
<1>. QED BY <1>3, <1>4

LEMMA CreateStep ==
    ASSUME ForwardsInv, NEW k \in Keys, CreatePortForward(k)
    PROVE  ForwardsInv'
<1>1. ForwardsTyped /\ VncApart /\ PortsMatch /\ StoppedBare /\ TunnelsOwned /\ ReachesDestination
    BY DEF ForwardsInv
<1>2. UNCHANGED <<running, closedInPart, reached>>
    BY DEF CreatePortForward
<1>3. ReachesDestination'
    BY <1>1, <1>2 DEF ReachesDestination
<1>4. /\ Kept \in [Keys -> ClusterPorts \cup {NoPort, VncPort}]
      /\ \A j \in Keys :
            /\ Kept[j] # NoPort => Kept[j] = forwards[j] /\ ForwardExists(j)
            /\ Kept[j] = VncPort => Dest(j) = VncDest
            /\ ~closedInPart /\ Kept[j] \in ClusterPorts => tunnels[Kept[j]] = Dest(j)
    BY <1>1, ReapSettles
<1>5. Dest(k) \in Destinations
    BY DEF Keys, Dest
<1>6. CASE forwards' = Kept /\ tunnels' = tunnels
    BY <1>2, <1>3, <1>6, SameTunnels
<1>7. CASE Kept[k] = NoPort /\ Dest(k) = VncDest /\ forwards' = [Kept EXCEPT ![k] = VncPort] /\ tunnels' = tunnels
    <2>1. forwards'[k] = VncPort /\ \A j \in Keys \ {k} : forwards'[j] = Kept[j]
        BY <1>4, <1>7
    <2>2. ForwardsTyped'
        BY <1>1, <1>2, <1>4, <1>7 DEF ForwardsTyped
    <2>3. VncApart'
        BY <1>4, <1>7, <2>1 DEF VncApart
    <2>4. PortsMatch'
        BY <1>2, <1>4, <1>7, <2>1, ForwardsAssumption DEF PortsMatch
    <2>5. TunnelsOwned'
        <3> SUFFICES ASSUME running = "running", NEW p \in ClusterPorts, tunnels[p] # NoPort
                     PROVE  \E j \in Keys : Dest(j) = tunnels[p] /\ forwards'[j] # NoPort
            BY <1>2, <1>7 DEF TunnelsOwned
        <3>1. PICK j \in Keys : Dest(j) = tunnels[p] /\ Kept[j] # NoPort
            BY <1>1, ReapKeepsOwners
        <3>2. forwards'[j] # NoPort
            BY <2>1, <3>1, ForwardsAssumption
        <3>. QED BY <3>1, <3>2
    <2>6. StoppedBare'
        BY <1>1, <1>2, <1>7 DEF StoppedBare
    <2>. QED BY <1>3, <2>2, <2>3, <2>4, <2>5, <2>6 DEF ForwardsInv
<1>8. ASSUME Kept[k] = NoPort, Dest(k) # VncDest, running # "stopped", NEW p \in TunnelsTo(NoPort),
             tunnels' = [tunnels EXCEPT ![p] = Dest(k)], forwards' = [Kept EXCEPT ![k] = p]
      PROVE  ForwardsInv'
    <2>1. p \in ClusterPorts /\ tunnels[p] = NoPort
        BY DEF TunnelsTo
    <2>2. forwards'[k] = p /\ \A j \in Keys \ {k} : forwards'[j] = Kept[j]
        BY <1>4, <1>8
    <2>3. tunnels'[p] = Dest(k) /\ \A q \in ClusterPorts \ {p} : tunnels'[q] = tunnels[q]
        BY <1>1, <1>8, <2>1 DEF ForwardsTyped
    <2>4. ForwardsTyped'
        BY <1>1, <1>2, <1>4, <1>5, <1>8, <2>1 DEF ForwardsTyped
    <2>5. VncApart'
        BY <1>4, <2>1, <2>2, ForwardsAssumption DEF VncApart
    <2>6. PortsMatch'
        <3> SUFFICES ASSUME ~closedInPart, NEW j \in Keys, forwards'[j] \in ClusterPorts
                     PROVE  tunnels'[forwards'[j]] = Dest(j)
            BY <1>2 DEF PortsMatch
        <3>1. CASE j = k
            BY <2>2, <2>3, <3>1
        <3>2. CASE j # k
            <4>1. forwards'[j] = Kept[j] /\ tunnels[Kept[j]] = Dest(j)
                BY <1>4, <2>2, <3>2
            <4>2. Dest(j) # NoPort
                BY ForwardsAssumption DEF Keys, Dest
            <4>. QED BY <2>1, <2>3, <4>1, <4>2
        <3>. QED BY <3>1, <3>2
    <2>7. TunnelsOwned'
        <3> SUFFICES ASSUME running = "running", NEW q \in ClusterPorts, tunnels'[q] # NoPort
                     PROVE  \E j \in Keys : Dest(j) = tunnels'[q] /\ forwards'[j] # NoPort
            BY <1>2 DEF TunnelsOwned
        <3>1. CASE q = p
            BY <2>1, <2>2, <2>3, <3>1, ForwardsAssumption
        <3>2. CASE q # p
            <4>1. PICK j \in Keys : Dest(j) = tunnels[q] /\ Kept[j] # NoPort
                BY <1>1, <2>3, <3>2, ReapKeepsOwners
            <4>2. j # k /\ forwards'[j] # NoPort
                BY <1>8, <2>2, <4>1
            <4>. QED BY <2>3, <3>2, <4>1, <4>2
        <3>. QED BY <3>1, <3>2
    <2>8. StoppedBare'
        BY <1>2, <1>8 DEF StoppedBare
    <2>. QED BY <1>3, <2>4, <2>5, <2>6, <2>7, <2>8 DEF ForwardsInv
<1>. QED BY <1>6, <1>7, <1>8 DEF CreatePortForward, ReapsAnd

LEMMA DeleteStep ==
    ASSUME ForwardsInv, NEW k \in Keys, DeletePortForward(k)
    PROVE  ForwardsInv'
<1>1. ForwardsTyped /\ VncApart /\ PortsMatch /\ StoppedBare /\ TunnelsOwned /\ ReachesDestination
    BY DEF ForwardsInv
<1>2. UNCHANGED <<running, reached>> /\ (closedInPart => closedInPart')
    <2>1. UNCHANGED <<running, reached>>
        BY DEF DeletePortForward
    <2>2. \E b \in BOOLEAN : closedInPart' = (closedInPart \/ b)
        BY <1>1 DEF DeletePortForward, ForwardsTyped
    <2>3. ASSUME NEW b \in BOOLEAN, closedInPart' = (closedInPart \/ b) PROVE closedInPart => closedInPart'
        BY <2>3, <1>1 DEF ForwardsTyped
    <2>. QED BY <2>1, <2>2, <2>3
<1>3. ReachesDestination'
    BY <1>1, <1>2 DEF ReachesDestination
<1>4. /\ Kept \in [Keys -> ClusterPorts \cup {NoPort, VncPort}]
      /\ \A j \in Keys :
            /\ Kept[j] # NoPort => Kept[j] = forwards[j] /\ ForwardExists(j)
            /\ Kept[j] = VncPort => Dest(j) = VncDest
            /\ ~closedInPart /\ Kept[j] \in ClusterPorts => tunnels[Kept[j]] = Dest(j)
    BY <1>1, ReapSettles
<1>5. CASE forwards' = Kept /\ tunnels' = tunnels /\ closedInPart' = closedInPart
    BY <1>2, <1>3, <1>5, SameTunnels
<1>6. CASE /\ tunnels' = [p \in ClusterPorts |-> IF tunnels[p] = Dest(k) THEN NoPort ELSE tunnels[p]]
           /\ forwards' = [Kept EXCEPT ![k] = NoPort] /\ closedInPart' = closedInPart
    <2>1. forwards'[k] = NoPort /\ \A j \in Keys \ {k} : forwards'[j] = Kept[j]
        BY <1>4, <1>6
    <2>2. ForwardsTyped'
        BY <1>1, <1>4, <1>6 DEF ForwardsTyped
    <2>3. VncApart'
        BY <1>4, <2>1, ForwardsAssumption DEF VncApart
    <2>4. PortsMatch'
        <3> SUFFICES ASSUME ~closedInPart, NEW j \in Keys, forwards'[j] \in ClusterPorts
                     PROVE  tunnels'[forwards'[j]] = Dest(j) \/ ~ForwardExists(j)'
            BY <1>6 DEF PortsMatch
        <3>1. j # k /\ forwards'[j] = Kept[j] /\ tunnels[Kept[j]] = Dest(j)
            BY <1>4, <2>1, ForwardsAssumption
        <3>2. CASE Dest(j) = Dest(k)
            <4>1. Dest(j) # VncDest /\ Dest(j) # NoPort
                BY <1>1, <3>1, ForwardsAssumption DEF ForwardsTyped, Keys, Dest
            <4>2. \A p \in ClusterPorts : tunnels'[p] # Dest(j)
                BY <1>6, <3>2, <4>1
            <4>. QED BY <4>1, <4>2 DEF ForwardExists, TunnelsTo
        <3>3. CASE Dest(j) # Dest(k)
            BY <1>6, <3>1, <3>3
        <3>. QED BY <3>2, <3>3
    <2>5. TunnelsOwned'
        <3> SUFFICES ASSUME running = "running", NEW p \in ClusterPorts, tunnels'[p] # NoPort
                     PROVE  \E j \in Keys : Dest(j) = tunnels'[p] /\ forwards'[j] # NoPort
            BY <1>2 DEF TunnelsOwned
        <3>1. tunnels'[p] = tunnels[p] /\ tunnels[p] # Dest(k)
            BY <1>6
        <3>2. PICK j \in Keys : Dest(j) = tunnels[p] /\ Kept[j] # NoPort
            BY <1>1, <3>1, ReapKeepsOwners
        <3>. QED BY <2>1, <3>1, <3>2
    <2>6. StoppedBare'
        BY <1>1, <1>2, <1>6 DEF StoppedBare
    <2>. QED BY <1>3, <2>2, <2>3, <2>4, <2>5, <2>6 DEF ForwardsInv
<1>7. ASSUME NEW closed \in SUBSET TunnelsTo(Dest(k)), forwards' = Kept,
             tunnels' = [p \in ClusterPorts |-> IF p \in closed THEN NoPort ELSE tunnels[p]],
             closedInPart' = (closedInPart \/ closed # {})
      PROVE  ForwardsInv'
    <2>1. ForwardsTyped'
        BY <1>1, <1>4, <1>7 DEF ForwardsTyped
    <2>2. VncApart'
        BY <1>4, <1>7 DEF VncApart
    <2>3. PortsMatch'
        BY <1>4, <1>7 DEF PortsMatch
    <2>4. TunnelsOwned'
        <3> SUFFICES ASSUME running = "running", NEW p \in ClusterPorts, tunnels'[p] # NoPort
                     PROVE  \E j \in Keys : Dest(j) = tunnels'[p] /\ forwards'[j] # NoPort
            BY <1>2 DEF TunnelsOwned
        <3>1. tunnels'[p] = tunnels[p]
            BY <1>7
        <3>. QED BY <1>1, <1>7, <3>1, ReapKeepsOwners
    <2>5. StoppedBare'
        BY <1>1, <1>2, <1>7 DEF StoppedBare
    <2>. QED BY <1>3, <2>1, <2>2, <2>3, <2>4, <2>5 DEF ForwardsInv
<1>. QED BY <1>5, <1>6, <1>7 DEF DeletePortForward, ReapsAnd

\* A web socket is joined to what is at the port of a forward just reaped.
LEMMA WebSocketStep ==
    ASSUME ForwardsInv, NEW d \in Destinations, NEW u \in Owners, GetPortForwardWebSocket(d, u)
    PROVE  ForwardsInv'
<1>1. ForwardsTyped /\ VncApart /\ PortsMatch
    BY DEF ForwardsInv
<1>2. forwards' = Kept /\ UNCHANGED <<running, tunnels, closedInPart>>
    BY DEF GetPortForwardWebSocket, ReapsAnd
<1>3. PICK k \in Keys : Kept[k] # NoPort /\ <<d, Dest(k)>> \in Extends /\ reached' = <<d, EndOf(k)>>
    <2>1. <<d, u>> \in Keys /\ Dest(<<d, u>>) = d /\ <<d, d>> \in Extends
        BY ForwardsAssumption DEF Keys, Dest
    <2>. QED BY <2>1 DEF GetPortForwardWebSocket
<1>4. ~closedInPart => EndOf(k) = Dest(k)
    <2>1. Kept[k] = forwards[k] /\ Kept[k] \in ClusterPorts \cup {VncPort}
        BY <1>1, <1>3, ReapSettles
    <2>. QED BY <1>1, <2>1, ReapSettles, ForwardsAssumption DEF EndOf
<1>5. ReachesDestination'
    BY <1>2, <1>3, <1>4 DEF ReachesDestination
<1>. QED BY <1>2, <1>5, SameTunnels

\* Tunnels and forwards agree, whatever users create and delete together and
\* however often the experiment is stopped and started again
\* (createPortForward, DeletePortForward, GetPortForwardWebSocket, StopHook).
THEOREM ForwardsStayConsistent == ForwardsSpec => []ForwardsConsistent
<1>1. ForwardsInit => ForwardsInv
    <2> SUFFICES ASSUME ForwardsInit PROVE ForwardsInv
        OBVIOUS
    <2>1. ForwardsTyped /\ \A k \in Keys : forwards[k] = NoPort
        BY ForwardsAssumption DEF ForwardsInit, ForwardsTyped
    <2>2. VncApart /\ PortsMatch
        BY <2>1, ForwardsAssumption DEF VncApart, PortsMatch
    <2>3. TunnelsOwned /\ StoppedBare /\ ReachesDestination
        BY ForwardsAssumption DEF ForwardsInit, TunnelsOwned, StoppedBare, ReachesDestination
    <2>. QED BY <2>1, <2>2, <2>3 DEF ForwardsInv
<1>2. ForwardsInv /\ [ForwardsNext]_forwardVars => ForwardsInv'
    <2> SUFFICES ASSUME ForwardsInv, [ForwardsNext]_forwardVars PROVE ForwardsInv'
        OBVIOUS
    <2>1. /\ ForwardsTyped /\ VncApart /\ PortsMatch /\ StoppedBare /\ TunnelsOwned /\ ReachesDestination
          /\ NoPort \notin ClusterPorts /\ NoPort # VncPort /\ NoPort \notin Destinations
        BY ForwardsAssumption DEF ForwardsInv
    <2>2. ASSUME UNCHANGED <<running, forwards, tunnels, closedInPart, reached>> PROVE ForwardsInv'
        BY <2>1, <2>2, SameTunnels DEF ReachesDestination
    <2>3. ASSUME NEW k \in Keys, NEW o, FindsVM(o, k) PROVE ForwardsInv'
        BY <2>2, <2>3 DEF FindsVM
    <2>4. ASSUME ReapForwards PROVE ForwardsInv'
        BY <2>1, <2>4, SameTunnels DEF ReapForwards, ReapsAnd, ReachesDestination
    <2>5. ASSUME StopHook PROVE ForwardsInv'
        <3>1. /\ running' = "hooked" /\ UNCHANGED <<tunnels, closedInPart, reached>>
              /\ forwards' = [k \in Keys |-> NoPort]
            BY <2>5 DEF StopHook
        <3>2. ForwardsTyped' /\ VncApart' /\ PortsMatch' /\ StoppedBare'
            BY <2>1, <3>1 DEF ForwardsTyped, VncApart, PortsMatch, StoppedBare
        <3>. QED BY <2>1, <3>1, <3>2 DEF ForwardsInv, TunnelsOwned, ReachesDestination
    <2>6. ASSUME ClearNamespace PROVE ForwardsInv'
        <3>1. /\ running' = "stopped" /\ UNCHANGED <<forwards, closedInPart, reached>>
              /\ tunnels' = [p \in ClusterPorts |-> NoPort]
            BY <2>6 DEF ClearNamespace
        <3>2. ForwardsTyped' /\ VncApart' /\ StoppedBare' /\ TunnelsOwned' /\ ReachesDestination'
            BY <2>1, <3>1 DEF ForwardsTyped, VncApart, StoppedBare, TunnelsOwned, ReachesDestination
        <3>3. PortsMatch'
            <4>1. ASSUME NEW k \in Keys, forwards[k] \in ClusterPorts, tunnels[forwards[k]] = Dest(k) \/ ~ForwardExists(k)
                  PROVE  ~ForwardExists(k)'
                <5>1. Dest(k) # VncDest /\ Dest(k) # NoPort
                    BY <2>1, <4>1 DEF ForwardsTyped, Keys, Dest, ForwardExists
                <5>. QED BY <3>1, <5>1 DEF ForwardExists, TunnelsTo
            <4>. QED BY <2>1, <3>1, <4>1 DEF PortsMatch
        <3>. QED BY <3>2, <3>3 DEF ForwardsInv
    <2>7. ASSUME StartsAgain PROVE ForwardsInv'
        <3>1. UNCHANGED <<forwards, tunnels, closedInPart, reached>> /\ running = "stopped" /\ running' = "running"
            BY <2>7 DEF StartsAgain
        <3>2. \A p \in ClusterPorts : tunnels[p] = NoPort
            BY <2>1, <3>1 DEF StoppedBare
        <3>3. \A k \in Keys : ForwardExists(k)' = ForwardExists(k)
            BY <3>1 DEF ForwardExists, TunnelsTo
        <3>. QED BY <2>1, <3>1, <3>2, <3>3
                 DEF ForwardsInv, ForwardsTyped, VncApart, PortsMatch, StoppedBare, TunnelsOwned, ReachesDestination
    <2>8. CASE UNCHANGED forwardVars
        BY <2>2, <2>8 DEF forwardVars
    <2>. QED BY <2>3, <2>4, <2>5, <2>6, <2>7, <2>8, CreateStep, DeleteStep, WebSocketStep DEF ForwardsNext
<1>3. ForwardsInv => ForwardsConsistent
    BY DEF ForwardsInv, ForwardsConsistent
<1>. QED BY <1>1, <1>2, <1>3, PTL DEF ForwardsSpec

----------------------------------------------------------------------------
(* Forwards implement Feed. That module's Replay is a fold over a sequence *)
(* whose length is not bounded; After says in closed form what it gives,   *)
(* and ReplayIs proves that by well-founded induction on the numbers.      *)

----------------------------------------------------------------------------
(* Numbers, from their order.                                              *)

LessThan == {p \in Nat \X Nat : p[1] < p[2]}

LEMMA LeastNumber ==
    ASSUME NEW T, T \subseteq Nat, T # {}
    PROVE  \E x \in T : \A y \in T : x <= y
<1>1. IsWellFoundedOn(LessThan, Nat)
    BY NatLessThanWellFounded, Zenon DEF OpToRel, LessThan
<1>2. PICK x \in T : \A y \in T : ~(<<y, x>> \in LessThan)
    BY <1>1, WFMin, Zenon
<1>3. \A y \in T : ~(y < x)
    BY <1>2 DEF LessThan
<1>. QED BY <1>3

LEMMA GreatestNumber ==
    ASSUME NEW n \in Nat, NEW u, u \subseteq 1 .. n, u # {}
    PROVE  \E x \in u : \A y \in u : x >= y
<1>. DEFINE T == {t \in Nat : \E x \in u : t = n - x}
<1>0. \A x \in u : n - x \in T
    OBVIOUS
<1>1. T \subseteq Nat /\ T # {}
    BY <1>0
<1>. HIDE DEF T
<1>2. PICK t \in T : \A y \in T : t <= y
    BY <1>1, LeastNumber
<1>3. PICK x \in u : t = n - x
    BY <1>2 DEF T
<1>4. \A y \in u : n - x <= n - y
    BY <1>0, <1>2, <1>3
<1>. QED BY <1>4

----------------------------------------------------------------------------
(* Replaying announcements: the last one of a key counts.                  *)

Events == {"create", "delete"} \X Keys

\* What the keys are after the announcements with the numbers in u.
After(known, s, u) ==
    {k \in Keys : \/ k \in known /\ \A i \in u : s[i][2] # k
                  \/ \E i \in u : s[i][1] = "create" /\ s[i][2] = k /\ \A j \in u : j > i => s[j][2] # k}

IsLast(s, n, u, m) ==
    /\ n \in Nat /\ u \subseteq 1 .. n /\ m \in u
    /\ \A i \in u : m >= i
    /\ \A i \in 1 .. n : s[i] \in Events

LEMMA AfterLast ==
    ASSUME NEW known, NEW n, NEW s, NEW u, NEW m, IsLast(s, n, u, m)
    PROVE  After(known, s, u) = Followed!Apply(After(known, s, u \ {m}), s[m])
<1>1. PICK k, op : k = s[m][2] /\ op = s[m][1]
    OBVIOUS
<1>2. k \in Keys /\ op \in {"create", "delete"}
    BY <1>1 DEF IsLast, Events
<1>3. m \in u /\ \A i \in u : i \in Int /\ (i # m => m > i)
    BY DEF IsLast
<1>4. ASSUME NEW j \in Keys, j # k PROVE j \in After(known, s, u) <=> j \in After(known, s, u \ {m})
    BY <1>1, <1>3, <1>4 DEF After
<1>5. k \in After(known, s, u) <=> op = "create"
    BY <1>1, <1>2, <1>3 DEF After
<1>6. After(known, s, u) \subseteq Keys /\ After(known, s, u \ {m}) \subseteq Keys
    BY DEF After
<1>7. Followed!Apply(After(known, s, u \ {m}), s[m]) =
        IF op = "create" THEN After(known, s, u \ {m}) \cup {k} ELSE After(known, s, u \ {m}) \ {k}
    BY <1>1 DEF Followed!Apply
<1>. QED BY <1>2, <1>4, <1>5, <1>6, <1>7

LEMMA ReplayIs ==
    ASSUME NEW known, known \subseteq Keys, NEW s \in Seq(Events)
    PROVE  Followed!Replay(known, s) = After(known, s, DOMAIN s)
<1>. DEFINE Greatest(u) == CHOOSE x \in u : \A y \in u : x >= y
            Eq(it) == it = [u \in SUBSET DOMAIN s |-> IF u = {} THEN known
                              ELSE LET x == Greatest(u) IN Followed!Apply(it[u \ {x}], s[x])]
<1>1. Followed!Replay(known, s) = (CHOOSE it : Eq(it))[DOMAIN s]
    BY DEF Followed!Replay, Followed!FoldLeft, Followed!MapThenFoldSet, Followed!Max
<1>2. PICK n \in Nat : n = Len(s) /\ DOMAIN s = 1 .. n
    OBVIOUS
<1>3. \A i \in 1 .. n : s[i] \in Events
    BY <1>2
<1>4. \A u \in SUBSET (1 .. n) : u # {} =>
        Greatest(u) \in u /\ (\A i \in u : Greatest(u) >= i)
    BY GreatestNumber
<1>5. PICK g : g = [u \in SUBSET DOMAIN s |-> After(known, s, u)]
    OBVIOUS
<1>6. After(known, s, {}) = known
    BY DEF After
<1>7. ASSUME NEW u \in SUBSET (1 .. n), u # {}
      PROVE  g[u] = Followed!Apply(g[u \ {Greatest(u)}], s[Greatest(u)])
  <2>1. PICK m : m = Greatest(u)
      OBVIOUS
  <2>2. m \in u /\ \A i \in u : m >= i
      BY <1>4, <1>7, <2>1
  <2>3. After(known, s, u) = Followed!Apply(After(known, s, u \ {m}), s[m])
    <3>1. IsLast(s, n, u, m)
        BY <1>3, <2>2 DEF IsLast
    <3>. QED BY <3>1, AfterLast
  <2>4. g[u] = After(known, s, u) /\ g[u \ {m}] = After(known, s, u \ {m})
      BY <1>2, <1>5
  <2>. QED BY <2>1, <2>3, <2>4
<1>8. Eq(g)
  <2>. HIDE DEF Greatest
  <2>1. g = [u \in SUBSET (1 .. n) |-> g[u]] /\ g[{}] = known
      BY <1>2, <1>5, <1>6
  <2>2. g = [u \in SUBSET (1 .. n) |-> IF u = {} THEN known ELSE Followed!Apply(g[u \ {Greatest(u)}], s[Greatest(u)])]
      BY <1>7, <2>1
  <2>. QED BY <1>2, <2>2
<1>9. PICK it : it = CHOOSE i : Eq(i)
    OBVIOUS
<1>10. Eq(it)
  <2>. HIDE DEF Eq
  <2>. QED BY <1>8, <1>9, Zenon
<1>11. \A m \in 1 .. n : Greatest(1 .. m) = m /\ (1 .. m) \ {m} = 1 .. (m - 1) /\ 1 .. m # {} /\ 1 .. m \in SUBSET (1 .. n)
  <2>1. ASSUME NEW m \in 1 .. n PROVE Greatest(1 .. m) = m
    <3>1. Greatest(1 .. m) \in 1 .. m /\ \A i \in 1 .. m : Greatest(1 .. m) >= i
      <4>1. PICK w : w = 1 .. m
          OBVIOUS
      <4>2. w \in SUBSET (1 .. n) /\ w # {}
          BY <4>1
      <4>. QED BY <1>4, <4>1, <4>2
    <3>2. m \in 1 .. m
        OBVIOUS
    <3>3. PICK x : x = Greatest(1 .. m)
        OBVIOUS
    <3>. HIDE DEF Greatest
    <3>4. x \in 1 .. m /\ x >= m
        BY <3>1, <3>2, <3>3
    <3>5. x = m
        BY <3>4
    <3>. QED BY <3>3, <3>5
  <2>2. \A m \in 1 .. n : (1 .. m) \ {m} = 1 .. (m - 1) /\ 1 .. m # {} /\ 1 .. m \in SUBSET (1 .. n)
    <3>. SUFFICES ASSUME NEW m \in 1 .. n
                  PROVE  (1 .. m) \ {m} = 1 .. (m - 1) /\ 1 .. m # {} /\ 1 .. m \in SUBSET (1 .. n)
        OBVIOUS
    <3>1. m \in 1 .. m /\ m \in Int /\ m <= n
        OBVIOUS
    <3>2. 1 .. m # {} /\ 1 .. m \in SUBSET (1 .. n)
        BY <3>1
    <3>3. (1 .. m) \ {m} = 1 .. (m - 1)
        BY <3>1
    <3>. QED BY <3>2, <3>3
  <2>. HIDE DEF Greatest
  <2>. QED BY <2>1, <2>2
<1>. HIDE DEF Greatest
<1>12. \A m \in 1 .. n : it[1 .. m] = Followed!Apply(it[1 .. (m - 1)], s[m])
  <2>1. \A u \in SUBSET (1 .. n) : u # {} => it[u] = Followed!Apply(it[u \ {Greatest(u)}], s[Greatest(u)])
      BY <1>2, <1>10
  <2>. QED BY <1>11, <2>1
<1>13. it[{}] = known /\ g[{}] = known
    BY <1>5, <1>6, <1>10
<1>14. \A m \in 1 .. n : g[1 .. m] = Followed!Apply(g[1 .. (m - 1)], s[m])
    BY <1>7, <1>11
<1>15. \A m \in 0 .. n : it[1 .. m] = g[1 .. m]
  <2>. DEFINE Bad == {m \in 0 .. n : it[1 .. m] # g[1 .. m]}
  <2>. SUFFICES ASSUME Bad # {} PROVE FALSE
      OBVIOUS
  <2>1. Bad \subseteq Nat
      OBVIOUS
  <2>2. PICK m \in Bad : \A j \in Bad : m <= j
      BY <2>1, LeastNumber
  <2>3. m # 0
    <3>1. 1 .. 0 = {}
        OBVIOUS
    <3>. QED BY <1>13, <3>1
  <2>4. m \in 1 .. n /\ m - 1 \in 0 .. n /\ m - 1 \notin Bad
      BY <2>2, <2>3
  <2>. QED BY <1>12, <1>14, <2>4
<1>16. it[1 .. n] = g[1 .. n]
    BY <1>15
<1>. QED BY <1>1, <1>2, <1>5, <1>9, <1>16

LEMMA SetToSeqIs ==
    ASSUME NEW S, IsFiniteSet(S)
    PROVE  SetToSeq(S) \in Seq(S) /\ \A x \in S : \E i \in DOMAIN SetToSeq(S) : SetToSeq(S)[i] = x
<1>1. PICK n \in Nat : n = Cardinality(S) /\ ExistsBijection(1 .. n, S)
    BY FS_CardinalityType
<1>2. PICK f : f = SetToSeq(S)
    OBVIOUS
<1>3. f \in [1 .. n -> S] /\ IsInjective(f)
  <2>1. \E g \in [1 .. n -> S] : IsInjective(g)
      BY <1>1 DEF ExistsBijection, Bijection, Injection
  <2>2. f = CHOOSE g \in [1 .. n -> S] : IsInjective(g)
      BY <1>1, <1>2 DEF SetToSeq
  <2>. HIDE DEF IsInjective
  <2>. QED BY <2>1, <2>2
<1>4. f \in Surjection(1 .. n, S)
  <2>1. PICK D : D = 1 .. n
      OBVIOUS
  <2>2. f \in Injection(D, S)
      BY <1>3, <2>1 DEF Injection
  <2>3. Cardinality(D) = Cardinality(S)
      BY <1>1, <2>1, FS_Interval
  <2>4. f \in Surjection(D, S)
      BY <2>2, <2>3, FS_Injection
  <2>. QED BY <2>1, <2>4
<1>5. \A x \in S : \E i \in 1 .. n : f[i] = x
    BY <1>4 DEF Surjection
<1>6. f \in Seq(S) /\ DOMAIN f = 1 .. n
    BY <1>3
<1>. QED BY <1>2, <1>5, <1>6

\* Deletes of a finite set of keys, in whatever order, take those.
LEMMA DeletesAre ==
    ASSUME NEW ks, ks \subseteq Keys, IsFiniteSet(ks)
    PROVE  /\ Deletes(ks) \in Seq(Events)
           /\ \A i \in DOMAIN Deletes(ks) : Deletes(ks)[i][1] = "delete" /\ Deletes(ks)[i][2] \in ks
           /\ \A k \in ks : \E i \in DOMAIN Deletes(ks) : Deletes(ks)[i][2] = k
<1>1. PICK S : S = {"delete"} \X ks
    OBVIOUS
<1>2. IsFiniteSet(S)
    BY <1>1, FS_Singleton, FS_Product
<1>3. PICK f : f = SetToSeq(S)
    OBVIOUS
<1>4. f \in Seq(S) /\ \A x \in S : \E i \in DOMAIN f : f[i] = x
    BY <1>2, <1>3, SetToSeqIs
<1>5. S \subseteq Events /\ \A x \in S : x[1] = "delete" /\ x[2] \in ks
    BY <1>1 DEF Events
<1>6. f \in Seq(Events) /\ \A i \in DOMAIN f : f[i] \in S
    BY <1>4, <1>5
<1>7. \A k \in ks : \E i \in DOMAIN f : f[i][2] = k
  <2>1. ASSUME NEW k \in ks PROVE \E i \in DOMAIN f : f[i][2] = k
    <3>1. <<"delete", k>> \in S
        BY <1>1
    <3>2. PICK i \in DOMAIN f : f[i] = <<"delete", k>>
        BY <1>4, <3>1
    <3>. QED BY <3>2
  <2>. QED BY <2>1
<1>. QED BY <1>1, <1>3, <1>5, <1>6, <1>7 DEF Deletes

\* What a handler announces: what it reaps, and then what it did.
LEMMA ReplayDeletes ==
    ASSUME NEW known, known \subseteq Keys, NEW ks, ks \subseteq Keys, IsFiniteSet(ks)
    PROVE  /\ Followed!Replay(known, Deletes(ks)) = known \ ks
           /\ \A e \in Events : Followed!Replay(known, Append(Deletes(ks), e)) = Followed!Apply(known \ ks, e)
<1>1. PICK s : s = Deletes(ks)
    OBVIOUS
<1>2. /\ s \in Seq(Events)
      /\ \A i \in DOMAIN s : s[i][1] = "delete" /\ s[i][2] \in ks
      /\ \A k \in ks : \E i \in DOMAIN s : s[i][2] = k
    BY <1>1, DeletesAre
<1>3. After(known, s, DOMAIN s) = known \ ks
    BY <1>2 DEF After
<1>4. Followed!Replay(known, s) = known \ ks
    BY <1>2, <1>3, ReplayIs
<1>5. ASSUME NEW e \in Events PROVE Followed!Replay(known, Append(s, e)) = Followed!Apply(known \ ks, e)
  <2>1. PICK r, n : r = Append(s, e) /\ n = Len(s) + 1
      OBVIOUS
  <2>2. r \in Seq(Events) /\ DOMAIN r = 1 .. n /\ n \in Nat /\ DOMAIN s = 1 .. (n - 1) /\ r[n] = e
      BY <1>2, <2>1
  <2>3. \A i \in 1 .. (n - 1) : r[i] = s[i]
      BY <1>2, <2>1
  <2>4. n \in 1 .. n /\ \A i \in 1 .. n : n >= i
      BY <1>2, <2>1
  <2>5. PICK u : u = 1 .. n
      OBVIOUS
  <2>6. After(known, r, u) = Followed!Apply(After(known, r, u \ {n}), r[n])
    <3>1. IsLast(r, n, u, n)
        BY <2>2, <2>4, <2>5 DEF IsLast
    <3>. QED BY <3>1, AfterLast
  <2>7. (1 .. n) \ {n} = 1 .. (n - 1)
      BY <2>2
  <2>8. After(known, r, 1 .. (n - 1)) = After(known, s, 1 .. (n - 1))
      BY <2>3 DEF After
  <2>9. After(known, r, 1 .. n) = Followed!Apply(known \ ks, e)
      BY <1>3, <2>2, <2>5, <2>6, <2>7, <2>8
  <2>10. Followed!Replay(known, r) = After(known, r, DOMAIN r)
      BY <2>2, ReplayIs
  <2>. QED BY <2>1, <2>2, <2>9, <2>10
<1>. QED BY <1>1, <1>4, <1>5

\* Announcements behind those there are.
LEMMA AnnouncedIs ==
    ASSUME NEW a \in Seq(Events), NEW s \in Seq(Events), NEW b, b = a \o s
    PROVE  b \in Seq(Events) /\ Followed!IsPrefix(a, b) /\ SubSeq(b, Len(a) + 1, Len(b)) = s
<1>1. b \in Seq(Events) /\ Len(b) = Len(a) + Len(s) /\ Len(a) \in Nat /\ Len(s) \in Nat
    OBVIOUS
<1>2. \A i \in 1 .. Len(a) : b[i] = a[i]
    OBVIOUS
<1>3. \A i \in 1 .. Len(s) : b[Len(a) + i] = s[i]
    OBVIOUS
<1>4. SubSeq(a, 1, Len(a)) = SubSeq(b, 1, Len(a))
    BY <1>1, <1>2
<1>5. SubSeq(b, Len(a) + 1, Len(b)) = s
    BY <1>1, <1>3
<1>. QED BY <1>1, <1>4, <1>5 DEF Followed!IsPrefix

\* b is a and, behind it, deletes of ks and maybe events.
DeletesBehind(a, known, ks, b) ==
    /\ a \in Seq(Events) /\ known \subseteq Keys /\ ks \subseteq Keys /\ IsFiniteSet(ks)
    /\ b = a \o Deletes(ks) \o <<>> \/ b = a \o Deletes(ks)

DeletesAndBehind(a, known, ks, e, b) ==
    /\ a \in Seq(Events) /\ known \subseteq Keys /\ ks \subseteq Keys /\ IsFiniteSet(ks)
    /\ e \in Events /\ b = a \o Deletes(ks) \o <<e>>

\* One that replays a step's announcements knows what the server knows.
LEMMA BehindAre ==
    ASSUME NEW a, NEW known, NEW ks, NEW b, DeletesBehind(a, known, ks, b)
    PROVE  /\ b \in Seq(Events) /\ Followed!IsPrefix(a, b)
           /\ Followed!Replay(known, SubSeq(b, Len(a) + 1, Len(b))) = known \ ks
<1>0. a \in Seq(Events) /\ known \subseteq Keys /\ ks \subseteq Keys /\ IsFiniteSet(ks)
    BY DEF DeletesBehind
<1>1. PICK s : s = Deletes(ks)
    OBVIOUS
<1>2. s \in Seq(Events)
    BY <1>0, <1>1, DeletesAre
<1>3. a \o s \in Seq(Events)
    BY <1>0, <1>2
<1>4. a \o s \o <<>> = a \o s
    BY <1>3
<1>5. b = a \o s
    BY <1>1, <1>4 DEF DeletesBehind
<1>6. b \in Seq(Events) /\ Followed!IsPrefix(a, b) /\ SubSeq(b, Len(a) + 1, Len(b)) = s
    BY <1>2, <1>5, <1>0, AnnouncedIs
<1>7. Followed!Replay(known, s) = known \ ks
    BY <1>0, <1>1, ReplayDeletes
<1>. QED BY <1>6, <1>7

LEMMA BehindAreAnd ==
    ASSUME NEW a, NEW known, NEW ks, NEW e, NEW b, DeletesAndBehind(a, known, ks, e, b)
    PROVE  /\ b \in Seq(Events) /\ Followed!IsPrefix(a, b)
           /\ Followed!Replay(known, SubSeq(b, Len(a) + 1, Len(b))) = Followed!Apply(known \ ks, e)
<1>0. a \in Seq(Events) /\ known \subseteq Keys /\ ks \subseteq Keys /\ IsFiniteSet(ks)
    BY DEF DeletesAndBehind
<1>1. PICK s : s = Deletes(ks)
    OBVIOUS
<1>2. s \in Seq(Events)
    BY <1>0, <1>1, DeletesAre
<1>3. PICK r : r = Append(s, e)
    OBVIOUS
<1>4. e \in Events /\ r \in Seq(Events) /\ r = s \o <<e>>
    BY <1>2, <1>3 DEF DeletesAndBehind
<1>5. PICK t : t = <<e>>
    OBVIOUS
<1>6. b = a \o r
  <2>1. t \in Seq(Events)
      BY <1>4, <1>5
  <2>2. a \o s \o t = a \o (s \o t)
      BY <1>0, <1>2, <2>1
  <2>. QED BY <1>1, <1>4, <1>5, <2>2 DEF DeletesAndBehind
<1>7. b \in Seq(Events) /\ Followed!IsPrefix(a, b) /\ SubSeq(b, Len(a) + 1, Len(b)) = r
    BY <1>4, <1>6, <1>0, AnnouncedIs
<1>8. Followed!Replay(known, r) = Followed!Apply(known \ ks, e)
  <2>1. \A x \in Events : Followed!Replay(known, Append(Deletes(ks), x)) = Followed!Apply(known \ ks, x)
      BY <1>0, ReplayDeletes
  <2>. QED BY <1>1, <1>3, <1>4, <2>1
<1>. QED BY <1>7, <1>8

----------------------------------------------------------------------------
\* There are only ever finitely many forwards, so that they can be announced
\* one after the other.
Forwarded == {k \in Keys : forwards[k] # NoPort}

FeedInv ==
    /\ announced \in Seq(Events)
    /\ forwards \in [Keys -> ClusterPorts \cup {NoPort, VncPort}]
    /\ IsFiniteSet(Forwarded)

FollowersKeepUp == FeedInv' /\ Followed!Announce

LEMMA ReapedAre ==
    ASSUME FeedInv
    PROVE  /\ Reaped \subseteq Forwarded /\ Reaped \subseteq Keys /\ IsFiniteSet(Reaped)
           /\ Kept \in [Keys -> ClusterPorts \cup {NoPort, VncPort}]
           /\ {k \in Keys : Kept[k] # NoPort} = Forwarded \ Reaped
           /\ IsFiniteSet(Forwarded \ Reaped)
<1>1. Reaped \subseteq Forwarded /\ Reaped \subseteq Keys
    BY DEF Reaped, Forwarded
<1>2. IsFiniteSet(Reaped) /\ IsFiniteSet(Forwarded \ Reaped)
    BY <1>1, FS_Subset DEF FeedInv
<1>3. Kept \in [Keys -> ClusterPorts \cup {NoPort, VncPort}]
    BY DEF Kept, FeedInv
<1>4. {k \in Keys : Kept[k] # NoPort} = Forwarded \ Reaped
    BY DEF Kept, Forwarded
<1>. QED BY <1>1, <1>2, <1>3, <1>4

LEMMA AnnouncesReaped ==
    ASSUME FeedInv, ReapsAnd(Kept, <<>>)
    PROVE  FollowersKeepUp
<1>1. PICK ks : ks = Reaped
    OBVIOUS
<1>2. forwards' = Kept /\ announced' = announced \o Deletes(ks) \o <<>>
    BY <1>1 DEF ReapsAnd
<1>3. ks \subseteq Keys /\ IsFiniteSet(ks) /\ Forwarded' = Forwarded \ ks /\ IsFiniteSet(Forwarded \ ks)
    BY <1>1, <1>2, ReapedAre DEF Forwarded
<1>4. announced \in Seq(Events) /\ Forwarded \subseteq Keys
    BY DEF FeedInv, Forwarded
<1>5. /\ announced' \in Seq(Events) /\ Followed!IsPrefix(announced, announced')
      /\ Followed!Replay(Forwarded, SubSeq(announced', Len(announced) + 1, Len(announced'))) = Forwarded \ ks
  <2>1. PICK a, b, known : a = announced /\ b = announced' /\ known = Forwarded
      OBVIOUS
  <2>2. DeletesBehind(a, known, ks, b)
      BY <1>2, <1>3, <1>4, <2>1 DEF DeletesBehind
  <2>. QED BY <2>1, <2>2, BehindAre
<1>6. FeedInv'
    BY <1>2, <1>3, <1>5, ReapedAre DEF FeedInv
<1>7. Followed!Announce
    BY <1>3, <1>5 DEF Followed!Announce, Forwarded
<1>. QED BY <1>6, <1>7 DEF FollowersKeepUp

LEMMA AnnouncesCreated ==
    ASSUME FeedInv, NEW k \in Keys, NEW p \in ClusterPorts \cup {VncPort},
           ReapsAnd([Kept EXCEPT ![k] = p], << <<"create", k>> >>)
    PROVE  FollowersKeepUp
<1>1. PICK ks, e : ks = Reaped /\ e = <<"create", k>>
    OBVIOUS
<1>2. forwards' = [Kept EXCEPT ![k] = p] /\ announced' = announced \o Deletes(ks) \o <<e>>
    BY <1>1 DEF ReapsAnd
<1>3. e \in Events /\ p # NoPort
    BY <1>1, ForwardsAssumption DEF Events
<1>4. ks \subseteq Keys /\ IsFiniteSet(ks) /\ IsFiniteSet(Forwarded \ ks)
    BY <1>1, ReapedAre
<1>5. forwards' \in [Keys -> ClusterPorts \cup {NoPort, VncPort}]
    BY <1>2, ReapedAre
<1>6. Forwarded' = (Forwarded \ ks) \cup {k}
    BY <1>1, <1>2, <1>3, ReapedAre DEF Forwarded
<1>7. IsFiniteSet((Forwarded \ ks) \cup {k})
    BY <1>4, FS_AddElement
<1>8. announced \in Seq(Events) /\ Forwarded \subseteq Keys
    BY DEF FeedInv, Forwarded
<1>9. /\ announced' \in Seq(Events) /\ Followed!IsPrefix(announced, announced')
      /\ Followed!Replay(Forwarded, SubSeq(announced', Len(announced) + 1, Len(announced')))
            = Followed!Apply(Forwarded \ ks, e)
  <2>1. PICK a, b, known : a = announced /\ b = announced' /\ known = Forwarded
      OBVIOUS
  <2>2. DeletesAndBehind(a, known, ks, e, b)
      BY <1>2, <1>3, <1>4, <1>8, <2>1 DEF DeletesAndBehind
  <2>. QED BY <2>1, <2>2, BehindAreAnd
<1>10. Followed!Apply(Forwarded \ ks, e) = (Forwarded \ ks) \cup {k}
    BY <1>1 DEF Followed!Apply
<1>11. FeedInv'
    BY <1>5, <1>6, <1>7, <1>9 DEF FeedInv
<1>12. Followed!Announce
    BY <1>6, <1>9, <1>10 DEF Followed!Announce, Forwarded
<1>. QED BY <1>11, <1>12 DEF FollowersKeepUp

LEMMA AnnouncesDeleted ==
    ASSUME FeedInv, NEW k \in Keys, ReapsAnd([Kept EXCEPT ![k] = NoPort], << <<"delete", k>> >>)
    PROVE  FollowersKeepUp
<1>1. PICK ks, e : ks = Reaped /\ e = <<"delete", k>>
    OBVIOUS
<1>2. forwards' = [Kept EXCEPT ![k] = NoPort] /\ announced' = announced \o Deletes(ks) \o <<e>>
    BY <1>1 DEF ReapsAnd
<1>3. e \in Events
    BY <1>1 DEF Events
<1>4. ks \subseteq Keys /\ IsFiniteSet(ks) /\ IsFiniteSet(Forwarded \ ks)
    BY <1>1, ReapedAre
<1>5. forwards' \in [Keys -> ClusterPorts \cup {NoPort, VncPort}]
    BY <1>2, ReapedAre
<1>6. Forwarded' = (Forwarded \ ks) \ {k}
    BY <1>1, <1>2, ReapedAre DEF Forwarded
<1>7. IsFiniteSet((Forwarded \ ks) \ {k})
    BY <1>4, FS_RemoveElement
<1>8. announced \in Seq(Events) /\ Forwarded \subseteq Keys
    BY DEF FeedInv, Forwarded
<1>9. /\ announced' \in Seq(Events) /\ Followed!IsPrefix(announced, announced')
      /\ Followed!Replay(Forwarded, SubSeq(announced', Len(announced) + 1, Len(announced')))
            = Followed!Apply(Forwarded \ ks, e)
  <2>1. PICK a, b, known : a = announced /\ b = announced' /\ known = Forwarded
      OBVIOUS
  <2>2. DeletesAndBehind(a, known, ks, e, b)
      BY <1>2, <1>3, <1>4, <1>8, <2>1 DEF DeletesAndBehind
  <2>. QED BY <2>1, <2>2, BehindAreAnd
<1>10. Followed!Apply(Forwarded \ ks, e) = (Forwarded \ ks) \ {k}
    BY <1>1 DEF Followed!Apply
<1>11. FeedInv'
    BY <1>5, <1>6, <1>7, <1>9 DEF FeedInv
<1>12. Followed!Announce
    BY <1>6, <1>9, <1>10 DEF Followed!Announce, Forwarded
<1>. QED BY <1>11, <1>12 DEF FollowersKeepUp

\* The stop hook announces every forward.
LEMMA AnnouncesStopped ==
    ASSUME FeedInv, StopHook
    PROVE  FollowersKeepUp
<1>1. PICK ks : ks = Forwarded
    OBVIOUS
<1>2. forwards' = [k \in Keys |-> NoPort] /\ announced' = announced \o Deletes(ks)
    BY <1>1 DEF StopHook, Forwarded
<1>3. ks \subseteq Keys /\ IsFiniteSet(ks) /\ Forwarded' = {} /\ ks \ ks = {}
    BY <1>1, <1>2 DEF Forwarded, FeedInv
<1>4. announced \in Seq(Events)
    BY DEF FeedInv
<1>5. /\ announced' \in Seq(Events) /\ Followed!IsPrefix(announced, announced')
      /\ Followed!Replay(ks, SubSeq(announced', Len(announced) + 1, Len(announced'))) = ks \ ks
  <2>1. PICK a, b, known : a = announced /\ b = announced' /\ known = ks
      OBVIOUS
  <2>2. DeletesBehind(a, known, ks, b)
      BY <1>2, <1>3, <1>4, <2>1 DEF DeletesBehind
  <2>. QED BY <2>1, <2>2, BehindAre
<1>6. FeedInv'
  <2>1. IsFiniteSet(Forwarded')
      BY <1>3, FS_EmptySet
  <2>2. forwards' \in [Keys -> ClusterPorts \cup {NoPort, VncPort}]
      BY <1>2
  <2>. QED BY <1>5, <2>1, <2>2 DEF FeedInv
<1>7. Followed!Announce
    BY <1>1, <1>3, <1>5 DEF Followed!Announce, Forwarded
<1>. QED BY <1>6, <1>7 DEF FollowersKeepUp

----------------------------------------------------------------------------
\* Forwards and announcements implement Feed, for any keys, ports and number
\* of requests: whoever replays the announcements has the server's keys after
\* every step, a reap or stop hook that drops many forwards included
\* (createPortForward, deleteForward, reapForwards).
THEOREM ForwardsAreAnnounced == ForwardsSpec => ForwardsAnnounced
<1>1. ForwardsInit => FeedInv /\ Followed!Init
  <2>. SUFFICES ASSUME ForwardsInit PROVE FeedInv /\ Followed!Init
      OBVIOUS
  <2>1. Forwarded = {} /\ announced = <<>> /\ forwards \in [Keys -> ClusterPorts \cup {NoPort, VncPort}]
      BY DEF ForwardsInit, Forwarded
  <2>2. IsFiniteSet(Forwarded)
      BY <2>1, FS_EmptySet
  <2>. QED BY <2>1, <2>2 DEF FeedInv, Followed!Init, Forwarded
<1>2. FeedInv /\ [ForwardsNext]_forwardVars =>
        FeedInv' /\ [Followed!Announce]_<<Forwarded, announced>>
  <2>. SUFFICES ASSUME FeedInv, [ForwardsNext]_forwardVars
                PROVE  FollowersKeepUp \/ UNCHANGED <<forwards, announced>>
      BY DEF FollowersKeepUp, FeedInv, Forwarded
  <2>1. ASSUME NEW op, NEW k, FindsVM(op, k) PROVE UNCHANGED <<forwards, announced>>
      BY <2>1 DEF FindsVM
  <2>2. ASSUME NEW k \in Keys, CreatePortForward(k) PROVE FollowersKeepUp
    <3>1. CASE ReapsAnd(Kept, <<>>)
        BY <3>1, AnnouncesReaped
    <3>2. CASE ReapsAnd([Kept EXCEPT ![k] = VncPort], << <<"create", k>> >>)
        BY <3>2, AnnouncesCreated
    <3>3. CASE \E p \in TunnelsTo(NoPort) : ReapsAnd([Kept EXCEPT ![k] = p], << <<"create", k>> >>)
      <4>1. PICK p \in ClusterPorts : ReapsAnd([Kept EXCEPT ![k] = p], << <<"create", k>> >>)
          BY <3>3 DEF TunnelsTo
      <4>. QED BY <4>1, AnnouncesCreated
    <3>. QED BY <2>2, <3>1, <3>2, <3>3 DEF CreatePortForward
  <2>3. ASSUME NEW k \in Keys, DeletePortForward(k) PROVE FollowersKeepUp
    <3>1. CASE ReapsAnd(Kept, <<>>)
        BY <3>1, AnnouncesReaped
    <3>2. CASE ReapsAnd([Kept EXCEPT ![k] = NoPort], << <<"delete", k>> >>)
        BY <3>2, AnnouncesDeleted
    <3>. QED BY <2>3, <3>1, <3>2 DEF DeletePortForward
  <2>4. ASSUME ReapForwards PROVE FollowersKeepUp
      BY <2>4, AnnouncesReaped DEF ReapForwards
  <2>5. ASSUME NEW d, NEW u, GetPortForwardWebSocket(d, u) PROVE FollowersKeepUp
      BY <2>5, AnnouncesReaped DEF GetPortForwardWebSocket
  <2>6. ASSUME StopHook PROVE FollowersKeepUp
      BY <2>6, AnnouncesStopped
  <2>7. ASSUME ClearNamespace \/ StartsAgain \/ UNCHANGED forwardVars PROVE UNCHANGED <<forwards, announced>>
      BY <2>7 DEF ClearNamespace, StartsAgain, forwardVars
  <2>. QED BY <2>1, <2>2, <2>3, <2>4, <2>5, <2>6, <2>7 DEF ForwardsNext
<1>3. [Followed!Announce]_<<Forwarded, announced>> =>
        [Followed!Announce]_<<{k \in Keys : forwards[k] # NoPort}, announced>>
    BY DEF Forwarded
<1>. QED BY <1>1, <1>2, <1>3, PTL DEF ForwardsSpec, ForwardsAnnounced, Followed!Spec

----------------------------------------------------------------------------
(* The tunneler, for any keys and ports. That it knows the server's        *)
(* forwards once the web socket is empty needs to be said of every key     *)
(* while it is not: the last message about a key tells what the server     *)
(* has, and a key no message is about is known, or still to be created,    *)
(* just when the server has it. Its ports need that a key of the initial   *)
(* list has no listener yet, which holds as the process begins without.    *)

LastAbout(k, i) == i \in DOMAIN wire /\ wire[i][2] = k /\ \A j \in DOMAIN wire : j > i => wire[j][2] # k
Untold(k) == \A i \in DOMAIN wire : wire[i][2] # k

WireTells ==
    serve # "off" => \A k \in ForwardKeys, i \in DOMAIN wire : LastAbout(k, i) => (wire[i][1] = "create" <=> k \in remote)
UntoldKnown ==
    serve \notin {"off", "list"} => \A k \in ForwardKeys : Untold(k) => (k \in Known \cup todo <=> k \in remote)
Begins ==
    /\ serve \in {"off", "list"} => Known = {}
    /\ serve \notin {"create", "listed"} => todo = {}
    /\ todo \cap Known = {}
Activates == serve \in {"listed", "activate"} => current \in Known
TunnelerInv == TunnelerTypeOK /\ WireTells /\ UntoldKnown /\ Begins /\ Activates /\ PortsAccounted

LEMMA ListenerFields ==
    /\ \A l \in Listeners : l.id \in Nat /\ l.port \in LocalPorts /\ l.listening \in BOOLEAN
    /\ \A i \in Nat, p \in LocalPorts, b \in BOOLEAN : [id |-> i, port |-> p, listening |-> b] \in Listeners
    /\ NoListener \notin Listeners
BY TunnelerAssumption DEF Listeners

\* What the operations do to one listener.
Becomes(k, p, b) ==
    /\ local' = [local EXCEPT ![k] = local'[k]]
    /\ local'[k] \in Listeners /\ local'[k].port = p /\ local'[k].listening = b

LEMMA ListenersBecome ==
    ASSUME local \in [ForwardKeys -> Listeners \cup {NoListener}], NEW k \in Known, NEW p \in LocalPorts
    PROVE  /\ local' = [local EXCEPT ![k].port = p, ![k].listening = TRUE] => Becomes(k, p, TRUE)
           /\ local' = [local EXCEPT ![k].port = p] => Becomes(k, p, local[k].listening)
           /\ local' = [local EXCEPT ![k].listening = FALSE] => Becomes(k, local[k].port, FALSE)
<1>1. local[k] \in Listeners /\ k \in ForwardKeys
    BY DEF Known
<1>2. local' = [local EXCEPT ![k].port = p, ![k].listening = TRUE] => Becomes(k, p, TRUE)
    BY <1>1 DEF Becomes, Listeners
<1>3. local' = [local EXCEPT ![k].port = p] => Becomes(k, p, local[k].listening)
    BY <1>1 DEF Becomes, Listeners
<1>4. local' = [local EXCEPT ![k].listening = FALSE] => Becomes(k, local[k].port, FALSE)
    BY <1>1 DEF Becomes, Listeners
<1>. QED BY <1>2, <1>3, <1>4

\* One listener changes, and the ports with it.
LEMMA PortsChange ==
    ASSUME local \in [ForwardKeys -> Listeners \cup {NoListener}], PortsAccounted, NEW k \in ForwardKeys,
           local' = [local EXCEPT ![k] = local'[k]], local'[k] \in Listeners \cup {NoListener},
           bound' = (IF local[k] # NoListener /\ local[k].listening THEN bound \ {local[k].port} ELSE bound)
                    \cup (IF local'[k] # NoListener /\ local'[k].listening THEN {local'[k].port} ELSE {}),
           local'[k] # NoListener /\ local'[k].listening =>
               local'[k].port \notin bound \/ (local[k] # NoListener /\ local[k].listening /\ local'[k].port = local[k].port)
    PROVE  PortsAccounted'
<1>. DEFINE On(j) == local[j] # NoListener /\ local[j].listening
<1>1. bound = {local[j].port : j \in {i \in ForwardKeys : On(i)}}
    BY DEF PortsAccounted, Known
<1>2. \A i, j \in ForwardKeys : On(i) /\ On(j) /\ local[i].port = local[j].port => i = j
    BY DEF PortsAccounted, Known
<1>3. \A j \in ForwardKeys : j # k => local'[j] = local[j]
    OBVIOUS
<1>4. \A p : p \in bound <=> \E j \in ForwardKeys : On(j) /\ local[j].port = p
    BY <1>1
<1>5. \A i, j \in ForwardKeys : On(i)' /\ On(j)' /\ local'[i].port = local'[j].port => i = j
    BY <1>2, <1>3, <1>4
<1>6. \A p : p \in bound' <=> \E j \in ForwardKeys : On(j)' /\ local'[j].port = p
    BY <1>2, <1>3, <1>4
<1>. QED BY <1>5, <1>6 DEF PortsAccounted, Known

\* Steps that leave the keys known, and what is told of them, as they are.
LEMMA MirrorSame ==
    ASSUME TunnelerInv, UNCHANGED <<remote, wire, todo>>, Known' = Known,
           serve' = serve \/ (serve \notin {"off", "list"} /\ serve' \notin {"off", "list"}),
           serve' \notin {"create", "listed"} => todo = {}
    PROVE  WireTells' /\ UntoldKnown' /\ Begins'
<1>1. WireTells'
    BY DEF TunnelerInv, WireTells, LastAbout
<1>2. UntoldKnown'
    BY DEF TunnelerInv, UntoldKnown, Untold
<1>. QED BY <1>1, <1>2 DEF TunnelerInv, Begins

\* The senders and the page.
LEMMA SendersInv ==
    ASSUME TunnelerInv, ServeSends \/ AskingSends \/ JoiningSends \/ PageJoins \/ PageReceives
    PROVE  TunnelerInv'
<1>1. /\ UNCHANGED <<remote, wire, todo, local, bound, changes, current, nextID>>
      /\ serve' = serve \/ (serve' \in SendPoints \cup {"loop"} /\ serve \in SendPoints)
      /\ localOps' \in 0 .. MaxLocalOps /\ viewer' \in {"none", "on", "gone"} /\ inbox' \in 0 .. 1
      /\ asking' \in {"idle"} \cup SendPoints /\ joining' \in {"idle"} \cup SendPoints
    BY TunnelerAssumption
       DEF ServeSends, AskingSends, JoiningSends, PageJoins, PageReceives, Send, SendPoints, TunnelerInv, TunnelerTypeOK
<1>2. TunnelerTypeOK'
    BY <1>1 DEF TunnelerInv, TunnelerTypeOK
<1>3. Known' = Known
    BY <1>1 DEF Known
<1>4. serve' \notin {"create", "listed"} => todo = {}
    BY <1>1 DEF TunnelerInv, Begins, SendPoints
<1>5. WireTells' /\ UntoldKnown' /\ Begins'
    BY <1>1, <1>3, <1>4, MirrorSame DEF SendPoints
<1>6. Activates'
    BY <1>1, <1>3 DEF TunnelerInv, Activates, SendPoints
<1>7. PortsAccounted'
    BY <1>1, <1>3 DEF TunnelerInv, PortsAccounted
<1>. QED BY <1>2, <1>5, <1>6, <1>7 DEF TunnelerInv

\* The server creates or deletes a forward, and announces it.
LEMMA ServerChangesInv ==
    ASSUME TunnelerInv, NEW k \in ForwardKeys, ServerChanges(k)
    PROVE  TunnelerInv'
<1>. DEFINE m == <<IF k \in remote THEN "delete" ELSE "create", k>>
<1>1. /\ UNCHANGED <<serve, todo, current, local, nextID, bound, asking, joining, viewer, inbox, localOps>>
      /\ changes' \in 0 .. MaxChanges /\ remote' \subseteq ForwardKeys
      /\ k \in remote' <=> k \notin remote
      /\ \A j \in ForwardKeys : j # k => (j \in remote' <=> j \in remote)
    BY TunnelerAssumption DEF ServerChanges, pageVars, TunnelerInv, TunnelerTypeOK
<1>2. wire \in Seq({"create", "delete"} \X ForwardKeys) /\ m \in {"create", "delete"} \X ForwardKeys
    BY DEF TunnelerInv, TunnelerTypeOK
<1>3. wire' = (IF serve # "off" THEN Append(wire, m) ELSE wire) /\ m[2] = k /\ (m[1] = "create" <=> k \in remote')
    BY <1>1 DEF ServerChanges, Connected
<1>. HIDE DEF m
<1>4. wire' \in Seq({"create", "delete"} \X ForwardKeys)
    BY <1>2, <1>3
<1>5. TunnelerTypeOK'
    BY <1>1, <1>4 DEF TunnelerInv, TunnelerTypeOK
<1>6. Known' = Known
    BY <1>1 DEF Known
<1>7. serve # "off" => /\ DOMAIN wire' = 1 .. (Len(wire) + 1) /\ wire'[Len(wire) + 1] = m
                       /\ \A i \in DOMAIN wire : wire'[i] = wire[i]
    BY <1>2, <1>3
<1>8. DOMAIN wire = 1 .. Len(wire) /\ Len(wire) \in Nat
    BY <1>2
<1>9. WireTells'
  <2>. SUFFICES ASSUME serve # "off", NEW j \in ForwardKeys, NEW i \in DOMAIN wire', LastAbout(j, i)'
                PROVE  wire'[i][1] = "create" <=> j \in remote'
      BY <1>1 DEF WireTells
  <2>1. CASE j = k
    <3>1. i = Len(wire) + 1
      BY <1>3, <1>7, <1>8, <2>1 DEF LastAbout
    <3>. QED BY <3>1, <1>3, <1>7, <2>1
  <2>2. CASE j # k
    <3>1. i \in DOMAIN wire /\ wire'[i] = wire[i]
      BY <1>3, <1>7, <1>8, <2>2 DEF LastAbout
    <3>2. LastAbout(j, i)
      BY <3>1, <1>7, <1>8 DEF LastAbout
    <3>. QED BY <3>1, <3>2, <1>1, <2>2 DEF TunnelerInv, WireTells
  <2>. QED BY <2>1, <2>2
<1>10. UntoldKnown'
  <2>. SUFFICES ASSUME serve \notin {"off", "list"}, NEW j \in ForwardKeys, Untold(j)'
                PROVE  j \in Known \cup todo <=> j \in remote'
      BY <1>1, <1>6 DEF UntoldKnown
  <2>1. j # k /\ Untold(j)
      BY <1>3, <1>7, <1>8 DEF Untold
  <2>. QED BY <2>1, <1>1 DEF TunnelerInv, UntoldKnown
<1>11. Begins' /\ Activates' /\ PortsAccounted'
    BY <1>1, <1>6 DEF TunnelerInv, Begins, Activates, PortsAccounted
<1>. QED BY <1>5, <1>9, <1>10, <1>11 DEF TunnelerInv

\* The process is started, reads the list, and ends.
LEMMA ProcessInv ==
    ASSUME TunnelerInv, Dial \/ Lists \/ Ends
    PROVE  TunnelerInv'
<1>1. CASE Dial
  <2>1. /\ UNCHANGED <<remote, changes, todo, current, local, nextID, bound, asking, joining, viewer, inbox>>
        /\ localOps' \in 0 .. MaxLocalOps /\ serve = "off" /\ serve' = "list" /\ wire' = <<>>
    BY <1>1, TunnelerAssumption DEF Dial, pageVars, TunnelerInv, TunnelerTypeOK
  <2>2. TunnelerTypeOK'
    BY <2>1 DEF TunnelerInv, TunnelerTypeOK
  <2>3. WireTells' /\ UntoldKnown'
    BY <2>1 DEF WireTells, UntoldKnown
  <2>4. Begins' /\ Activates' /\ PortsAccounted'
    BY <2>1 DEF TunnelerInv, Begins, Activates, PortsAccounted, Known
  <2>. QED BY <2>2, <2>3, <2>4 DEF TunnelerInv
<1>2. CASE Lists
  <2>1. /\ UNCHANGED <<remote, wire, changes, current, local, nextID, bound, asking, joining, viewer, inbox, localOps>>
        /\ serve = "list" /\ todo' = remote /\ serve' \in {"loop", "create"} /\ (serve' = "loop" => remote = {})
    BY <1>2 DEF Lists, pageVars
  <2>2. Known = {} /\ Known' = {} /\ remote \subseteq ForwardKeys
    BY <2>1 DEF TunnelerInv, TunnelerTypeOK, Begins, Known
  <2>3. TunnelerTypeOK'
    BY <2>1 DEF TunnelerInv, TunnelerTypeOK
  <2>4. WireTells' /\ UntoldKnown'
    BY <2>1, <2>2 DEF TunnelerInv, WireTells, LastAbout, UntoldKnown
  <2>5. Begins' /\ Activates' /\ PortsAccounted'
    BY <2>1, <2>2 DEF TunnelerInv, Begins, Activates, PortsAccounted
  <2>. QED BY <2>3, <2>4, <2>5 DEF TunnelerInv
<1>3. CASE Ends
  <2>1. /\ UNCHANGED <<remote, wire, changes, localOps>> /\ serve' = "off" /\ todo' = {} /\ current' = NoListener
        /\ local' = [k \in ForwardKeys |-> NoListener] /\ nextID' = 0 /\ bound' = {}
        /\ asking' = "idle" /\ joining' = "idle" /\ viewer' = "none" /\ inbox' = 0
    BY <1>3 DEF Ends
  <2>2. Known' = {}
    BY <2>1 DEF Known
  <2>3. TunnelerTypeOK'
    BY <2>1 DEF TunnelerInv, TunnelerTypeOK
  <2>4. WireTells' /\ UntoldKnown' /\ Begins' /\ Activates' /\ PortsAccounted'
    BY <2>1, <2>2 DEF WireTells, UntoldKnown, Begins, Activates, PortsAccounted
  <2>. QED BY <2>3, <2>4 DEF TunnelerInv
<1>. QED BY <1>1, <1>2, <1>3

\* A listener is changed, or the serve loop has given up on one.
LEMMA ListenerInv ==
    ASSUME TunnelerInv, NEW k \in Known, NEW p \in LocalPorts, NEW b \in BOOLEAN,
           UNCHANGED <<remote, wire, changes, todo, nextID, joining, viewer, inbox>>,
           \/ local' = local /\ bound' = bound
           \/ /\ Becomes(k, p, b) /\ (b => p \notin bound \/ (local[k].listening /\ p = local[k].port))
              /\ bound' = (IF local[k].listening THEN bound \ {local[k].port} ELSE bound) \cup (IF b THEN {p} ELSE {}),
           \/ serve' = serve /\ current' = current
           \/ /\ serve \notin {"off", "list"} /\ serve' \in {"loop", "create"} \cup SendPoints /\ current' = NoListener
              /\ serve' # "create" => todo = {},
           localOps' \in 0 .. MaxLocalOps, asking' \in {"idle"} \cup SendPoints
    PROVE  TunnelerInv'
<1>. USE DEF TunnelerInv
<1>1. k \in ForwardKeys /\ local \in [ForwardKeys -> Listeners \cup {NoListener}] /\ local[k] # NoListener
    BY DEF TunnelerTypeOK, Known
<1>2. local' \in [ForwardKeys -> Listeners \cup {NoListener}] /\ Known' = Known
    BY <1>1, ListenerFields DEF Becomes, Known
<1>3. bound' \subseteq LocalPorts
    BY DEF TunnelerTypeOK
<1>4. TunnelerTypeOK'
    BY <1>2, <1>3 DEF TunnelerTypeOK
<1>5. serve' \notin {"create", "listed"} => todo = {}
    BY DEF Begins, SendPoints
<1>6. WireTells' /\ UntoldKnown' /\ Begins'
    BY <1>2, <1>5, MirrorSame DEF SendPoints
<1>7. Activates'
    BY <1>2 DEF Activates, SendPoints
<1>8. PortsAccounted'
  <2>1. CASE local' = local /\ bound' = bound
    BY <1>2, <2>1 DEF PortsAccounted
  <2>2. CASE /\ Becomes(k, p, b) /\ (b => p \notin bound \/ (local[k].listening /\ p = local[k].port))
             /\ bound' = (IF local[k].listening THEN bound \ {local[k].port} ELSE bound) \cup (IF b THEN {p} ELSE {})
    <3>1. /\ local' = [local EXCEPT ![k] = local'[k]] /\ local'[k] \in Listeners /\ local'[k] # NoListener
          /\ local'[k].port = p /\ local'[k].listening = b
      BY <2>2, ListenerFields DEF Becomes
    <3>. QED BY <1>1, <2>2, <3>1, PortsChange
  <2>. QED BY <2>1, <2>2
<1>. QED BY <1>4, <1>6, <1>7, <1>8

\* Activating, deactivating and moving: each changes one listener.
LEMMA UserAsksInv ==
    ASSUME TunnelerInv, NEW k \in ForwardKeys, NEW q \in LocalPorts,
           UserActivates(k) \/ UserDeactivates(k) \/ UserMoves(k, q)
    PROVE  TunnelerInv'
<1>1. /\ UNCHANGED <<remote, wire, changes, serve, todo, current, nextID, joining, viewer, inbox>> /\ UserAsks(k)
    BY DEF UserActivates, UserDeactivates, UserMoves
<1>2. /\ k \in Known /\ local \in [ForwardKeys -> Listeners \cup {NoListener}] /\ localOps' \in 0 .. MaxLocalOps
      /\ asking \in {"idle"} \cup SendPoints
    BY <1>1, TunnelerAssumption DEF UserAsks, TunnelerInv, TunnelerTypeOK
<1>3. local[k] \in Listeners
    BY <1>2 DEF Known
<1>4. local[k].port \in LocalPorts /\ local[k].listening \in BOOLEAN
    BY <1>3, ListenerFields
<1>5. asking' \in {"idle"} \cup SendPoints
    BY <1>2 DEF UserActivates, UserDeactivates, UserMoves, AfterChange, SendPoints
<1>6. CASE local' = local /\ bound' = bound
    BY <1>1, <1>2, <1>4, <1>5, <1>6, ListenerInv
<1>7. CASE UserActivates(k) /\ ~(local' = local /\ bound' = bound)
  <2>1. Activated(k, local[k].port) /\ ~local[k].listening
    BY <1>7 DEF UserActivates
  <2>2. Becomes(k, local[k].port, TRUE) /\ local[k].port \notin bound /\ bound' = bound \cup {local[k].port}
    BY <1>2, <1>4, <2>1, ListenersBecome DEF Activated
  <2>. QED BY <1>1, <1>2, <1>4, <1>5, <2>1, <2>2, ListenerInv
<1>8. CASE UserDeactivates(k)
  <2>1. /\ Becomes(k, local[k].port, FALSE)
        /\ bound' = IF local[k].listening THEN bound \ {local[k].port} ELSE bound
    BY <1>2, <1>4, <1>8, ListenersBecome DEF UserDeactivates
  <2>. QED BY <1>1, <1>2, <1>4, <1>5, <2>1, ListenerInv
<1>9. CASE UserMoves(k, q) /\ ~(local' = local /\ bound' = bound)
  <2>1. \/ ~local[k].listening /\ local' = [local EXCEPT ![k].port = q] /\ bound' = bound
        \/ /\ local[k].listening /\ q \notin bound \ {local[k].port}
           /\ local' = [local EXCEPT ![k].port = q] /\ bound' = (bound \ {local[k].port}) \cup {q}
        \/ local[k].listening /\ local' = [local EXCEPT ![k].listening = FALSE] /\ bound' = bound \ {local[k].port}
    BY <1>9 DEF UserMoves
  <2>2. CASE ~local[k].listening /\ local' = [local EXCEPT ![k].port = q] /\ bound' = bound
    <3>1. Becomes(k, q, FALSE)
      BY <1>2, <1>4, <2>2, ListenersBecome
    <3>. QED BY <1>1, <1>2, <1>5, <2>2, <3>1, ListenerInv
  <2>3. CASE /\ local[k].listening /\ q \notin bound \ {local[k].port}
             /\ local' = [local EXCEPT ![k].port = q] /\ bound' = (bound \ {local[k].port}) \cup {q}
    <3>1. Becomes(k, q, TRUE)
      BY <1>2, <1>4, <2>3, ListenersBecome
    <3>. QED BY <1>1, <1>2, <1>5, <2>3, <3>1, ListenerInv
  <2>4. CASE local[k].listening /\ local' = [local EXCEPT ![k].listening = FALSE] /\ bound' = bound \ {local[k].port}
    <3>1. Becomes(k, local[k].port, FALSE)
      BY <1>2, <1>4, <2>4, ListenersBecome
    <3>. QED BY <1>1, <1>2, <1>4, <1>5, <2>4, <3>1, ListenerInv
  <2>. QED BY <2>1, <2>2, <2>3, <2>4
<1>. QED BY <1>6, <1>7, <1>8, <1>9

LEMMA ServeActivatesInv ==
    ASSUME TunnelerInv, ServeActivates
    PROVE  TunnelerInv'
<1>. DEFINE k == current
<1>1. /\ UNCHANGED <<remote, wire, changes, todo, nextID, asking, joining, viewer, inbox, localOps>>
      /\ serve \in {"listed", "activate"} /\ current' = NoListener
      /\ serve' \in {"loop", "create"} \cup SendPoints
      /\ serve' # "create" => serve = "activate" \/ todo = {}
    BY DEF ServeActivates, pageVars, AfterChange, SendPoints
<1>2. k \in Known /\ local \in [ForwardKeys -> Listeners \cup {NoListener}]
    BY <1>1 DEF TunnelerInv, Activates, TunnelerTypeOK
<1>3. local[k] \in Listeners
    BY <1>2 DEF Known
<1>4. local[k].port \in LocalPorts /\ local[k].listening \in BOOLEAN
    BY <1>3, ListenerFields
<1>5. localOps' \in 0 .. MaxLocalOps /\ asking' \in {"idle"} \cup SendPoints /\ (serve' # "create" => todo = {})
    BY <1>1 DEF TunnelerInv, TunnelerTypeOK, Begins
<1>6. PICK p \in LocalPorts : p = local[k].port
    BY <1>4
<1>7. CASE local' = local /\ bound' = bound
    BY <1>1, <1>2, <1>5, <1>6, <1>7, ListenerInv
<1>8. CASE local[k].listening = FALSE /\ Activated(k, local[k].port)
  <2>1. Becomes(k, p, TRUE) /\ p \notin bound /\ bound' = bound \cup {p}
    BY <1>2, <1>6, <1>8, ListenersBecome DEF Activated
  <2>. QED BY <1>1, <1>2, <1>5, <1>6, <1>8, <2>1, ListenerInv
<1>. QED BY <1>7, <1>8 DEF ServeActivates

\* A listener that is added has no port yet; one that is removed leaves none.
LEMMA AddsListener ==
    ASSUME TunnelerInv, NEW k \in ForwardKeys, k \notin Known, NEW activate, NEW next, Adds(k, activate, next), bound' = bound
    PROVE  /\ local' \in [ForwardKeys -> Listeners \cup {NoListener}] /\ Known' = Known \cup {k} /\ nextID' \in Nat
           /\ PortsAccounted'
           /\ \/ serve' = activate /\ current' = k
              \/ serve' = next /\ current' = current
<1>. DEFINE l == [id |-> nextID + 1, port |-> SrcPort[k], listening |-> FALSE]
<1>1. nextID' \in Nat /\ SrcPort[k] \in LocalPorts /\ nextID + 1 \in Nat
  <2>1. nextID' = nextID + 1
    BY DEF Adds
  <2>2. nextID \in Nat
    BY DEF TunnelerInv, TunnelerTypeOK
  <2>3. SrcPort[k] \in LocalPorts
    BY TunnelerAssumption
  <2>. QED BY <2>1, <2>2, <2>3
<1>2. l \in Listeners /\ l # NoListener /\ l.listening = FALSE
    BY <1>1, ListenerFields
<1>3. local' = [local EXCEPT ![k] = l] /\ local \in [ForwardKeys -> Listeners \cup {NoListener}]
    BY DEF Adds, TunnelerInv, TunnelerTypeOK
<1>. HIDE DEF l
<1>4. local' \in [ForwardKeys -> Listeners \cup {NoListener}] /\ Known' = Known \cup {k} /\ local'[k] = l
    BY <1>2, <1>3 DEF Known
<1>5. local[k] = NoListener /\ local' = [local EXCEPT ![k] = local'[k]]
    BY <1>3, <1>4 DEF Known
<1>6. PortsAccounted'
    BY <1>2, <1>3, <1>4, <1>5, PortsChange DEF TunnelerInv
<1>. QED BY <1>1, <1>4, <1>6 DEF Adds

LEMMA RemovesListener ==
    ASSUME TunnelerInv, NEW k \in Known, Removes(k)
    PROVE  /\ local' \in [ForwardKeys -> Listeners \cup {NoListener}] /\ Known' = Known \ {k} /\ bound' \subseteq LocalPorts
           /\ PortsAccounted'
<1>1. k \in ForwardKeys /\ local \in [ForwardKeys -> Listeners \cup {NoListener}] /\ local[k] # NoListener
    BY DEF Known, TunnelerInv, TunnelerTypeOK
<1>2. local' = [local EXCEPT ![k] = NoListener] /\ local'[k] = NoListener
    BY <1>1 DEF Removes
<1>3. local' = [local EXCEPT ![k] = local'[k]]
    BY <1>2
<1>4. bound' = (IF local[k] # NoListener /\ local[k].listening THEN bound \ {local[k].port} ELSE bound) \cup {}
    BY <1>1 DEF Removes
<1>5. PortsAccounted'
    BY <1>1, <1>2, <1>3, <1>4, PortsChange DEF TunnelerInv
<1>6. local' \in [ForwardKeys -> Listeners \cup {NoListener}] /\ Known' = Known \ {k} /\ bound' \subseteq LocalPorts
    BY <1>1, <1>2, <1>4 DEF Known, TunnelerInv, TunnelerTypeOK
<1>. QED BY <1>5, <1>6

LEMMA CreatesListedInv ==
    ASSUME TunnelerInv, CreatesListed
    PROVE  TunnelerInv'
<1>1. PICK k \in todo : /\ todo' = todo \ {k} /\ Adds(k, "listed", IF todo = {k} THEN "loop" ELSE "create")
    BY DEF CreatesListed
<1>2. /\ UNCHANGED <<remote, wire, changes, bound, asking, joining, viewer, inbox, localOps>> /\ serve = "create"
    BY DEF CreatesListed, pageVars
<1>3. k \in ForwardKeys /\ k \notin Known
    BY DEF TunnelerInv, TunnelerTypeOK, Begins
<1>. DEFINE next == IF todo = {k} THEN "loop" ELSE "create"
<1>4. next \in {"loop", "create"} /\ (next = "loop" => todo' = {})
    BY <1>1
<1>5. Adds(k, "listed", next)
    BY <1>1
<1>. HIDE DEF next
<1>6. /\ local' \in [ForwardKeys -> Listeners \cup {NoListener}] /\ Known' = Known \cup {k} /\ nextID' \in Nat
      /\ PortsAccounted'
      /\ (serve' = "listed" /\ current' = k) \/ (serve' = next /\ current' = current)
    BY <1>2, <1>3, <1>5, AddsListener
<1>7. TunnelerTypeOK'
    BY <1>1, <1>2, <1>3, <1>4, <1>6 DEF TunnelerInv, TunnelerTypeOK
<1>8. WireTells'
    BY <1>2 DEF TunnelerInv, WireTells, LastAbout
<1>9. UntoldKnown'
  <2>1. Known' \cup todo' = Known \cup todo
    BY <1>1, <1>6
  <2>. QED BY <1>2, <2>1 DEF TunnelerInv, UntoldKnown, Untold
<1>10. Begins' /\ Activates'
    BY <1>1, <1>4, <1>6 DEF TunnelerInv, Begins, Activates
<1>. QED BY <1>6, <1>7, <1>8, <1>9, <1>10 DEF TunnelerInv

LEMMA ReceivesInv ==
    ASSUME TunnelerInv, Receives
    PROVE  TunnelerInv'
<1>. DEFINE k == Head(wire)[2]
            create == Head(wire)[1] = "create"
<1>1. /\ UNCHANGED <<remote, changes, todo, asking, joining, viewer, inbox, localOps>>
      /\ serve = "loop" /\ wire # <<>> /\ wire' = Tail(wire) /\ todo = {}
    BY DEF Receives, pageVars, TunnelerInv, Begins
<1>2. wire \in Seq({"create", "delete"} \X ForwardKeys)
    BY DEF TunnelerInv, TunnelerTypeOK
<1>3. /\ wire' \in Seq({"create", "delete"} \X ForwardKeys) /\ Len(wire) \in Nat /\ Len(wire) > 0
      /\ DOMAIN wire = 1 .. Len(wire) /\ DOMAIN wire' = 1 .. (Len(wire) - 1)
      /\ \A i \in DOMAIN wire' : wire'[i] = wire[i + 1]
      /\ Head(wire) = wire[1] /\ wire[1] \in {"create", "delete"} \X ForwardKeys
    BY <1>1, <1>2
<1>4. k \in ForwardKeys
    BY <1>3
<1>5. \/ create /\ k \notin Known /\ Adds(k, "activate", AfterChange("loop")) /\ bound' = bound
      \/ ~create /\ k \in Known /\ Removes(k) /\ serve' = AfterChange("loop") /\ nextID' = nextID /\ current' = current
      \/ create = (k \in Known) /\ UNCHANGED <<serve, local, nextID, current, bound>>
    BY DEF Receives
<1>6. AfterChange("loop") \in {"send", "loop"}
    BY DEF AfterChange
<1>7. /\ local' \in [ForwardKeys -> Listeners \cup {NoListener}] /\ nextID' \in Nat /\ bound' \subseteq LocalPorts
      /\ PortsAccounted' /\ (k \in Known' <=> create) /\ \A j \in ForwardKeys : j # k => (j \in Known' <=> j \in Known)
      /\ \/ serve' \in {"send", "loop"} /\ current' = current
         \/ serve' = "activate" /\ current' = k /\ k \in Known'
  <2>1. CASE create /\ k \notin Known /\ Adds(k, "activate", AfterChange("loop")) /\ bound' = bound
    <3>1. bound' \subseteq LocalPorts
      BY <2>1 DEF TunnelerInv, TunnelerTypeOK
    <3>. HIDE DEF k, create
    <3>2. /\ local' \in [ForwardKeys -> Listeners \cup {NoListener}] /\ Known' = Known \cup {k} /\ nextID' \in Nat
          /\ PortsAccounted'
          /\ (serve' = "activate" /\ current' = k) \/ (serve' = AfterChange("loop") /\ current' = current)
      BY <1>4, <2>1, AddsListener
    <3>. QED BY <1>6, <2>1, <3>1, <3>2
  <2>2. CASE ~create /\ k \in Known /\ Removes(k) /\ serve' = AfterChange("loop") /\ nextID' = nextID /\ current' = current
    <3>1. nextID' \in Nat
      BY <2>2 DEF TunnelerInv, TunnelerTypeOK
    <3>. HIDE DEF k, create
    <3>2. /\ local' \in [ForwardKeys -> Listeners \cup {NoListener}] /\ Known' = Known \ {k} /\ bound' \subseteq LocalPorts
          /\ PortsAccounted'
      BY <2>2, RemovesListener
    <3>. QED BY <1>6, <2>2, <3>1, <3>2
  <2>3. CASE create = (k \in Known) /\ UNCHANGED <<serve, local, nextID, current, bound>>
    <3>1. Known' = Known /\ (create <=> k \in Known)
      BY <2>3 DEF Known
    <3>2. PortsAccounted'
      BY <2>3, <3>1 DEF TunnelerInv, PortsAccounted
    <3>3. local' \in [ForwardKeys -> Listeners \cup {NoListener}] /\ nextID' \in Nat /\ bound' \subseteq LocalPorts
      BY <2>3 DEF TunnelerInv, TunnelerTypeOK
    <3>. QED BY <1>1, <2>3, <3>1, <3>2, <3>3
  <2>. QED BY <1>5, <2>1, <2>2, <2>3
<1>8. TunnelerTypeOK'
    BY <1>1, <1>3, <1>4, <1>7 DEF TunnelerInv, TunnelerTypeOK, SendPoints
<1>9. \A j \in ForwardKeys, i \in DOMAIN wire' : LastAbout(j, i)' => i + 1 \in DOMAIN wire /\ LastAbout(j, i + 1)
  <2>. SUFFICES ASSUME NEW j \in ForwardKeys, NEW i \in DOMAIN wire', LastAbout(j, i)'
                PROVE  i + 1 \in DOMAIN wire /\ LastAbout(j, i + 1)
      OBVIOUS
  <2>1. i + 1 \in DOMAIN wire /\ wire[i + 1][2] = j
      BY <1>3 DEF LastAbout
  <2>2. ASSUME NEW n \in DOMAIN wire, n > i + 1 PROVE wire[n][2] # j
    <3>1. n \in Nat /\ i \in Nat /\ n <= Len(wire) /\ i >= 1
      BY <1>3
    <3>2. n - 1 \in 1 .. (Len(wire) - 1) /\ n - 1 > i /\ (n - 1) + 1 = n
      BY <1>3, <2>2, <3>1
    <3>3. wire'[n - 1] = wire[n]
      BY <1>3, <3>2
    <3>. QED BY <1>3, <3>2, <3>3 DEF LastAbout
  <2>. QED BY <2>1, <2>2 DEF LastAbout
<1>10. WireTells'
    BY <1>1, <1>3, <1>9 DEF TunnelerInv, WireTells
<1>11. UntoldKnown'
  <2>. SUFFICES ASSUME NEW j \in ForwardKeys, Untold(j)'
                PROVE  j \in Known' <=> j \in remote
      BY <1>1 DEF UntoldKnown
  <2>1. \A n \in DOMAIN wire : n > 1 => wire[n][2] # j
    <3>. SUFFICES ASSUME NEW n \in DOMAIN wire, n > 1 PROVE wire[n][2] # j
        OBVIOUS
    <3>1. n - 1 \in DOMAIN wire' /\ wire'[n - 1] = wire[n]
        BY <1>3
    <3>. QED BY <3>1 DEF Untold
  <2>2. CASE j = k
    <3>1. 1 \in DOMAIN wire /\ LastAbout(j, 1)
      BY <1>3, <2>1, <2>2 DEF LastAbout
    <3>2. create <=> j \in remote
      BY <1>1, <1>3, <3>1 DEF TunnelerInv, WireTells
    <3>. QED BY <1>7, <2>2, <3>2
  <2>3. CASE j # k
    <3>1. Untold(j)
      BY <1>3, <2>1, <2>3 DEF Untold
    <3>2. j \in Known <=> j \in remote
      BY <1>1, <3>1 DEF TunnelerInv, UntoldKnown
    <3>. QED BY <1>7, <2>3, <3>2
  <2>. QED BY <2>2, <2>3
<1>12. Begins' /\ Activates'
    BY <1>1, <1>7 DEF Begins, Activates
<1>. QED BY <1>7, <1>8, <1>10, <1>11, <1>12 DEF TunnelerInv

LEMMA NextTunnelerInv ==
    ASSUME TunnelerInv, [TunnelerNext]_tunnelerVars
    PROVE  TunnelerInv'
<1>1. CASE UNCHANGED tunnelerVars
  <2>1. Known' = Known
    BY <1>1 DEF tunnelerVars, Known
  <2>. QED BY <1>1, <2>1 DEF tunnelerVars, TunnelerInv, TunnelerTypeOK, WireTells, LastAbout, UntoldKnown, Untold, Begins,
                            Activates, PortsAccounted
<1>2. CASE TunnelerNext
  <2>1. CASE \E k \in ForwardKeys : ServerChanges(k)
    BY <2>1, ServerChangesInv
  <2>2. CASE \E k \in ForwardKeys : UserActivates(k) \/ UserDeactivates(k)
    <3>1. LocalPorts # {}
      BY <2>2, TunnelerAssumption
    <3>. QED BY <2>2, <3>1, UserAsksInv
  <2>3. CASE \E k \in ForwardKeys, p \in LocalPorts : UserMoves(k, p)
    BY <2>3, UserAsksInv
  <2>4. CASE Dial \/ Ends \/ Lists
    BY <2>4, ProcessInv
  <2>5. CASE ServeSends \/ AskingSends \/ JoiningSends \/ PageJoins \/ PageReceives
    BY <2>5, SendersInv
  <2>6. CASE Receives \/ ServeActivates \/ CreatesListed
    BY <2>6, ReceivesInv, ServeActivatesInv, CreatesListedInv
  <2>. QED BY <1>2, <2>1, <2>2, <2>3, <2>4, <2>5, <2>6 DEF TunnelerNext, ServeStep
<1>. QED BY <1>1, <1>2

\* The tunneler knows the server's forwards once it has received all, and
\* listens at the ports of its listening listeners only, each alone: for any
\* keys and ports, however users move listeners and whatever fails
\* (tunneler/manager.go, client.go).
THEOREM ListenersStayConsistent == TunnelerSpec => []ListenersConsistent
<1>1. TunnelerInit => TunnelerInv
  <2>. SUFFICES ASSUME TunnelerInit PROVE TunnelerInv
    OBVIOUS
  <2>1. Known = {}
    BY DEF TunnelerInit, Known
  <2>. QED BY <2>1, TunnelerAssumption
          DEF TunnelerInit, TunnelerInv, TunnelerTypeOK, WireTells, UntoldKnown, Begins, Activates, PortsAccounted
<1>2. TunnelerInv /\ [TunnelerNext]_tunnelerVars => TunnelerInv'
    BY NextTunnelerInv
<1>3. TunnelerInv => ListenersConsistent
  <2>. SUFFICES ASSUME TunnelerInv PROVE ListenersConsistent
    OBVIOUS
  <2>1. MirrorsServer
    <3>. SUFFICES ASSUME serve = "loop", wire = <<>> PROVE Known = remote
      BY DEF MirrorsServer
    <3>1. \A k \in ForwardKeys : Untold(k)
      BY DEF Untold
    <3>2. todo = {} /\ Known \subseteq ForwardKeys /\ remote \subseteq ForwardKeys
      BY DEF TunnelerInv, Begins, TunnelerTypeOK, Known
    <3>. QED BY <3>1, <3>2 DEF TunnelerInv, UntoldKnown
  <2>. QED BY <2>1 DEF ListenersConsistent, TunnelerInv
<1>. QED BY <1>1, <1>2, <1>3, PTL DEF TunnelerSpec

----------------------------------------------------------------------------
(* Users. AcknowledgedKept speaks of the stored record. It is not          *)
(* inductive: the record will be replaced by the copy of whoever is about  *)
(* to save, so that copy has to hold what was acknowledged too; it does    *)
(* because only the holder of the name's mutex acknowledges anything, and  *)
(* a delete forgets. And a logged out token stays out of the record only   *)
(* because a token that is still to be stored was never stored, logged out *)
(* or signed for anybody else.                                             *)


UserChanges == [is : {"token"}, token : Nat, note : Notes] \cup [is : {"logout"}, token : Nat]
    \cup [is : {"role"}, role : RoleNames] \cup [is : {"password"}, old : Passwords, password : Passwords]
    \cup [is : {"name"}]

\* What a request will do; a change of the tokens is made alone.
Todos ==
    {s \in Seq(UserChanges) :
        Len(s) > 0 /\ \A i \in 1 .. Len(s) : s[i].is \in {"token", "logout"} => Len(s) = 1}

Creating == [at : {"create"}, password : Passwords, todo : Todos]
Updating == [at : {"lock", "read", "save"}, copy : UserRecords, todo : Todos]
Requests == {NoUserRequest} \cup Creating \cup Updating
Acknowledgements ==
    [tokens : SUBSET (Nat \X Notes), role : RoleNames \cup {NoUser}, password : Passwords \cup {NoUser}]

UsersTyped ==
    /\ user \in UserRecords \cup {NoUser}
    /\ userReq \in [UserRequests -> Requests]
    /\ tokensMade \in Nat
    /\ kept \in Acknowledgements

LockHeld == \A q \in UserRequests : userReq[q].at \in {"read", "save"} => userLock = q

\* What was acknowledged is in a record, and no token that was logged out is.
Fits(u, k, out) ==
    /\ k.tokens \subseteq u.tokens
    /\ k.role # NoUser => u.role = k.role
    /\ k.password # NoUser => u.password = k.password
    /\ \A t \in u.tokens : t[1] \notin out

KeptFits ==
    /\ user # NoUser => Fits(user, kept, loggedOut)
    /\ user = NoUser => kept = NothingKept
    /\ \A q \in UserRequests : userReq[q].at = "save" => Fits(userReq[q].copy, kept, loggedOut)

AddsToken(q) == userReq[q].at # "rest" /\ Now(q).is = "token"
DropsToken(q) == userReq[q].at # "rest" /\ Now(q).is = "logout"

\* Tokens of the record, of a copy that will be saved, or logged out.
UsedToken(t) ==
    \/ t \in loggedOut
    \/ user # NoUser /\ \E n \in Notes : <<t, n>> \in user.tokens
    \/ \E q \in UserRequests :
        \/ DropsToken(q) /\ Now(q).token = t
        \/ userReq[q].at = "save" /\ \E n \in Notes : <<t, n>> \in userReq[q].copy.tokens

TokensApart ==
    /\ \A t \in loggedOut : t \in Nat
    /\ \A t \in Nat : UsedToken(t) => t <= tokensMade
    /\ \A q \in UserRequests : AddsToken(q) =>
        /\ Now(q).token \in 0 .. tokensMade /\ ~UsedToken(Now(q).token)
        /\ \A p \in UserRequests \ {q} : AddsToken(p) => Now(p).token # Now(q).token

UsersInv == UsersTyped /\ LockHeld /\ KeptFits /\ TokensApart

----------------------------------------------------------------------------
(* What the helpers of Users make.                                         *)

\* Requests are what the actions store.
LEMMA RequestsTyped ==
    /\ NoUserRequest \in Requests
    /\ \A u \in UserRecords, s \in Todos : [at |-> "lock", copy |-> u, todo |-> s] \in Requests
    /\ \A p \in Passwords, s \in Todos : [at |-> "create", password |-> p, todo |-> s] \in Requests
BY DEF Requests, Updating, Creating

\* A request is one of its three kinds, told apart by where it is.
LEMMA RequestCases ==
    ASSUME NEW r \in Requests
    PROVE  /\ r.at \in {"rest", "create", "lock", "read", "save"}
           /\ r.at \in {"lock", "read", "save"} => r \in Updating
           /\ r.at = "create" => r \in Creating
           /\ r.at = "rest" => r = NoUserRequest
BY DEF Requests, Creating, Updating, NoUserRequest

\* What remains when a request steps on.
LEMMA UpdatingSteps ==
    ASSUME NEW r \in Updating
    PROVE  /\ r.copy \in UserRecords /\ r.todo \in Todos /\ r.todo[1] \in UserChanges
           /\ [r EXCEPT !.at = "read"] = [at |-> "read", copy |-> r.copy, todo |-> r.todo]
           /\ [r EXCEPT !.at = "read"] \in Requests
BY DEF Updating, Todos, Requests

LEMMA Copied ==
    ASSUME NEW r \in Updating, NEW u \in UserRecords
    PROVE  /\ [r EXCEPT !.at = "save", !.copy = u] \in Requests
           /\ [r EXCEPT !.at = "save", !.copy = u].at = "save"
           /\ [r EXCEPT !.at = "save", !.copy = u].copy = u
           /\ [r EXCEPT !.at = "save", !.copy = u].todo = r.todo
BY DEF Updating, Requests

\* One change is something to do.
LEMMA OneTodo ==
    ASSUME NEW c \in UserChanges
    PROVE  <<c>> \in Todos
BY DEF Todos

\* So are several that do not touch the tokens.
Plain == {c \in UserChanges : c.is \notin {"token", "logout"}}

LEMMA PlainTodos ==
    ASSUME NEW s \in Seq(Plain), Len(s) > 0
    PROVE  s \in Todos
<1>1. s \in Seq(UserChanges)
    BY DEF Plain
<1>2. \A i \in 1 .. Len(s) : s[i] \in Plain
    OBVIOUS
<1>. QED BY <1>1, <1>2 DEF Plain, Todos

LEMMA ThreeTodos ==
    ASSUME NEW a \in Plain, NEW m \in Seq(Plain), NEW c \in Plain
    PROVE  <<a>> \o m \o <<c>> \in Seq(Plain) /\ Len(<<a>> \o m \o <<c>>) > 0 /\ (<<a>> \o m \o <<c>>)[1] = a
OBVIOUS

\* So is what UpdateUser does, for an administrator or for the user.
LEMMA UpdateTodos ==
    ASSUME NEW r \in RoleNames, NEW p \in Passwords
    PROVE  LET first == [is |-> "name"]
               second == [is |-> "role", role |-> r]
               third == [is |-> "password", old |-> p, password |-> 3 - p]
           IN  \A m \in {<<second>>, <<>>} :
                   <<first>> \o m \o <<third>> \in Todos /\ (<<first>> \o m \o <<third>>)[1] = first
<1> DEFINE first == [is |-> "name"]
           second == [is |-> "role", role |-> r]
           third == [is |-> "password", old |-> p, password |-> 3 - p]
<1>1. first \in Plain /\ second \in Plain /\ third \in Plain
    BY DEF Plain, UserChanges, Passwords
<1> HIDE DEF first, second, third
<1>2. ASSUME NEW m \in {<<second>>, <<>>}
      PROVE  <<first>> \o m \o <<third>> \in Todos /\ (<<first>> \o m \o <<third>>)[1] = first
    <2>1. <<second>> \in Seq(Plain) /\ <<>> \in Seq(Plain)
        BY <1>1
    <2>2. m \in Seq(Plain)
        BY <1>2, <2>1
    <2>. QED BY <1>1, <2>2, ThreeTodos, PlainTodos
<1>. QED BY <1>2 DEF first, second, third

\* What is left to do after the first change never touches the tokens.
LEMMA LaterTodos ==
    ASSUME NEW s \in Todos, NEW l, l = [i \in 1 .. Len(s) - 1 |-> s[i + 1]], l # <<>>
    PROVE  l \in Todos /\ l[1].is \notin {"token", "logout"}
<1>0. s \in Seq(UserChanges) /\ Len(s) \in Nat /\ Len(s) > 0
    BY DEF Todos
<1>1. l \in Seq(UserChanges) /\ Len(l) = Len(s) - 1
  <2>1. Len(s) - 1 \in Nat /\ DOMAIN l = 1 .. (Len(s) - 1)
    BY <1>0
  <2>2. \A i \in 1 .. (Len(s) - 1) : l[i] \in UserChanges
    BY <1>0
  <2>. QED BY <2>1, <2>2
<1>2. Len(s) > 1
  <2>1. Len(s) = 1 => l = <<>>
    BY <1>0, <1>1
  <2>2. Len(s) # 1
    BY <2>1
  <2>. QED BY <1>0, <2>2
<1>3. \A i \in 1 .. Len(s) : s[i].is \notin {"token", "logout"}
    BY <1>2 DEF Todos
<1>4. \A i \in 1 .. Len(l) : l[i].is \notin {"token", "logout"}
  <2>. SUFFICES ASSUME NEW i \in 1 .. Len(l) PROVE l[i].is \notin {"token", "logout"}
      OBVIOUS
  <2>1. i + 1 \in 1 .. Len(s) /\ l[i] = s[i + 1]
      BY <1>0, <1>1
  <2>. QED BY <1>3, <2>1
<1>5. Len(l) > 0 /\ 1 \in 1 .. Len(l)
    BY <1>0, <1>1, <1>2
<1>. QED BY <1>1, <1>4, <1>5 DEF Todos

\* A change of a record gives a record, and what is acknowledged is one.
LEMMA ChangedTyped ==
    ASSUME NEW u \in UserRecords, NEW c \in UserChanges
    PROVE  Changed(u, c) \in UserRecords
BY DEF UserRecords, UserChanges, Changed, AddToken, DeleteToken, SetRole, UpdatePassword, Passwords, RoleNames

LEMMA AcknowledgedTyped ==
    ASSUME kept \in Acknowledgements, NEW c \in UserChanges
    PROVE  Acknowledged(c) \in Acknowledgements
BY DEF Acknowledgements, UserChanges, Acknowledged

\* A change adds its token at most.
LEMMA ChangedTokens ==
    ASSUME NEW u \in UserRecords, NEW c \in UserChanges, NEW x \in Changed(u, c).tokens
    PROVE  x \in u.tokens \/ (c.is = "token" /\ x = <<c.token, c.note>>)
BY DEF UserRecords, UserChanges, Changed, AddToken, DeleteToken, SetRole, UpdatePassword

\* The heart of the matter: who saves a copy that fits what was acknowledged
\* leaves a record that fits what is acknowledged then.
LEMMA SavedFits ==
    ASSUME NEW u \in UserRecords, NEW c \in UserChanges, kept \in Acknowledgements, Fits(u, kept, loggedOut),
           c.is = "token" => c.token \notin loggedOut
    PROVE  Fits(Changed(u, c), Acknowledged(c),
                IF c.is = "logout" THEN loggedOut \cup {c.token} ELSE loggedOut)
<1>1. CASE c.is = "token"
    BY <1>1 DEF Fits, Changed, Acknowledged, AddToken, UserRecords, Acknowledgements
<1>2. CASE c.is = "logout"
    BY <1>2 DEF Fits, Changed, Acknowledged, DeleteToken, UserRecords, Acknowledgements
<1>3. CASE c.is = "role"
    BY <1>3 DEF Fits, Changed, Acknowledged, SetRole, UserRecords, Acknowledgements
<1>4. CASE c.is = "password"
    BY <1>4 DEF Fits, Changed, Acknowledged, UpdatePassword, UserRecords, Acknowledgements
<1>5. CASE c.is = "name"
    BY <1>5 DEF Fits, Changed, Acknowledged
<1>. QED BY <1>1, <1>2, <1>3, <1>4, <1>5 DEF UserChanges

----------------------------------------------------------------------------
\* The initial state satisfies the inductive invariant.
LEMMA InitUsersInv == UsersInit => UsersInv
<1> SUFFICES ASSUME UsersInit PROVE UsersInv
    OBVIOUS
<1>1. user \in UserRecords \cup {NoUser}
    BY DEF UsersInit, NewUser, UserRecords, Passwords, RoleNames
<1>2. kept \in Acknowledgements
    BY DEF UsersInit, NothingKept, Acknowledgements
<1>3. userReq \in [UserRequests -> Requests] /\ tokensMade \in Nat
    BY RequestsTyped DEF UsersInit
<1>4. LockHeld /\ KeptFits
    BY DEF UsersInit, LockHeld, KeptFits, Fits, NothingKept, NoUserRequest, NewUser
<1>5. TokensApart
    BY DEF UsersInit, TokensApart, UsedToken, AddsToken, DropsToken, NoUserRequest, NewUser
<1>. QED BY <1>1, <1>2, <1>3, <1>4, <1>5 DEF UsersInv, UsersTyped

\* The other requests are where they were.
OthersWait(q) == \A p \in UserRequests \ {q} : userReq'[p] = userReq[p]

\* The steps of User.update, as the request sees them.
LEMMA Locking ==
    ASSUME UsersTyped, NEW q \in UserRequests, LocksUser(q)
    PROVE  /\ userReq'[q].at = "read" /\ userReq'[q].todo = userReq[q].todo /\ OthersWait(q)
           /\ userReq[q].at = "lock"
<1>1. userReq[q] \in Updating
    BY RequestCases DEF LocksUser, UsersTyped
<1>. QED BY <1>1, UpdatingSteps DEF LocksUser, UsersTyped, Puts, OthersWait

LEMMA Rereading ==
    ASSUME UsersTyped, NEW q \in UserRequests, RereadsUser(q), user # NoUser
    PROVE  /\ userReq'[q].at = "save" /\ userReq'[q].copy = user /\ userReq'[q].todo = userReq[q].todo
           /\ OthersWait(q) /\ userReq[q].at = "read"
<1>1. userReq[q] \in Updating /\ user \in UserRecords /\ userReq[q].at = "read"
    BY RequestCases DEF RereadsUser, UsersTyped
<1>2. userReq'[q] = [userReq[q] EXCEPT !.at = "save", !.copy = user] /\ OthersWait(q)
    BY DEF RereadsUser, UsersTyped, Puts, OthersWait
<1>3. /\ [userReq[q] EXCEPT !.at = "save", !.copy = user].at = "save"
      /\ [userReq[q] EXCEPT !.at = "save", !.copy = user].copy = user
      /\ [userReq[q] EXCEPT !.at = "save", !.copy = user].todo = userReq[q].todo
    BY <1>1, Copied
<1>. QED BY <1>1, <1>2, <1>3

LEMMA Saving ==
    ASSUME UsersTyped, NEW q \in UserRequests, SavesUser(q)
    PROVE  /\ userReq[q].copy \in UserRecords /\ Now(q) \in UserChanges
           /\ Changed(userReq[q].copy, Now(q)) \in UserRecords
           /\ OthersWait(q)
           /\ \/ userReq'[q].at = "rest"
              \/ userReq'[q].at = "lock" /\ userReq'[q].todo[1].is \notin {"token", "logout"}
<1>1. userReq[q] \in Updating
    BY RequestCases DEF SavesUser, UsersTyped
<1>2. userReq[q].copy \in UserRecords /\ Now(q) \in UserChanges /\ Changed(userReq[q].copy, Now(q)) \in UserRecords
    BY <1>1, UpdatingSteps, ChangedTyped DEF Now
<1>3. Later(q) # <<>> => Later(q)[1].is \notin {"token", "logout"}
    BY <1>1, UpdatingSteps, LaterTodos DEF Later
<1>4. OthersWait(q)
    BY DEF SavesUser, UsersTyped, Puts, OthersWait
<1>5. CASE Later(q) = <<>> \/ (user = NoUser /\ Now(q).is # "role")
    BY <1>2, <1>4, <1>5 DEF SavesUser, UsersTyped, Puts, NoUserRequest
<1>6. CASE ~(Later(q) = <<>> \/ (user = NoUser /\ Now(q).is # "role"))
    BY <1>2, <1>3, <1>4, <1>6 DEF SavesUser, UsersTyped, Puts
<1>. QED BY <1>5, <1>6

\* Nothing becomes a used token by what keeps the record, what logs nothing
\* out and what reads the record again.
LEMMA UsedFrame ==
    ASSUME NEW q \in UserRequests, OthersWait(q), loggedOut' = loggedOut,
           user' # NoUser => user' = user \/ user'.tokens = {},
           DropsToken(q)' => DropsToken(q) /\ Now(q)' = Now(q),
           userReq'[q].at = "save" =>
               \/ userReq[q].at = "save" /\ userReq'[q].copy = userReq[q].copy
               \/ user # NoUser /\ userReq'[q].copy = user
    PROVE  \A t \in Nat : UsedToken(t)' => UsedToken(t)
BY DEF UsedToken, DropsToken, Now, OthersWait

LEMMA UpdatesBegun ==
    ASSUME UsersTyped, NEW q \in UserRequests, NEW t \in 1 .. MaxTokens, NEW r \in RoleNames, NEW p \in Passwords,
           UpdateUser(q, t, r, p)
    PROVE  /\ userReq'[q] \in Requests /\ userReq' = [userReq EXCEPT ![q] = userReq'[q]]
           /\ userReq'[q].at = "lock" /\ userReq'[q].todo[1] = [is |-> "name"]
<1> DEFINE m == IF user.role = "admin" THEN <<[is |-> "role", role |-> r]>> ELSE <<>>
           ahead == <<[is |-> "name"]>> \o m \o <<[is |-> "password", old |-> p, password |-> 3 - p]>>
<1>1. ahead \in Todos /\ ahead[1] = [is |-> "name"]
    BY UpdateTodos
<1>2. userReq' = [userReq EXCEPT ![q] = [at |-> "lock", copy |-> user, todo |-> ahead]]
    BY DEF UpdateUser, Puts
<1>3. user \in UserRecords
    BY DEF UpdateUser, Auth, UsersTyped
<1> HIDE DEF ahead
<1>. QED BY <1>1, <1>2, <1>3, RequestsTyped DEF UsersTyped

\* What keeps the tokens apart: a step of q makes nothing a used token but the
\* one that q added and does not add any more, and adds what it added or the
\* next token.
LEMMA TokensFrame ==
    ASSUME UsersTyped, TokensApart, NEW q \in UserRequests, OthersWait(q),
           tokensMade' \in Nat, tokensMade' >= tokensMade, \A x \in loggedOut' : x \in Nat,
           \A t \in Nat : UsedToken(t)' => UsedToken(t) \/ (AddsToken(q) /\ ~AddsToken(q)' /\ t = Now(q).token),
           AddsToken(q)' => \/ AddsToken(q) /\ Now(q)' = Now(q)
                            \/ Now(q)'.token = tokensMade + 1 /\ tokensMade' = tokensMade + 1
    PROVE  TokensApart'
<1>1. \A p \in UserRequests \ {q} : (AddsToken(p)' <=> AddsToken(p)) /\ Now(p)' = Now(p)
    BY DEF OthersWait, AddsToken, Now
<1>2. \A t \in Nat : UsedToken(t)' => t <= tokensMade'
    BY DEF TokensApart, UsersTyped
<1>3. \A p \in UserRequests : AddsToken(p)' =>
            Now(p)'.token \in 0 .. tokensMade' /\ \A t \in Nat : t = Now(p)'.token => ~UsedToken(t)'
    BY <1>1 DEF TokensApart, UsersTyped
<1>4. \A p, r \in UserRequests : p # r /\ AddsToken(p)' /\ AddsToken(r)' => Now(p)'.token # Now(r)'.token
    BY <1>1 DEF TokensApart, UsersTyped
<1>. QED BY <1>2, <1>3, <1>4 DEF TokensApart

\* Every step keeps the types and the order of what a request will do.
LEMMA TypedStep ==
    ASSUME UsersInv, [UsersNext]_userVars
    PROVE  UsersTyped'
<1> USE DEF UsersInv, UsersTyped, Puts
<1>1. CASE UNCHANGED userVars
    BY <1>1 DEF userVars
<1>2. CASE UsersCrash
    BY <1>2, RequestsTyped DEF UsersCrash
<1>3. ASSUME NEW q \in UserRequests,
             StoresUser(q)
      PROVE UsersTyped'
    <2>1. userReq[q] \in Creating
        BY <1>3, RequestCases DEF StoresUser
    <2>2. NewUser(userReq[q].password) \in UserRecords /\ userReq[q].todo \in Todos
        BY <2>1 DEF Creating, NewUser, UserRecords, RoleNames
    <2>. QED BY <1>3, <2>2, RequestsTyped DEF StoresUser
<1>4. ASSUME NEW q \in UserRequests,
             PasswordRefused(q)
      PROVE UsersTyped'
    BY <1>4, RequestsTyped DEF PasswordRefused
<1>5. ASSUME NEW q \in UserRequests,
             LocksUser(q)
      PROVE UsersTyped'
    <2>1. [userReq[q] EXCEPT !.at = "read"] \in Requests
        BY <1>5, RequestCases, UpdatingSteps DEF LocksUser
    <2>. QED BY <1>5, <2>1 DEF LocksUser
<1>6. ASSUME NEW q \in UserRequests,
             RereadsUser(q)
      PROVE UsersTyped'
    <2>1. user # NoUser => [userReq[q] EXCEPT !.at = "save", !.copy = user] \in Requests
        BY <1>6, RequestCases, Copied DEF RereadsUser
    <2>. QED BY <1>6, <2>1, RequestsTyped DEF RereadsUser
<1>7. ASSUME NEW q \in UserRequests,
             SavesUser(q)
      PROVE UsersTyped'
    <2>1. userReq[q] \in Updating
        BY <1>7, RequestCases DEF SavesUser
    <2>2. userReq[q].copy \in UserRecords /\ Changed(userReq[q].copy, Now(q)) \in UserRecords
          /\ Acknowledged(Now(q)) \in Acknowledgements
        BY <2>1, UpdatingSteps, ChangedTyped, AcknowledgedTyped DEF Now
    <2>3. Later(q) # <<>> => Later(q) \in Todos
        BY <2>1, UpdatingSteps, LaterTodos DEF Later
    <2>. QED BY <1>7, <2>2, <2>3, RequestsTyped DEF SavesUser
<1>8. ASSUME NEW q \in UserRequests,
             DeleteUser(q)
      PROVE UsersTyped'
    <2>1. NothingKept \in Acknowledgements
        BY DEF NothingKept, Acknowledgements
    <2>. QED BY <1>8, <2>1 DEF DeleteUser, Begun
<1>9. ASSUME NEW q \in UserRequests, NEW p \in Passwords, NEW n \in Notes,
             Signup(q, p, n)
      PROVE UsersTyped'
    <2>1. [is |-> "token", token |-> tokensMade + 1, note |-> n] \in UserChanges
        BY <1>9 DEF UserChanges
    <2>. QED BY <1>9, <2>1, OneTodo, RequestsTyped DEF Signup
<1>10. ASSUME NEW q \in UserRequests, NEW p \in Passwords, NEW n \in Notes,
             Login(q, p, n)
      PROVE UsersTyped'
    <2>1. [is |-> "token", token |-> tokensMade + 1, note |-> n] \in UserChanges
        BY <1>10 DEF UserChanges
    <2>. QED BY <1>10, <2>1, OneTodo, RequestsTyped DEF Login, SignsToken
<1>11. ASSUME NEW q \in UserRequests, NEW p \in Passwords, NEW r \in RoleNames,
             CreateUser(q, p, r)
      PROVE UsersTyped'
    <2>1. [is |-> "role", role |-> r] \in UserChanges
        BY <1>11 DEF UserChanges
    <2>. QED BY <1>11, <2>1, OneTodo, RequestsTyped DEF CreateUser
<1>12. ASSUME NEW q \in UserRequests, NEW t \in 1 .. MaxTokens,
             CreateUserToken(q, t)
      PROVE UsersTyped'
    <2>1. "signed" \in Notes
        BY DEF Notes
    <2>2. [is |-> "token", token |-> tokensMade + 1, note |-> "signed"] \in UserChanges
        BY <2>1 DEF UserChanges
    <2>3. user \in UserRecords
        BY <1>12 DEF CreateUserToken, Auth
    <2>. QED BY <1>12, <2>2, <2>3, OneTodo, RequestsTyped DEF CreateUserToken, SignsToken
<1>13. ASSUME NEW q \in UserRequests, NEW t \in 1 .. MaxTokens,
             Logout(q, t)
      PROVE UsersTyped'
    <2>1. t \in Nat
        BY UsersAssumption
    <2>2. [is |-> "logout", token |-> t] \in UserChanges
        BY <2>1 DEF UserChanges
    <2>. QED BY <1>13, <2>2, OneTodo, RequestsTyped DEF Logout, Auth
<1>14. ASSUME NEW q \in UserRequests, NEW t \in 1 .. MaxTokens, NEW r \in RoleNames, NEW p \in Passwords,
             UpdateUser(q, t, r, p)
      PROVE UsersTyped'
    BY <1>14, UpdatesBegun DEF UpdateUser
<1> HIDE DEF UsersInv, UsersTyped, Puts
<1>. QED
    BY <1>1, <1>2, <1>3, <1>4, <1>5, <1>6, <1>7, <1>8, <1>9, <1>10, <1>11, <1>12, <1>13, <1>14 DEF UsersNext, UpdateStep

\* The mutex has one holder, which reads and saves.
LEMMA LockStep ==
    ASSUME UsersInv, [UsersNext]_userVars
    PROVE  LockHeld'
<1> USE DEF UsersInv, UsersTyped, LockHeld, NoUserRequest, OthersWait, Puts
<1>1. CASE UNCHANGED userVars
    BY <1>1 DEF userVars
<1>2. CASE UsersCrash
    BY <1>2 DEF UsersCrash
<1>3. ASSUME NEW q \in UserRequests,
             StoresUser(q)
      PROVE LockHeld'
    BY <1>3 DEF StoresUser
<1>4. ASSUME NEW q \in UserRequests,
             PasswordRefused(q)
      PROVE LockHeld'
    BY <1>4 DEF PasswordRefused
<1>5. ASSUME NEW q \in UserRequests,
             LocksUser(q)
      PROVE LockHeld'
    BY <1>5, UsersAssumption, Locking DEF LocksUser
<1>6. ASSUME NEW q \in UserRequests,
             RereadsUser(q)
      PROVE LockHeld'
    <2>1. CASE user = NoUser
        BY <1>6, <2>1 DEF RereadsUser
    <2>2. CASE user # NoUser
        BY <1>6, <2>2, Rereading DEF RereadsUser
    <2>. QED BY <2>1, <2>2
<1>7. ASSUME NEW q \in UserRequests,
             SavesUser(q)
      PROVE LockHeld'
    BY <1>7 DEF SavesUser
<1>8. ASSUME NEW q \in UserRequests,
             DeleteUser(q)
      PROVE LockHeld'
    BY <1>8 DEF DeleteUser, Begun
<1>9. ASSUME NEW q \in UserRequests, NEW p \in Passwords, NEW n \in Notes,
             Signup(q, p, n)
      PROVE LockHeld'
    BY <1>9 DEF Signup, Begun
<1>10. ASSUME NEW q \in UserRequests, NEW p \in Passwords, NEW n \in Notes,
             Login(q, p, n)
      PROVE LockHeld'
    BY <1>10 DEF Login, Begun, SignsToken
<1>11. ASSUME NEW q \in UserRequests, NEW p \in Passwords, NEW r \in RoleNames,
             CreateUser(q, p, r)
      PROVE LockHeld'
    BY <1>11 DEF CreateUser, Begun
<1>12. ASSUME NEW q \in UserRequests, NEW t \in 1 .. MaxTokens,
             CreateUserToken(q, t)
      PROVE LockHeld'
    BY <1>12 DEF CreateUserToken, Begun, SignsToken, Auth
<1>13. ASSUME NEW q \in UserRequests, NEW t \in 1 .. MaxTokens,
             Logout(q, t)
      PROVE LockHeld'
    BY <1>13 DEF Logout, Begun, Auth
<1>14. ASSUME NEW q \in UserRequests, NEW t \in 1 .. MaxTokens, NEW r \in RoleNames, NEW p \in Passwords,
             UpdateUser(q, t, r, p)
      PROVE LockHeld'
    BY <1>14 DEF UpdateUser, Begun, Auth
<1> HIDE DEF UsersInv, UsersTyped, LockHeld, NoUserRequest, OthersWait, Puts
<1>. QED
    BY <1>1, <1>2, <1>3, <1>4, <1>5, <1>6, <1>7, <1>8, <1>9, <1>10, <1>11, <1>12, <1>13, <1>14 DEF UsersNext, UpdateStep

\* What was acknowledged stays in the record and in what will replace it.
LEMMA KeptStep ==
    ASSUME UsersInv, [UsersNext]_userVars
    PROVE  KeptFits'
<1> USE DEF UsersInv, UsersTyped, LockHeld, KeptFits, NoUserRequest, OthersWait, Puts
<1>1. CASE UNCHANGED userVars
    BY <1>1 DEF userVars
<1>2. CASE UsersCrash
    BY <1>2 DEF UsersCrash
<1>3. ASSUME NEW q \in UserRequests,
             StoresUser(q)
      PROVE KeptFits'
    <2>1. user = NoUser => Fits(NewUser(userReq[q].password), kept, loggedOut)
        BY DEF Fits, NewUser, NothingKept
    <2>. QED BY <1>3, <2>1 DEF StoresUser
<1>4. ASSUME NEW q \in UserRequests,
             PasswordRefused(q)
      PROVE KeptFits'
    BY <1>4 DEF PasswordRefused
<1>5. ASSUME NEW q \in UserRequests,
             LocksUser(q)
      PROVE KeptFits'
    BY <1>5, Locking DEF LocksUser
<1>6. ASSUME NEW q \in UserRequests,
             RereadsUser(q)
      PROVE KeptFits'
    <2>1. CASE user = NoUser
        BY <1>6, <2>1 DEF RereadsUser
    <2>2. CASE user # NoUser
        BY <1>6, <2>2, Rereading DEF RereadsUser
    <2>. QED BY <2>1, <2>2
<1>7. ASSUME NEW q \in UserRequests,
             SavesUser(q)
      PROVE KeptFits'
    <2>1. userReq[q].copy \in UserRecords /\ Now(q) \in UserChanges /\ Fits(userReq[q].copy, kept, loggedOut)
        BY <1>7, Saving DEF SavesUser
    <2>2. Now(q).is = "token" => Now(q).token \notin loggedOut
        BY <1>7 DEF SavesUser, TokensApart, AddsToken, UsedToken
    <2>3. \A p \in UserRequests : userReq'[p].at # "save"
        BY <1>7, Saving, UsersAssumption DEF SavesUser
    <2>4. CASE user = NoUser
        BY <1>7, <2>3, <2>4 DEF SavesUser
    <2>5. CASE user # NoUser
        <3>1. Fits(user, kept, loggedOut)'
            BY <1>7, <2>1, <2>2, <2>5, SavedFits DEF SavesUser
        <3>. QED BY <1>7, <2>3, <2>5, <3>1, Saving, UsersAssumption DEF SavesUser
    <2>. QED BY <2>4, <2>5
<1>8. ASSUME NEW q \in UserRequests,
             DeleteUser(q)
      PROVE KeptFits'
    BY <1>8 DEF DeleteUser, Fits, NothingKept
<1>9. ASSUME NEW q \in UserRequests, NEW p \in Passwords, NEW n \in Notes,
             Signup(q, p, n)
      PROVE KeptFits'
    BY <1>9 DEF Signup, Begun
<1>10. ASSUME NEW q \in UserRequests, NEW p \in Passwords, NEW n \in Notes,
             Login(q, p, n)
      PROVE KeptFits'
    BY <1>10 DEF Login, Begun, SignsToken
<1>11. ASSUME NEW q \in UserRequests, NEW p \in Passwords, NEW r \in RoleNames,
             CreateUser(q, p, r)
      PROVE KeptFits'
    BY <1>11 DEF CreateUser, Begun
<1>12. ASSUME NEW q \in UserRequests, NEW t \in 1 .. MaxTokens,
             CreateUserToken(q, t)
      PROVE KeptFits'
    BY <1>12 DEF CreateUserToken, Begun, SignsToken, Auth
<1>13. ASSUME NEW q \in UserRequests, NEW t \in 1 .. MaxTokens,
             Logout(q, t)
      PROVE KeptFits'
    BY <1>13 DEF Logout, Begun, Auth
<1>14. ASSUME NEW q \in UserRequests, NEW t \in 1 .. MaxTokens, NEW r \in RoleNames, NEW p \in Passwords,
             UpdateUser(q, t, r, p)
      PROVE KeptFits'
    BY <1>14 DEF UpdateUser, Begun, Auth
<1> HIDE DEF UsersInv, UsersTyped, LockHeld, KeptFits, NoUserRequest, OthersWait, Puts
<1>. QED
    BY <1>1, <1>2, <1>3, <1>4, <1>5, <1>6, <1>7, <1>8, <1>9, <1>10, <1>11, <1>12, <1>13, <1>14 DEF UsersNext, UpdateStep

\* A token that is still to be stored is nobody else's.
LEMMA TokensStep ==
    ASSUME UsersInv, [UsersNext]_userVars
    PROVE  TokensApart'
<1> USE DEF UsersInv, UsersTyped, Puts
<1>1. CASE UNCHANGED userVars
    BY <1>1 DEF userVars, UsedToken, AddsToken, DropsToken, Now, TokensApart
<1>2. CASE UsersCrash
    BY <1>2 DEF UsersCrash, NoUserRequest, UsedToken, AddsToken, DropsToken, Now, TokensApart
<1>3. ASSUME NEW q \in UserRequests,
             StoresUser(q)
      PROVE TokensApart'
    <2>1. OthersWait(q) /\ loggedOut' = loggedOut /\ tokensMade' = tokensMade
        BY <1>3 DEF StoresUser, OthersWait
    <2>2. userReq'[q].at \in {"rest", "lock"} /\ (userReq'[q].at = "lock" => userReq'[q].todo = userReq[q].todo)
        BY <1>3 DEF StoresUser, NoUserRequest
    <2>3. user' = user \/ user'.tokens = {}
        BY <1>3 DEF StoresUser, NewUser
    <2>4. (AddsToken(q)' => AddsToken(q) /\ Now(q)' = Now(q)) /\ (DropsToken(q)' => DropsToken(q) /\ Now(q)' = Now(q))
        BY <1>3, <2>2 DEF StoresUser, AddsToken, DropsToken, Now
    <2>5. \A t \in Nat : UsedToken(t)' => UsedToken(t)
        BY <2>1, <2>2, <2>3, <2>4, UsedFrame
    <2>. QED BY <2>1, <2>4, <2>5, TokensFrame DEF TokensApart
<1>4. ASSUME NEW q \in UserRequests,
             PasswordRefused(q)
      PROVE TokensApart'
    <2>1. OthersWait(q) /\ tokensMade' \in Nat /\ tokensMade' >= tokensMade /\ \A x \in loggedOut' : x \in Nat
        BY <1>4 DEF PasswordRefused, TokensApart, OthersWait
    <2>2. \A t \in Nat : UsedToken(t)' => UsedToken(t)
        BY <1>4, <2>1 DEF PasswordRefused, UsedToken, DropsToken, Now, OthersWait, NoUserRequest
    <2>3. ~AddsToken(q)'
        BY <1>4 DEF PasswordRefused, AddsToken, Now, NoUserRequest
    <2>. QED BY <2>1, <2>2, <2>3, TokensFrame
<1>5. ASSUME NEW q \in UserRequests,
             LocksUser(q)
      PROVE TokensApart'
    <2>1. OthersWait(q) /\ tokensMade' \in Nat /\ tokensMade' >= tokensMade /\ \A x \in loggedOut' : x \in Nat
        BY <1>5, Locking DEF LocksUser, TokensApart, OthersWait
    <2>2. \A t \in Nat : UsedToken(t)' => UsedToken(t)
        BY <1>5, <2>1, Locking DEF LocksUser, UsedToken, DropsToken, Now, OthersWait, NoUserRequest
    <2>3. AddsToken(q)' => AddsToken(q) /\ Now(q)' = Now(q)
        BY <1>5, Locking DEF LocksUser, AddsToken, Now, NoUserRequest
    <2>. QED BY <2>1, <2>2, <2>3, TokensFrame
<1>6. ASSUME NEW q \in UserRequests,
             RereadsUser(q)
      PROVE TokensApart'
    <2>1. OthersWait(q) /\ loggedOut' = loggedOut /\ tokensMade' = tokensMade /\ user' = user
        BY <1>6 DEF RereadsUser, OthersWait
    <2>2. \/ userReq'[q].at = "rest"
          \/ user # NoUser /\ userReq'[q].copy = user /\ userReq'[q].todo = userReq[q].todo /\ userReq[q].at = "read"
        <3>1. CASE user = NoUser
            BY <1>6, <3>1 DEF RereadsUser, NoUserRequest
        <3>2. CASE user # NoUser
            BY <1>6, <3>2, Rereading
        <3>. QED BY <3>1, <3>2
    <2>3. (AddsToken(q)' => AddsToken(q) /\ Now(q)' = Now(q)) /\ (DropsToken(q)' => DropsToken(q) /\ Now(q)' = Now(q))
        BY <2>2 DEF AddsToken, DropsToken, Now
    <2>4. \A t \in Nat : UsedToken(t)' => UsedToken(t)
        BY <2>1, <2>2, <2>3, UsedFrame
    <2>. QED BY <2>1, <2>3, <2>4, TokensFrame DEF TokensApart
<1>7. ASSUME NEW q \in UserRequests,
             SavesUser(q)
      PROVE TokensApart'
    <2>1. OthersWait(q) /\ tokensMade' = tokensMade /\ ~AddsToken(q)' /\ ~DropsToken(q)' /\ userReq'[q].at # "save"
        BY <1>7, Saving DEF SavesUser, AddsToken, DropsToken, Now
    <2>2. \A x \in loggedOut' : x \in Nat
        BY <1>7, Saving DEF SavesUser, TokensApart, UserChanges
    <2>3. ASSUME NEW t \in Nat, UsedToken(t)'
          PROVE  UsedToken(t) \/ (AddsToken(q) /\ t = Now(q).token)
        <3>1. CASE t \in loggedOut'
            BY <1>7, <3>1 DEF SavesUser, UsedToken, DropsToken
        <3>2. CASE user' # NoUser /\ \E n \in Notes : <<t, n>> \in user'.tokens
            <4>1. CASE user = NoUser
                BY <1>7, <3>2, <4>1 DEF SavesUser, UsedToken
            <4>2. CASE user # NoUser
                <5>1. PICK n \in Notes : <<t, n>> \in Changed(userReq[q].copy, Now(q)).tokens
                    BY <1>7, <3>2, <4>2 DEF SavesUser
                <5>2. <<t, n>> \in userReq[q].copy.tokens \/ (Now(q).is = "token" /\ t = Now(q).token)
                    BY <1>7, <5>1, Saving, ChangedTokens
                <5>. QED BY <1>7, <5>2 DEF SavesUser, UsedToken, AddsToken
            <4>. QED BY <4>1, <4>2
        <3>3. CASE \E p \in UserRequests :
                     \/ DropsToken(p)' /\ Now(p)'.token = t
                     \/ userReq'[p].at = "save" /\ \E n \in Notes : <<t, n>> \in userReq'[p].copy.tokens
            BY <2>1, <3>3 DEF OthersWait, UsedToken, DropsToken, Now
        <3>. QED BY <2>3, <3>1, <3>2, <3>3 DEF UsedToken
    <2>. QED BY <2>1, <2>2, <2>3, TokensFrame
<1>8. ASSUME NEW q \in UserRequests,
             DeleteUser(q)
      PROVE TokensApart'
    BY <1>8 DEF DeleteUser, UsedToken, AddsToken, DropsToken, Now, TokensApart
<1>9. ASSUME NEW q \in UserRequests, NEW p \in Passwords, NEW n \in Notes,
             Signup(q, p, n)
      PROVE TokensApart'
    <2>1. OthersWait(q) /\ tokensMade' \in Nat /\ tokensMade' >= tokensMade /\ \A x \in loggedOut' : x \in Nat
        BY <1>9 DEF Signup, Begun, TokensApart, OthersWait
    <2>2. \A t \in Nat : UsedToken(t)' => UsedToken(t)
        BY <1>9, <2>1 DEF Signup, Begun, UsedToken, DropsToken, Now, OthersWait, NoUserRequest
    <2>3. AddsToken(q)' => Now(q)'.token = tokensMade + 1 /\ tokensMade' = tokensMade + 1
        BY <1>9 DEF Signup, Begun, AddsToken, Now, NoUserRequest
    <2>. QED BY <2>1, <2>2, <2>3, TokensFrame
<1>10. ASSUME NEW q \in UserRequests, NEW p \in Passwords, NEW n \in Notes,
             Login(q, p, n)
      PROVE TokensApart'
    <2>1. OthersWait(q) /\ tokensMade' \in Nat /\ tokensMade' >= tokensMade /\ \A x \in loggedOut' : x \in Nat
        BY <1>10 DEF Login, SignsToken, Begun, TokensApart, OthersWait
    <2>2. \A t \in Nat : UsedToken(t)' => UsedToken(t)
        BY <1>10, <2>1 DEF Login, SignsToken, Begun, UsedToken, DropsToken, Now, OthersWait, NoUserRequest
    <2>3. AddsToken(q)' => Now(q)'.token = tokensMade + 1 /\ tokensMade' = tokensMade + 1
        BY <1>10 DEF Login, SignsToken, Begun, AddsToken, Now, NoUserRequest
    <2>. QED BY <2>1, <2>2, <2>3, TokensFrame
<1>11. ASSUME NEW q \in UserRequests, NEW p \in Passwords, NEW r \in RoleNames,
             CreateUser(q, p, r)
      PROVE TokensApart'
    <2>1. OthersWait(q) /\ tokensMade' \in Nat /\ tokensMade' >= tokensMade /\ \A x \in loggedOut' : x \in Nat
        BY <1>11 DEF CreateUser, Begun, TokensApart, OthersWait
    <2>2. \A t \in Nat : UsedToken(t)' => UsedToken(t)
        BY <1>11, <2>1 DEF CreateUser, Begun, UsedToken, DropsToken, Now, OthersWait, NoUserRequest
    <2>3. ~AddsToken(q)'
        BY <1>11 DEF CreateUser, Begun, AddsToken, Now, NoUserRequest
    <2>. QED BY <2>1, <2>2, <2>3, TokensFrame
<1>12. ASSUME NEW q \in UserRequests, NEW t \in 1 .. MaxTokens,
             CreateUserToken(q, t)
      PROVE TokensApart'
    <2>1. OthersWait(q) /\ tokensMade' \in Nat /\ tokensMade' >= tokensMade /\ \A x \in loggedOut' : x \in Nat
        BY <1>12 DEF CreateUserToken, SignsToken, Begun, TokensApart, OthersWait
    <2>2. \A x \in Nat : UsedToken(x)' => UsedToken(x)
        BY <1>12, <2>1 DEF CreateUserToken, SignsToken, Begun, UsedToken, DropsToken, Now, OthersWait, NoUserRequest
    <2>3. AddsToken(q)' => Now(q)'.token = tokensMade + 1 /\ tokensMade' = tokensMade + 1
        BY <1>12 DEF CreateUserToken, SignsToken, Begun, AddsToken, Now, NoUserRequest
    <2>. QED BY <2>1, <2>2, <2>3, TokensFrame
<1>13. ASSUME NEW q \in UserRequests, NEW t \in 1 .. MaxTokens,
             Logout(q, t)
      PROVE TokensApart'
    <2>1. OthersWait(q) /\ tokensMade' \in Nat /\ tokensMade' >= tokensMade /\ \A x \in loggedOut' : x \in Nat
        BY <1>13 DEF Logout, Begun, Auth, TokensApart, OthersWait
    <2>2. \A x \in Nat : UsedToken(x)' => UsedToken(x)
        BY <1>13, <2>1 DEF Logout, Begun, Auth, UsedToken, DropsToken, Now, OthersWait, NoUserRequest
    <2>3. ~AddsToken(q)'
        BY <1>13 DEF Logout, Begun, Auth, AddsToken, Now, NoUserRequest
    <2>. QED BY <2>1, <2>2, <2>3, TokensFrame
<1>14. ASSUME NEW q \in UserRequests, NEW t \in 1 .. MaxTokens, NEW r \in RoleNames, NEW p \in Passwords,
             UpdateUser(q, t, r, p)
      PROVE TokensApart'
    <2>1. user' = user /\ loggedOut' = loggedOut /\ tokensMade' = tokensMade /\ OthersWait(q)
          /\ ~AddsToken(q)' /\ ~DropsToken(q)' /\ userReq'[q].at # "save"
        BY <1>14, UpdatesBegun DEF UpdateUser, OthersWait, AddsToken, DropsToken, Now
    <2>2. \A t2 \in Nat : UsedToken(t2)' => UsedToken(t2)
        BY <2>1 DEF UsedToken, DropsToken, Now, OthersWait
    <2>. QED BY <2>1, <2>2, TokensFrame DEF TokensApart
<1> HIDE DEF UsersInv, UsersTyped, Puts
<1>. QED
    BY <1>1, <1>2, <1>3, <1>4, <1>5, <1>6, <1>7, <1>8, <1>9, <1>10, <1>11, <1>12, <1>13, <1>14 DEF UsersNext, UpdateStep

\* What was acknowledged stays stored until it is changed or the user is
\* deleted, and a token that was logged out stays out, however many requests
\* interleave and whenever the server dies (User.update, Save).
THEOREM AcknowledgedIsKept == UsersSpec => []AcknowledgedKept
<1>1. UsersInv /\ [UsersNext]_userVars => UsersInv'
    BY TypedStep, LockStep, KeptStep, TokensStep DEF UsersInv
<1>2. UsersInv => AcknowledgedKept
    BY DEF UsersInv, KeptFits, Fits, AcknowledgedKept
<1>. QED
    BY InitUsersInv, <1>1, <1>2, PTL DEF UsersSpec
=============================================================================
