------------------------------ MODULE Forwards ------------------------------
(***************************************************************************)
(* Port forwards of the web server: the map forwards (under forwardsMu),   *)
(* the tunnels that minimega has open for them, and the announcements that *)
(* go to the web socket clients (the tunneler among them).                 *)
(*                                                                         *)
(* A forward is known by its key: a destination in a VM and its owner. Its *)
(* record keeps the port of the cluster host at which the tunnel begins. A *)
(* forward to VNC has no tunnel: it leads to the VM's own VNC port.        *)
(*                                                                         *)
(* A handler looks the VM up before it takes forwardsMu; what it does      *)
(* under the lock is one step, the announcements included. One experiment  *)
(* is modelled, from its start to its stop hook (which drops the forwards) *)
(* to the end of its VMs (ClearNamespace, after the hooks).                *)
(***************************************************************************)
EXTENDS Integers, Sequences, FiniteSetsExt, SequencesExt

CONSTANTS
    Destinations,   \* host and port pairs in the VM
    VncDest,        \* the destination that is the VM's VNC server
    Owners,         \* users
    ClusterPorts,   \* source ports for tunnels
    Extends,        \* <<a, b>>: the text of destination b begins with that of a
    MaxForwardOps,  \* bound on creates and deletes
    NoPort          \* no tunnel, no forward

Keys == Destinations \X Owners
VncPort == "vnc"

ASSUME ForwardsAssumption ==
    /\ VncDest \in Destinations
    /\ Extends \subseteq Destinations \X Destinations
    /\ \A d \in Destinations : <<d, d>> \in Extends
    /\ NoPort \notin ClusterPorts \cup Destinations \cup {VncPort}
    /\ VncPort \notin ClusterPorts
    /\ MaxForwardOps \in Nat

VARIABLES
    running,      \* the experiment: "running", "hooked" (stop hook done) or "stopped"
    forwards,     \* cluster port of each key's forward, or NoPort
    tunnels,      \* destination of the tunnel at each cluster port, or NoPort
    requests,     \* creates and deletes that have found the VM
    announced,    \* broadcasts that the tunneler has not received
    closedInPart, \* minimega closed some but not all tunnels of a delete
    reached,      \* last web socket: the destination asked for and the one reached
    forwardOps    \* creates and deletes so far (bound)

forwardVars == <<running, forwards, tunnels, requests, announced, closedInPart, reached, forwardOps>>

ForwardsTypeOK ==
    /\ running \in {"running", "hooked", "stopped"}
    /\ forwards \in [Keys -> ClusterPorts \cup {NoPort, VncPort}]
    /\ tunnels \in [ClusterPorts -> (Destinations \ {VncDest}) \cup {NoPort}]
    /\ requests \subseteq {"create", "delete"} \X Keys
    /\ announced \in Seq({"create", "delete"} \X Keys)
    /\ closedInPart \in BOOLEAN
    /\ reached \in Destinations \X (Destinations \cup {NoPort})
    /\ forwardOps \in 0 .. MaxForwardOps

ForwardsInit ==
    /\ running = "running"
    /\ forwards = [k \in Keys |-> NoPort]
    /\ tunnels = [p \in ClusterPorts |-> NoPort]
    /\ requests = {} /\ announced = <<>>
    /\ closedInPart = FALSE
    /\ reached = <<VncDest, VncDest>>
    /\ forwardOps = 0

Dest(k) == k[1]
TunnelsTo(d) == {p \in ClusterPorts : tunnels[p] = d}
ForwardExists(k) == Dest(k) = VncDest \/ TunnelsTo(Dest(k)) # {}

\* reapForwards: forwards that have lost their tunnel are dropped.
Reaped == {k \in Keys : forwards[k] # NoPort /\ ~ForwardExists(k)}
Kept == [k \in Keys |-> IF k \in Reaped THEN NoPort ELSE forwards[k]]

\* The announcements of a set of deleted forwards, in some order.
Deletes(ks) == SetToSeq({"delete"} \X ks)

\* Fault: what the reaper drops is not announced.
ReapsSilently(newForwards, events) ==
    /\ forwards' = newForwards
    /\ announced' = announced \o events

\* The locked part of a handler reaps before anything else.
ReapsAnd(newForwards, events) ==
    /\ forwards' = newForwards
    /\ announced' = announced \o Deletes(Reaped) \o events

----------------------------------------------------------------------------
\* CreatePortForward or DeletePortForward finds the VM.
FindsVM(op, k) ==
    /\ forwardOps < MaxForwardOps
    /\ running # "stopped"
    /\ <<op, k>> \notin requests
    /\ requests' = requests \cup {<<op, k>>}
    /\ forwardOps' = forwardOps + 1
    /\ UNCHANGED <<running, forwards, tunnels, announced, closedInPart, reached>>

\* createPortForward under the lock. A port in use is tried again with
\* another; minimega may refuse the tunnel, and does when the VM is gone.
CreatePortForward(k) ==
    /\ <<"create", k>> \in requests
    /\ requests' = requests \ {<<"create", k>>}
    /\ \/ \* it exists, or the tunnel is refused
          /\ Kept[k] # NoPort \/ Dest(k) # VncDest
          /\ ReapsAnd(Kept, <<>>)
          /\ UNCHANGED tunnels
       \/ /\ Kept[k] = NoPort /\ Dest(k) = VncDest
          /\ ReapsAnd([Kept EXCEPT ![k] = VncPort], << <<"create", k>> >>)
          /\ UNCHANGED tunnels
       \/ /\ Kept[k] = NoPort /\ Dest(k) # VncDest /\ running # "stopped"
          /\ \E p \in TunnelsTo(NoPort) :
                /\ tunnels' = [tunnels EXCEPT ![p] = Dest(k)]
                /\ ReapsAnd([Kept EXCEPT ![k] = p], << <<"create", k>> >>)
    /\ UNCHANGED <<running, closedInPart, reached, forwardOps>>

\* CloseTunnel closes every tunnel to the destination, whoever made it; when
\* one cannot be closed the others are, and the forward stays.
DeletePortForward(k) ==
    /\ <<"delete", k>> \in requests
    /\ requests' = requests \ {<<"delete", k>>}
    /\ \/ /\ Kept[k] = NoPort
          /\ ReapsAnd(Kept, <<>>)
          /\ UNCHANGED <<tunnels, closedInPart>>
       \/ /\ Kept[k] # NoPort
          /\ tunnels' = [p \in ClusterPorts |-> IF tunnels[p] = Dest(k) THEN NoPort ELSE tunnels[p]]
          /\ ReapsAnd([Kept EXCEPT ![k] = NoPort], << <<"delete", k>> >>)
          /\ UNCHANGED closedInPart
       \/ /\ Kept[k] # NoPort
          /\ \E closed \in SUBSET TunnelsTo(Dest(k)) \ {TunnelsTo(Dest(k))} :
                /\ tunnels' = [p \in ClusterPorts |-> IF p \in closed THEN NoPort ELSE tunnels[p]]
                /\ closedInPart' = (closedInPart \/ closed # {})
          /\ ReapsAnd(Kept, <<>>)
    /\ UNCHANGED <<running, reached, forwardOps>>

\* The ticker's reap, and GetPortForwards, which reaps and lists.
ReapForwards ==
    /\ Reaped # {}
    /\ ReapsAnd(Kept, <<>>)
    /\ UNCHANGED <<running, tunnels, requests, closedInPart, reached, forwardOps>>

\* What is at the cluster port of k's forward.
EndOf(k) == IF forwards[k] = VncPort THEN VncDest ELSE tunnels[forwards[k]]

\* Fault: the map is used as it is, without reaping first.
ConnectsUnreaped(d, u) ==
    /\ \E k \in Keys :
        /\ forwards[k] # NoPort /\ <<d, Dest(k)>> \in Extends
        /\ reached' = <<d, EndOf(k)>>
    /\ UNCHANGED <<running, forwards, announced, tunnels, requests, closedInPart, forwardOps>>

\* GetPortForwardWebSocket for user u and destination d: u's own forward, or
\* any forward whose key begins with the text of d.
GetPortForwardWebSocket(d, u) ==
    LET own == {k \in {<<d, u>>} : Kept[k] # NoPort}
        any == {k \in Keys : Kept[k] # NoPort /\ <<d, Dest(k)>> \in Extends}
    IN  /\ ReapsAnd(Kept, <<>>)
        /\ \E k \in IF own # {} THEN own ELSE any : reached' = <<d, EndOf(k)>>
        /\ UNCHANGED <<running, tunnels, requests, closedInPart, forwardOps>>

----------------------------------------------------------------------------
(* The experiment (external to the forwards): start, and the two halves of *)
(* experiment.Stop.                                                        *)

StopHook ==
    /\ running = "running"
    /\ running' = "hooked"
    /\ forwards' = [k \in Keys |-> NoPort]
    /\ announced' = announced \o Deletes({k \in Keys : forwards[k] # NoPort})
    /\ UNCHANGED <<tunnels, requests, closedInPart, reached, forwardOps>>

ClearNamespace ==
    /\ running = "hooked"
    /\ running' = "stopped"
    /\ tunnels' = [p \in ClusterPorts |-> NoPort]
    /\ UNCHANGED <<forwards, requests, announced, closedInPart, reached, forwardOps>>

StartsAgain ==
    /\ running = "stopped" /\ forwardOps < MaxForwardOps
    /\ running' = "running"
    /\ UNCHANGED <<forwards, tunnels, requests, announced, closedInPart, reached, forwardOps>>

ForwardsNext ==
    \/ \E k \in Keys :
        \/ \E op \in {"create", "delete"} : FindsVM(op, k)
        \/ CreatePortForward(k) \/ DeletePortForward(k)
    \/ ReapForwards
    \/ \E d \in Destinations, u \in Owners : GetPortForwardWebSocket(d, u)
    \/ StopHook \/ ClearNamespace \/ StartsAgain

ForwardsSpec == ForwardsInit /\ [][ForwardsNext]_forwardVars

----------------------------------------------------------------------------
Followed == INSTANCE Feed WITH
    keys <- {k \in Keys : forwards[k] # NoPort},
    feed <- announced

\* The forwards and their announcements implement Feed: reaping, a stop hook
\* and a failing create or delete never leave a follower (the tunneler) with
\* other keys than the server's (deleteForward, createPortForward).
ForwardsAnnounced == Followed!Spec

\* While the experiment runs, a tunnel is open only to a destination that
\* some forward names: none is left that nobody can close (createPortForward,
\* DeletePortForward and the stop hook against each other).
TunnelsOwned ==
    running = "running" =>
        \A p \in ClusterPorts :
            tunnels[p] # NoPort => \E k \in Keys : Dest(k) = tunnels[p] /\ forwards[k] # NoPort

\* A web socket is never joined to another destination than one whose text
\* begins with what was asked for, however ports are given out again after
\* deletes and restarts; the one way there is a close that failed part way,
\* which leaves a forward at a port that another tunnel may take
\* (GetPortForwardWebSocket, CloseTunnel).
ReachesDestination == closedInPart \/ reached \in Extends

\* Tunnels and forwards agree: both.
ForwardsConsistent == TunnelsOwned /\ ReachesDestination
=============================================================================
