------------------------------ MODULE Tunneler ------------------------------
(***************************************************************************)
(* The tunneler: a program on a user's machine that follows the server's   *)
(* port forwards over a web socket and keeps a local listener for each.    *)
(*                                                                         *)
(* Its serve loop adds and removes listeners; users move, activate and     *)
(* deactivate them through a unix socket or the local web page, each under *)
(* the registry's mutex. After a change the listing is sent to the page's  *)
(* event channel, which holds one message.                                 *)
(*                                                                         *)
(* The server is what Feed promises: keys that change, and announcements.  *)
(* Other programs may hold a local port, so listening may always fail.     *)
(***************************************************************************)
EXTENDS Integers, Sequences

CONSTANTS
    ForwardKeys,   \* keys of forwards
    MyKeys,        \* those the tunneler's user owns: activated on creation
    LocalPorts,    \* ports of the user's machine
    SrcPort,       \* port each key's forward asks for
    MaxChanges,    \* bound on the server's creates and deletes
    MaxLocalOps,   \* bound on the user's operations, page visits and restarts
    NoListener

ASSUME TunnelerAssumption ==
    /\ MyKeys \subseteq ForwardKeys
    /\ SrcPort \in [ForwardKeys -> LocalPorts]
    /\ MaxChanges \in Nat /\ MaxLocalOps \in Nat
    /\ NoListener \notin ForwardKeys /\ NoListener \notin [id : Nat, port : LocalPorts, listening : BOOLEAN]

VARIABLES
    remote,   \* keys of the server's forwards
    wire,     \* announcements on the web socket, not yet received
    changes,  \* creates and deletes of the server so far (bound)
    serve,    \* label of the serve loop
    todo,     \* forwards of the initial list still to be created
    current,  \* key the serve loop has added and is to activate
    local,    \* the registry: listener of each key, or NoListener
    nextID,   \* last listener ID given out
    bound,    \* local ports the process listens at
    asking,   \* label of a user's request
    joining,  \* label of the page's request for events
    viewer,   \* the page: "none", "on" or "gone"
    inbox,    \* messages in the page's channel
    localOps  \* user operations so far (bound)

pageVars == <<asking, joining, viewer, inbox>>
tunnelerVars == <<remote, wire, changes, serve, todo, current, local, nextID, bound,
                  asking, joining, viewer, inbox, localOps>>

SendPoints == {"send", "drain", "put"}
Listeners == [id : Nat, port : LocalPorts, listening : BOOLEAN]

TunnelerTypeOK ==
    /\ remote \subseteq ForwardKeys
    /\ wire \in Seq({"create", "delete"} \X ForwardKeys)
    /\ changes \in 0 .. MaxChanges
    /\ serve \in {"off", "list", "create", "listed", "activate", "loop"} \cup SendPoints
    /\ todo \subseteq ForwardKeys
    /\ current \in ForwardKeys \cup {NoListener}
    /\ local \in [ForwardKeys -> Listeners \cup {NoListener}]
    /\ nextID \in Nat
    /\ bound \subseteq LocalPorts
    /\ asking \in {"idle"} \cup SendPoints
    /\ joining \in {"idle"} \cup SendPoints
    /\ viewer \in {"none", "on", "gone"}
    /\ inbox \in 0 .. 1
    /\ localOps \in 0 .. MaxLocalOps

TunnelerInit ==
    /\ remote = {} /\ wire = <<>> /\ changes = 0 /\ localOps = 0
    /\ serve = "off" /\ todo = {} /\ current = NoListener
    /\ local = [k \in ForwardKeys |-> NoListener]
    /\ nextID = 0 /\ bound = {}
    /\ asking = "idle" /\ joining = "idle" /\ viewer = "none" /\ inbox = 0

Known == {k \in ForwardKeys : local[k] # NoListener}

\* A web socket is open from the dial on.
Connected == serve # "off"

\* The unix socket and the web page are there.
Serving == serve \notin {"off", "list", "create", "listed"}

----------------------------------------------------------------------------
(* The server (Feed): a forward is created or deleted, and announced.      *)

ServerChanges(k) ==
    /\ changes < MaxChanges
    /\ changes' = changes + 1
    /\ remote' = IF k \in remote THEN remote \ {k} ELSE remote \cup {k}
    /\ wire' = IF Connected
               THEN Append(wire, <<IF k \in remote THEN "delete" ELSE "create", k>>)
               ELSE wire
    /\ UNCHANGED <<serve, todo, current, local, nextID, bound, pageVars, localOps>>

----------------------------------------------------------------------------
(* webEventHub: sending the listing to the page.                           *)

\* broadcast copies the clients; with none there is nothing to send.
AfterChange(idle) == IF viewer = "on" THEN "send" ELSE idle

\* Fault: the sender waits for room in the channel.
SendWaits(l, l1, idle) == l = "send" /\ inbox = 0 /\ inbox' = 1 /\ l1 = idle

\* The step of a sender at label l that is idle again at label idle; l1 is
\* its next label. A full channel is emptied by the sender, which waits when
\* the page has emptied it meanwhile.
Send(l, l1, idle) ==
    \/ l = "send" /\ inbox = 0 /\ inbox' = 1 /\ l1 = idle
    \/ l = "send" /\ inbox = 1 /\ l1 = "drain" /\ UNCHANGED inbox
    \/ l = "drain" /\ inbox = 1 /\ inbox' = 0 /\ l1 = "put"
    \/ l = "put" /\ inbox = 0 /\ inbox' = 1 /\ l1 = idle

ServeSends ==
    /\ serve' \in SendPoints \cup {"loop"}
    /\ Send(serve, serve', "loop")
    /\ UNCHANGED <<remote, wire, changes, todo, current, local, nextID, bound,
                   asking, joining, viewer, localOps>>

AskingSends ==
    /\ asking' \in SendPoints \cup {"idle"}
    /\ Send(asking, asking', "idle")
    /\ UNCHANGED <<remote, wire, changes, serve, todo, current, local, nextID, bound,
                   joining, viewer, localOps>>

JoiningSends ==
    /\ joining' \in SendPoints \cup {"idle"}
    /\ Send(joining, joining', "idle")
    /\ UNCHANGED <<remote, wire, changes, serve, todo, current, local, nextID, bound,
                   asking, viewer, localOps>>

\* The page asks for events: it is added, then sent the listing.
PageJoins ==
    /\ Serving /\ viewer = "none"
    /\ localOps < MaxLocalOps
    /\ localOps' = localOps + 1
    /\ viewer' = "on" /\ joining' = "send"
    /\ UNCHANGED <<remote, wire, changes, serve, todo, current, local, nextID, bound, asking, inbox>>

\* The handler takes a message and writes it, or fails and removes the page.
PageReceives ==
    /\ viewer = "on" /\ joining = "idle" /\ inbox = 1
    /\ inbox' = 0
    /\ viewer' \in {"on", "gone"}
    /\ UNCHANGED <<remote, wire, changes, serve, todo, current, local, nextID, bound,
                   asking, joining, localOps>>

----------------------------------------------------------------------------
(* Local listeners.                                                        *)

\* activateLocalListener of key k at port p: the listener listens there.
Activated(k, p) ==
    /\ p \notin bound
    /\ bound' = bound \cup {p}
    /\ local' = [local EXCEPT ![k].port = p, ![k].listening = TRUE]

\* createLocalListener, first half: the registry's add. Another user's
\* forward is not activated.
Adds(k, activate, next) ==
    /\ nextID' = nextID + 1
    /\ local' = [local EXCEPT ![k] = [id |-> nextID + 1, port |-> SrcPort[k], listening |-> FALSE]]
    /\ IF k \in MyKeys
       THEN serve' = activate /\ current' = k
       ELSE serve' = next /\ UNCHANGED current

\* createLocalListener, second half. The listing is sent in any case; the
\* initial list is dealt with before there is a page.
ServeActivates ==
    /\ serve \in {"listed", "activate"}
    /\ \/ local[current].listening = FALSE /\ Activated(current, local[current].port)
       \/ UNCHANGED <<local, bound>>
    /\ current' = NoListener
    /\ serve' = IF serve = "activate" THEN AfterChange("loop") ELSE IF todo # {} THEN "create" ELSE "loop"
    /\ UNCHANGED <<remote, wire, changes, todo, nextID, pageVars, localOps>>

\* listenerManager.remove: the listener is closed and forgotten.
Removes(k) ==
    /\ local' = [local EXCEPT ![k] = NoListener]
    /\ bound' = IF local[k].listening THEN bound \ {local[k].port} ELSE bound

----------------------------------------------------------------------------
(* The serve command.                                                      *)

Dial ==
    /\ serve = "off" /\ localOps < MaxLocalOps
    /\ localOps' = localOps + 1
    /\ serve' = "list" /\ wire' = <<>>
    /\ UNCHANGED <<remote, changes, todo, current, local, nextID, bound, pageVars>>

\* getRemoteListeners: the forwards that are there now.
Lists ==
    /\ serve = "list"
    /\ todo' = remote
    /\ serve' = IF remote = {} THEN "loop" ELSE "create"
    /\ UNCHANGED <<remote, wire, changes, current, local, nextID, bound, pageVars, localOps>>

\* Fault: the web socket is opened when the list has been dealt with.
CreatesThenDials ==
    /\ serve = "create"
    /\ \E k \in todo :
        /\ todo' = todo \ {k}
        /\ Adds(k, "listed", IF todo = {k} THEN "loop" ELSE "create")
        /\ wire' = IF todo = {k} THEN <<>> ELSE wire
    /\ UNCHANGED <<remote, changes, bound, pageVars, localOps>>

CreatesListed ==
    /\ serve = "create"
    /\ \E k \in todo :
        /\ todo' = todo \ {k}
        /\ Adds(k, "listed", IF todo = {k} THEN "loop" ELSE "create")
    /\ UNCHANGED <<remote, wire, changes, bound, pageVars, localOps>>

Receives ==
    /\ serve = "loop" /\ wire # <<>>
    /\ wire' = Tail(wire)
    /\ LET k == Head(wire)[2]
           create == Head(wire)[1] = "create"
       IN  \/ create /\ k \notin Known /\ Adds(k, "activate", AfterChange("loop")) /\ UNCHANGED bound
           \/ ~create /\ k \in Known /\ Removes(k) /\ serve' = AfterChange("loop")
                /\ UNCHANGED <<nextID, current>>
           \/ create = (k \in Known) /\ UNCHANGED <<serve, local, nextID, current, bound>>
    /\ UNCHANGED <<remote, changes, todo, pageVars, localOps>>

\* The list cannot be read, or the connection ends (the broker drops slow
\* clients): the process ends, and with it its listeners. It may be started
\* again.
Ends ==
    /\ serve \in {"list", "loop"}
    /\ serve' = "off" /\ todo' = {} /\ current' = NoListener
    /\ local' = [k \in ForwardKeys |-> NoListener]
    /\ nextID' = 0 /\ bound' = {}
    /\ asking' = "idle" /\ joining' = "idle" /\ viewer' = "none" /\ inbox' = 0
    /\ UNCHANGED <<remote, wire, changes, localOps>>

----------------------------------------------------------------------------
(* Requests of the user, by listener ID; an unknown ID changes nothing.    *)

UserAsks(k) ==
    /\ Serving
    /\ asking = "idle" /\ k \in Known
    /\ localOps < MaxLocalOps
    /\ localOps' = localOps + 1

\* A failed activation changes nothing; one that was not needed is announced
\* (so is a deactivation).
UserActivates(k) ==
    /\ UserAsks(k)
    /\ \/ ~local[k].listening /\ Activated(k, local[k].port)
       \/ local[k].listening /\ UNCHANGED <<local, bound>>
    /\ asking' = AfterChange("idle")
    /\ UNCHANGED <<remote, wire, changes, serve, todo, current, nextID, joining, viewer, inbox>>

UserDeactivates(k) ==
    /\ UserAsks(k)
    /\ bound' = IF local[k].listening THEN bound \ {local[k].port} ELSE bound
    /\ local' = [local EXCEPT ![k].listening = FALSE]
    /\ asking' = AfterChange("idle")
    /\ UNCHANGED <<remote, wire, changes, serve, todo, current, nextID, joining, viewer, inbox>>

\* moveLocalListener: an active listener is closed and opened at the new
\* port; if that fails it is opened at the old one, which may fail too.
UserMoves(k, p) ==
    LET old == local[k].port
        others == bound \ {old}
    IN  /\ UserAsks(k)
        /\ \/ /\ ~local[k].listening
              /\ local' = [local EXCEPT ![k].port = p]
              /\ asking' = AfterChange("idle")
              /\ UNCHANGED bound
           \/ /\ local[k].listening /\ p \notin others
              /\ local' = [local EXCEPT ![k].port = p]
              /\ bound' = others \cup {p}
              /\ asking' = AfterChange("idle")
           \/ /\ local[k].listening
              /\ UNCHANGED <<local, bound, asking>>
           \/ /\ local[k].listening
              /\ local' = [local EXCEPT ![k].listening = FALSE]
              /\ bound' = others
              /\ UNCHANGED asking
        /\ UNCHANGED <<remote, wire, changes, serve, todo, current, nextID, joining, viewer, inbox>>

ServeStep == Receives \/ ServeActivates \/ ServeSends \/ CreatesListed \/ Lists

TunnelerNext ==
    \/ \E k \in ForwardKeys : ServerChanges(k) \/ UserActivates(k) \/ UserDeactivates(k)
    \/ \E k \in ForwardKeys, p \in LocalPorts : UserMoves(k, p)
    \/ ServeStep \/ Dial \/ Ends
    \/ AskingSends \/ JoiningSends \/ PageJoins \/ PageReceives

TunnelerSpec == TunnelerInit /\ [][TunnelerNext]_tunnelerVars

\* The serve loop and the senders run whenever they can, and so does the
\* page's handler. Nobody need ask for anything.
TunnelerFairness ==
    /\ WF_tunnelerVars(ServeStep)
    /\ WF_tunnelerVars(AskingSends) /\ WF_tunnelerVars(JoiningSends)
    /\ WF_tunnelerVars(PageReceives)

----------------------------------------------------------------------------
\* Having received everything, the serve loop knows exactly the server's
\* forwards, whatever changed while it read the initial list (serve opens
\* the web socket before it reads the list).
MirrorsServer == (serve = "loop" /\ wire = <<>>) => Known = remote

\* The process listens at the ports of its listening listeners and nowhere
\* else, and no two of them share one: a failed move or a removal leaves no
\* port behind (moveLocalListener, remove).
PortsAccounted ==
    /\ bound = {local[k].port : k \in {j \in Known : local[j].listening}}
    /\ \A j, k \in Known :
        (local[j].listening /\ local[k].listening /\ local[j].port = local[k].port) => j = k

\* Listeners agree with the server and with the process's ports: both.
ListenersConsistent == MirrorsServer /\ PortsAccounted

\* The sender waits for a message to take from a channel that is empty, or
\* for room in a channel nobody reads any more.
Starved(l) == (l = "drain" /\ inbox = 0) \/ (l = "put" /\ inbox = 1)

\* Announcements do not stay on the wire: the loop receives them all, or it
\* ends, or it is left waiting in send, which replaces the page's message
\* by a receive that another receiver can be quicker at (web.go, send).
AnnouncementsReceived ==
    (serve = "loop" /\ wire # <<>>) ~> (wire = <<>> \/ serve = "off" \/ Starved(serve))
=============================================================================
