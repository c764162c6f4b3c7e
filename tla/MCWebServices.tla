---------------------------- MODULE MCWebServices ----------------------------
(***************************************************************************)
(* The services of the web server on small instances: the broker and its   *)
(* clients, port forwards, the tunneler that follows them, the users and   *)
(* their tokens, and the log files with their lookup cache. They share no  *)
(* variable, so each is explored by itself: `focus` names the one that     *)
(* moves. At rest none of the others has a fair action enabled.            *)
(***************************************************************************)
EXTENDS Broker, Forwards, Tunneler, Users, Logs

CONSTANTS d80, d8080

VARIABLE focus

\* The text of port 8080 begins with that of port 80.
MCExtends == {<<d, d>> : d \in Destinations} \cup {<<d80, d8080>>}

\* Every forward asks for the same local port.
MCSrcPort == [k \in ForwardKeys |-> 8080]

\* Small files, and larger ones of which one is kept.
MCLimits == {[size |-> 2, backups |-> 0, age |-> 0], [size |-> 3, backups |-> 1, age |-> 0]}

MCRanges == {<<0, 6>>, <<1, 4>>, <<3, 6>>}

MCInit ==
    /\ focus \in {"broker", "forwards", "tunneler", "users", "logs"}
    /\ BrokerInit /\ ForwardsInit /\ TunnelerInit /\ UsersInit /\ LogsInit
    /\ focus # "logs" => limits.size = 2

MCNext ==
    /\ UNCHANGED focus
    /\ \/ focus = "broker" /\ BrokerNext /\ UNCHANGED <<forwardVars, tunnelerVars, userVars, logVars>>
       \/ focus = "forwards" /\ ForwardsNext /\ UNCHANGED <<brokerVars, tunnelerVars, userVars, logVars>>
       \/ focus = "tunneler" /\ TunnelerNext /\ UNCHANGED <<brokerVars, forwardVars, userVars, logVars>>
       \/ focus = "users" /\ UsersNext /\ UNCHANGED <<brokerVars, forwardVars, tunnelerVars, logVars>>
       \/ focus = "logs" /\ LogsNext /\ UNCHANGED <<brokerVars, forwardVars, tunnelerVars, userVars>>

MCSpec ==
    /\ MCInit /\ [][MCNext]_<<brokerVars, forwardVars, tunnelerVars, userVars, logVars, focus>>
    /\ BrokerFairness /\ TunnelerFairness

\* The types of all of them, each where it moves.
WebTypeOK ==
    /\ focus = "broker" => BrokerTypeOK
    /\ focus = "forwards" => ForwardsTypeOK
    /\ focus = "tunneler" => TunnelerTypeOK
    /\ focus = "users" => UsersTypeOK
    /\ focus = "logs" => LogsTypeOK
=============================================================================
