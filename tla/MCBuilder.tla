------------------------------ MODULE MCBuilder ------------------------------
(***************************************************************************)
(* The builder and the configs it writes, on small instances: drafts,      *)
(* their publication, icons, the library of templates and layer sets,      *)
(* diagrams, the configs of every kind, and the workflows that apply       *)
(* files of them to an experiment. They share no variable, so each         *)
(* is explored by itself: `focus` names the one that moves, the            *)
(* others stay as the server begins.                                       *)
(***************************************************************************)
EXTENDS Drafts, Publication, Icons, Library, Diagrams, Configs, WorkflowApply, TLC

VARIABLE focus

----------------------------------------------------------------------------
(* The topologies a diagram is made from. Alone: interfaces without a      *)
(* name, with names that differ in case, without a VLAN, with a VLAN that  *)
(* has a space in it; hosts without a name or with one that differs in     *)
(* case. Included: lists that are empty, repeat a name, go around in a     *)
(* circle, name a topology that is not stored, or are too long.            *)

MCFoldKey == [n \in {"", "a", "A", "b", "c d", "p"} |-> IF n = "A" THEN "a" ELSE n]

Iface(n, v, ip) == [name |-> n, vlan |-> v, ip |-> ip]
Node(h, s) == [host |-> h, ifaces |-> s, external |-> FALSE]
Topology(nodes, list) == [nodes |-> nodes, includes |-> list]
OneIface == <<Iface("a", "a", "p")>>

MCIfaces == {<<>>, OneIface,
             <<Iface("a", "A", "p"), Iface("A", "b", "")>>,
             <<Iface("", "a", ""), Iface("b", "c d", "")>>,
             <<Iface("b", "", "p"), Iface("a", "a", "p")>>}

Alone == {[r |-> Topology(<<n, m>>, <<>>), x |-> NotStored, y |-> NotStored] :
            n \in {Node(h, s) : h \in {"", "a", "A", "b"}, s \in MCIfaces},
            m \in {Node("a", <<>>), Node("b", OneIface)}}

Lists == {<<>>, <<"x">>, <<"x", "y">>, <<"y", "x">>, <<"y", "r">>, <<"c d", "y">>, <<"x", "x">>, <<"z", "y">>}

Included == {[r |-> Topology(<<Node("a", OneIface)>>, l), x |-> x, y |-> Topology(ys, ly)] :
            l \in Lists \ {<<"z", "y">>},
            x \in {NotStored} \cup {Topology(ns, list) : ns \in {<<>>, <<Node("b", OneIface)>>}, list \in Lists},
            ys \in {<<>>, <<Node("A", <<>>)>>, <<Node("p", <<>>), Node("a", <<>>)>>},
            ly \in {<<>>, <<"x">>, <<"y", "r">>}}

Bare == [r |-> NotStored, x |-> NotStored, y |-> NotStored]

MCFirst == Alone \cup Included \cup {Bare}

----------------------------------------------------------------------------
(* The applies: one asked for a topology, one for a scenario too.          *)

MCFiles == [r \in ApplyRuns |-> IF r \in Forced THEN <<"topology", "scenario">> ELSE <<"topology">>]

MCAuto == [r \in ApplyRuns |-> {"update", "restart"} \cup IF r \in Forced THEN {} ELSE {"create"}]

MCTopologyOf == [r \in ApplyRuns |-> "topology"]

MCScenarioOf == [r \in ApplyRuns |-> IF r \in Forced THEN "scenario" ELSE "none"]

MCIncludes == [c \in {"topology", "base"} |-> IF c = "topology" THEN {"base"} ELSE {}]

MCFrom == [c \in {"scenario"} |-> {}]

----------------------------------------------------------------------------
MCInit ==
    /\ focus \in {"drafts", "publication", "icons", "library", "diagrams", "configs", "apply"}
    /\ DraftsInit /\ PublicationInit /\ IconsInit /\ LibraryInit /\ DiagramsInit /\ ConfigsInit
    /\ WorkflowInit
    /\ focus # "publication" => topology = Nothing
    /\ focus # "apply" => (storedConfigs = {} /\ mapped = "none")
    /\ (focus = "diagrams") = (topologies # Bare)

MCNext ==
    /\ UNCHANGED focus
    /\ \/ focus = "drafts" /\ DraftsNext
          /\ UNCHANGED <<publishVars, iconVars, libraryVars, diagramVars, configVars, applyVars>>
       \/ focus = "publication" /\ PublicationNext
          /\ UNCHANGED <<draftVars, iconVars, libraryVars, diagramVars, configVars, applyVars>>
       \/ focus = "icons" /\ IconsNext
          /\ UNCHANGED <<draftVars, publishVars, libraryVars, diagramVars, configVars, applyVars>>
       \/ focus = "library" /\ LibraryNext
          /\ UNCHANGED <<draftVars, publishVars, iconVars, diagramVars, configVars, applyVars>>
       \/ focus = "diagrams" /\ DiagramsNext
          /\ UNCHANGED <<draftVars, publishVars, iconVars, libraryVars, configVars, applyVars>>
       \/ focus = "configs" /\ ConfigsNext
          /\ UNCHANGED <<draftVars, publishVars, iconVars, libraryVars, diagramVars, applyVars>>
       \/ focus = "apply" /\ WorkflowNext
          /\ UNCHANGED <<draftVars, publishVars, iconVars, libraryVars, diagramVars, configVars>>

MCSpec ==
    MCInit /\ [][MCNext]_<<draftVars, publishVars, iconVars, libraryVars, diagramVars, configVars,
                          applyVars, focus>>

\* The types of all of them, each where it moves.
BuilderTypeOK ==
    /\ focus = "drafts" => DraftsTypeOK
    /\ focus = "publication" => PublicationTypeOK
    /\ focus = "icons" => IconsTypeOK
    /\ focus = "library" => LibraryTypeOK
    /\ focus = "diagrams" => DiagramsTypeOK
    /\ focus = "configs" => ConfigsTypeOK
    /\ focus = "apply" => WorkflowTypeOK

\* The editors of drafts, of icons and of configs are the same model values.
Symmetric == Permutations(Documents) \cup Permutations(Editors)

\* Two faults of an apply are explored while nobody else touches the
\* experiment, one when somebody does. After the last write of an icon or of
\* the library requests only read, and no property can fail any more.
Bounded ==
    /\ userSteps > 0 => applyFaults <= 1
    /\ iconRev < MaxIconWrites
    /\ libraryRev < MaxLibraryWrites
=============================================================================
