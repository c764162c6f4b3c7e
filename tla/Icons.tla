-------------------------------- MODULE Icons --------------------------------
(***************************************************************************)
(* The icon library of the Builder (api/builder/icons.go): one record per  *)
(* name, which is an icon or the alias a rename left. Each operation reads *)
(* records and then changes them in one transaction that compares the      *)
(* revisions it read. An icon is identified by the revision that created   *)
(* it; images, owners' names and the case of names are left out.           *)
(***************************************************************************)
EXTENDS Integers, FiniteSets

CONSTANTS
    IconNames,     \* names, in lower case
    IconUsers,     \* requests at work at once
    MaxIcons,      \* most icons of the library
    MaxAliases,    \* most old names of an icon, and of hops
    MaxIconWrites, \* bound on revisions
    NoIcon

IconRecords == [kind : {"icon"}, id : Nat, aliases : SUBSET IconNames, rev : Nat, server : BOOLEAN]
AliasRecords == [kind : {"alias"}, target : IconNames, rev : Nat]

ASSUME IconsAssumption ==
    /\ MaxIcons \in Nat /\ MaxAliases \in Nat /\ MaxIconWrites \in Nat
    /\ NoIcon \notin IconNames \cup IconRecords \cup AliasRecords

VARIABLES
    icons,    \* the record of each name
    iconRev,  \* last revision
    iconOp    \* per request: what it has read

iconVars == <<icons, iconRev, iconOp>>

NoRequest == [is |-> "none"]
IsIcon(r) == r # NoIcon /\ r.kind = "icon"
IsAlias(r) == r # NoIcon /\ r.kind = "alias"

IconsTypeOK ==
    /\ \A n \in IconNames :
        /\ IsIcon(icons[n]) => icons[n].aliases \subseteq IconNames \ {n}
                                /\ Cardinality(icons[n].aliases) <= MaxAliases
        /\ IsAlias(icons[n]) => icons[n].target \in IconNames
    /\ iconRev \in 0 .. MaxIconWrites
    /\ \A u \in IconUsers : iconOp[u].is \in {"none", "add", "rename", "move", "delete", "remove"}

IconsInit ==
    /\ icons = [n \in IconNames |-> NoIcon]
    /\ iconRev = 0
    /\ iconOp = [u \in IconUsers |-> NoRequest]

\* Where a name leads in at most MaxAliases + 1 hops.
Leads(n) ==
    LET hop[k \in 0 .. MaxAliases + 1] ==
            IF k = 0 THEN n
            ELSE LET at == hop[k - 1]
                 IN  IF IsAlias(icons[at]) THEN icons[at].target ELSE at
    IN  IF IsAlias(icons[n]) THEN hop[MaxAliases + 1] ELSE n

\* resolveIcon: the name of the icon, or NoIcon.
ResolveIcon(n) == LET end == Leads(n) IN IF IsIcon(icons[end]) THEN end ELSE NoIcon
IconOf(n) == LET home == ResolveIcon(n) IN IF home = NoIcon THEN NoIcon ELSE icons[home].id

IconRequest(u, r) == iconOp' = [iconOp EXCEPT ![u] = r]
IconDone(u) == IconRequest(u, NoRequest)
IconWrites == iconRev < MaxIconWrites /\ iconRev' = iconRev + 1

\* A user may not change an icon the server added (MayChangeIcon).
MayChange(r) == ~r.server

----------------------------------------------------------------------------
\* AddIcon: the name names nothing and the library has room ...
AddIcon(u, n, server) ==
    /\ iconOp[u] = NoRequest
    /\ ResolveIcon(n) = NoIcon
    /\ Cardinality({x \in IconNames : IsIcon(icons[x])}) < MaxIcons
    /\ IconRequest(u, [is |-> "add", name |-> n, server |-> server])
    /\ UNCHANGED <<icons, iconRev>>

\* ... and the record is created, or replaces an alias whose icon is gone
\* (createIcon, addIconOverAlias).
CreateIcon(u) ==
    LET n == iconOp[u].name
    IN  /\ iconOp[u].is = "add"
        /\ IF ResolveIcon(n) # NoIcon
           THEN UNCHANGED <<icons, iconRev>>
           ELSE /\ IconWrites
                /\ icons' = [icons EXCEPT ![n] = [kind |-> "icon", id |-> iconRev + 1, aliases |-> {},
                                                  rev |-> iconRev + 1, server |-> iconOp[u].server]]
        /\ IconDone(u)

\* RenameIcon reads the icon ...
RenameIcon(u, n, new) ==
    LET home == ResolveIcon(n)
    IN  /\ iconOp[u] = NoRequest
        /\ home # NoIcon /\ new # home /\ MayChange(icons[home])
        /\ Cardinality((icons[home].aliases \ {new}) \cup {home}) <= MaxAliases
        /\ IconRequest(u, [is |-> "rename", home |-> home, icon |-> icons[home], new |-> new])
        /\ UNCHANGED <<icons, iconRev>>

\* The next step of a rename remembers the record it found at the new name.
MovesOn(u) ==
    LET o == iconOp[u]
    IN  IconRequest(u, [is |-> "move", home |-> o.home, icon |-> o.icon, new |-> o.new, taken |-> icons[o.new]])

\* Fault: an alias is free whatever icon it names.
ReclaimsAliases(u) ==
    /\ iconOp[u].is = "rename"
    /\ IF IsIcon(icons[iconOp[u].new])
       THEN IconDone(u)
       ELSE MovesOn(u)
    /\ UNCHANGED <<icons, iconRev>>

\* ... then the record of the new name, which must be free or an alias of
\* this icon or of none (reclaimableRecord).
ReclaimableRecord(u) ==
    LET taken == icons[iconOp[u].new]
    IN  /\ iconOp[u].is = "rename"
        /\ IF taken = NoIcon \/ ResolveIcon(iconOp[u].new) \in {NoIcon, iconOp[u].home}
           THEN MovesOn(u)
           ELSE IconDone(u)
        /\ UNCHANGED <<icons, iconRev>>

Alias(target, rev) == [kind |-> "alias", target |-> target, rev |-> rev]

\* The records after the move: the icon under its new name, its old names
\* aliases of it (retargetAliases).
IconMoved(o, r) ==
    [n \in IconNames |->
        IF n = o.new THEN [o.icon EXCEPT !.aliases = (@ \ {o.new}) \cup {o.home}, !.rev = r]
        ELSE IF n = o.home \/ (n \in o.icon.aliases /\ IsAlias(icons[n])) THEN Alias(o.new, r)
        ELSE icons[n]]

\* moveIcon: both records must be as they were read.
MoveIcon(u) ==
    LET o == iconOp[u]
    IN  /\ o.is = "move"
        /\ IF icons[o.home] = o.icon /\ icons[o.new] = o.taken
           THEN IconWrites /\ icons' = IconMoved(o, iconRev + 1)
           ELSE UNCHANGED <<icons, iconRev>>
        /\ IconDone(u)

\* A rename that changes only the case writes over the record of the icon
\* (writeRenamedIcon).
RenameCase(n) ==
    /\ IsIcon(icons[n]) /\ MayChange(icons[n])
    /\ IconWrites
    /\ icons' = [icons EXCEPT ![n].rev = iconRev + 1]
    /\ UNCHANGED iconOp

\* DeleteIcon reads the icon, at the entity tag of the request ...
DeleteIcon(u, n) ==
    LET home == ResolveIcon(n)
    IN  /\ iconOp[u] = NoRequest
        /\ home # NoIcon /\ MayChange(icons[home])
        /\ IconRequest(u, [is |-> "delete", home |-> home, icon |-> icons[home]])
        /\ UNCHANGED <<icons, iconRev>>

\* ... then lists the aliases that lead to it, or that it lists and that
\* lead to no icon (aliasesOf).
AliasesOf(u) ==
    LET o == iconOp[u]
    IN  /\ o.is = "delete"
        /\ IconRequest(u, [is |-> "remove", home |-> o.home, icon |-> o.icon,
                records |-> {<<n, icons[n].rev>> : n \in {x \in IconNames : IsAlias(icons[x])
                    /\ (Leads(x) = o.home \/ (x \in o.icon.aliases /\ ~IsIcon(icons[Leads(x)])))}}])
        /\ UNCHANGED <<icons, iconRev>>

\* ... and removes the icon if it is unchanged, with those of the aliases
\* that are.
RemoveIcon(u) ==
    LET o == iconOp[u]
    IN  /\ o.is = "remove"
        /\ icons' = IF icons[o.home] # o.icon THEN icons
                    ELSE [n \in IconNames |->
                            IF n = o.home \/ (icons[n] # NoIcon /\ <<n, icons[n].rev>> \in o.records)
                            THEN NoIcon ELSE icons[n]]
        /\ IconDone(u) /\ UNCHANGED iconRev

IconsNext ==
    \E u \in IconUsers :
        \/ \E n \in IconNames : DeleteIcon(u, n) \/ RenameCase(n)
        \/ \E n \in IconNames, s \in BOOLEAN : AddIcon(u, n, s)
        \/ \E n, new \in IconNames : RenameIcon(u, n, new)
        \/ CreateIcon(u) \/ ReclaimableRecord(u) \/ MoveIcon(u) \/ AliasesOf(u) \/ RemoveIcon(u)

IconsSpec == IconsInit /\ [][IconsNext]_iconVars

----------------------------------------------------------------------------
\* Every alias is one hop from an icon that lists it, whatever adds, renames
\* and deletes ran together (moveIcon, retargetAliases: "so an alias stays one
\* hop from its icon"): no name is taken by an alias of nothing.
AliasesOneHop ==
    \A n \in IconNames : IsAlias(icons[n]) =>
        /\ IsIcon(icons[icons[n].target])
        /\ n \in icons[icons[n].target].aliases

\* A name that names an icon names it for as long as the icon is in the
\* library, so a diagram that uses the name never shows another icon
\* (RenameIcon "never drops an old name"); and its aliases stay one hop away.
NamesKept ==
    [][icons' # icons => AliasesOneHop' /\ \A n \in IconNames :
        (IconOf(n) # NoIcon /\ \E x \in IconNames : IsIcon(icons'[x]) /\ icons'[x].id = IconOf(n))
            => IconOf(n)' = IconOf(n)]_iconVars
=============================================================================
