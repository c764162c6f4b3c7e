------------------------------- MODULE Library -------------------------------
(***************************************************************************)
(* The shared template library and the layer sets of the Builder           *)
(* (api/builder/templates.go, layersets.go and their handlers).            *)
(*                                                                         *)
(* The library is one record: a change is worked out on a copy and written *)
(* against the revision read; when another write was first it is worked    *)
(* out again, a bounded number of times. Each layer set, and the choice of *)
(* the default one, is a record of its own, written the same way. Clients  *)
(* name the version (entity tag) of what they change. Names, descriptions, *)
(* devices and read-only items are left out.                               *)
(***************************************************************************)
EXTENDS Integers, FiniteSets

CONSTANTS
    Templates, Collections,  \* generated IDs, each used once
    LayerSetIds,             \* likewise
    LibraryUsers,            \* requests at work at once
    MaxTemplates, MaxLayerSets,
    MaxAttempts,             \* maxLibraryAttempts
    MaxLibraryWrites,        \* bound on revisions
    Absent

ASSUME LibraryAssumption ==
    /\ Templates \cap Collections = {}
    /\ Absent \notin [version : Nat, content : Nat \cup SUBSET Templates]
    /\ MaxTemplates \in Nat /\ MaxLayerSets \in Nat
    /\ MaxAttempts \in Nat \ {0} /\ MaxLibraryWrites \in Nat

VARIABLES
    library,     \* [rev, items]: the record
    layerSets,   \* the record of each layer set
    default,     \* the record of the default choice: [rev, set], rev 0 for none
    libraryRev,  \* last revision
    issued,      \* IDs given out
    asking       \* per request: what is asked, what was read, attempts left

libraryVars == <<library, layerSets, default, libraryRev, issued, asking>>

Items == Templates \cup Collections
Idling == [ask |-> "none"]
EmptyLibrary == [i \in Items |-> Absent]
Held(items, kind) == {i \in kind : items[i] # Absent}

LibraryTypeOK ==
    /\ library.rev \in 0 .. MaxLibraryWrites
    /\ \A t \in Held(library.items, Templates) : library.items[t].content \in Nat /\ library.items[t].version \in Nat
    /\ \A c \in Held(library.items, Collections) : library.items[c].content \subseteq Templates
    /\ Cardinality(Held(library.items, Templates)) <= MaxTemplates
    /\ default.rev \in 0 .. libraryRev /\ default.set \in LayerSetIds \cup {Absent}
    /\ \A u \in LibraryUsers : asking[u].ask \in
            {"none", "add", "put", "group", "drop", "newset", "putset", "dropset", "choose"}

LibraryInit ==
    /\ library = [rev |-> 0, items |-> EmptyLibrary]
    /\ layerSets = [s \in LayerSetIds |-> Absent]
    /\ default = [rev |-> 0, set |-> Absent]
    /\ libraryRev = 0 /\ issued = {}
    /\ asking = [u \in LibraryUsers |-> Idling]

----------------------------------------------------------------------------
(* Changes of the template library.                                        *)

\* What a change makes of the items, or the empty set when it is refused.
\* AddTemplates, AddCollection: one template, and a collection of it.
Added(items, q) ==
    IF Cardinality(Held(items, Templates)) >= MaxTemplates THEN {}
    ELSE {[items EXCEPT ![q.item] = [version |-> 0, content |-> q.content]],
          [items EXCEPT ![q.item] = [version |-> 0, content |-> q.content],
                        ![q.with] = IF items[q.with] = Absent THEN [version |-> 0, content |-> {q.item}] ELSE @]}

\* ReplaceTemplate, ReplaceCollection: at the tag, and only of what is held.
Put(items, q) ==
    IF items[q.item] # Absent /\ items[q.item].version = q.tag
    THEN {[items EXCEPT ![q.item].content = q.content]} ELSE {}

Group(items, q) ==
    IF q.content \subseteq Held(items, Templates) THEN Put(items, q) ELSE {}

\* Delete: a template leaves the collections too; one that is gone is fine.
Dropped(items, q) ==
    IF items[q.item] # Absent /\ items[q.item].version # q.tag THEN {}
    ELSE {[i \in Items |->
            IF i = q.item THEN Absent
            ELSE IF i \in Collections /\ items[i] # Absent
                 THEN [items[i] EXCEPT !.content = @ \ {q.item}] ELSE items[i]]}

Change(items, q) ==
    CASE q.ask = "add" -> Added(items, q)
      [] q.ask = "put" -> Put(items, q)
      [] q.ask = "group" -> Group(items, q)
      [] q.ask = "drop" -> Dropped(items, q)

\* stamp: new items are version 1, changed ones go up by one.
Stamped(before, after) ==
    [i \in Items |->
        IF after[i] = Absent THEN Absent
        ELSE [after[i] EXCEPT !.version =
                IF before[i] = Absent THEN 1
                ELSE IF before[i].content = after[i].content THEN before[i].version
                ELSE before[i].version + 1]]

Tags == 1 .. 2
Contents == {1, 2}
TemplateRequests ==
    [ask : {"add"}, item : Templates, with : Collections, content : {1}]
    \cup [ask : {"put"}, item : Templates, tag : Tags, content : Contents]
    \cup [ask : {"group"}, item : Collections, tag : Tags, content : SUBSET Templates]
    \cup [ask : {"drop"}, item : Items, tag : Tags]

Asks(u, r) == asking' = [asking EXCEPT ![u] = r]

\* UpdateLibrary reads the record (libraryForUpdate); a new ID is given out
\* for an item that is added.
ReadsLibrary(u, q) ==
    /\ asking[u] = Idling
    /\ q.ask = "add" => q.item \notin issued
    /\ issued' = IF q.ask = "add" THEN issued \cup {q.item} ELSE issued
    /\ Change(library.items, q) # {}
    /\ Asks(u, [ask |-> q.ask, q |-> q, read |-> library, left |-> MaxAttempts])
    /\ UNCHANGED <<library, layerSets, default, libraryRev>>

Libraries == {"add", "put", "group", "drop"}

\* Fault: the write does not compare the revision.
WritesUnread(u) ==
    /\ asking[u].ask \in Libraries /\ libraryRev < MaxLibraryWrites
    /\ \E items \in Change(asking[u].read.items, asking[u].q) :
        library' = [rev |-> libraryRev + 1, items |-> Stamped(asking[u].read.items, items)]
    /\ libraryRev' = libraryRev + 1
    /\ Asks(u, Idling)
    /\ UNCHANGED <<layerSets, default, issued>>

\* settleLibrary, writeLibrary: a change that changes nothing writes nothing.
WritesLibrary(u) ==
    LET r == asking[u].read
    IN  /\ asking[u].ask \in Libraries
        /\ library.rev = r.rev
        /\ \E items \in Change(r.items, asking[u].q) :
            IF Stamped(r.items, items) = r.items THEN UNCHANGED <<library, libraryRev>>
            ELSE /\ libraryRev < MaxLibraryWrites
                 /\ library' = [rev |-> libraryRev + 1, items |-> Stamped(r.items, items)]
                 /\ libraryRev' = libraryRev + 1
        /\ Asks(u, Idling)
        /\ UNCHANGED <<layerSets, default, issued>>

\* Another write was first: the change is worked out again on what is there
\* now, or refused, or given up (ErrBusy).
RetriesLibrary(u) ==
    /\ asking[u].ask \in Libraries /\ library.rev # asking[u].read.rev
    /\ IF asking[u].left = 1 \/ Change(library.items, asking[u].q) = {}
       THEN Asks(u, Idling)
       ELSE Asks(u, [asking[u] EXCEPT !.read = library, !.left = @ - 1])
    /\ UNCHANGED <<library, layerSets, default, libraryRev, issued>>

----------------------------------------------------------------------------
(* Layer sets.                                                             *)

StoredSets == {s \in LayerSetIds : layerSets[s] # Absent}

\* CreateLayerSet counts, and then creates.
CountsLayerSets(u, s) ==
    /\ asking[u] = Idling /\ s \notin issued
    /\ Cardinality(StoredSets) < MaxLayerSets
    /\ issued' = issued \cup {s}
    /\ Asks(u, [ask |-> "newset", set |-> s])
    /\ UNCHANGED <<library, layerSets, default, libraryRev>>

CreateLayerSet(u) ==
    /\ asking[u].ask = "newset" /\ libraryRev < MaxLibraryWrites
    /\ layerSets' = [layerSets EXCEPT ![asking[u].set] = [version |-> 1, content |-> 1, rev |-> libraryRev + 1]]
    /\ libraryRev' = libraryRev + 1
    /\ Asks(u, Idling)
    /\ UNCHANGED <<library, default, issued>>

\* UpdateLayerSet and DeleteLayerSet read the set at the tag ...
ReadsLayerSet(u, ask, s, tag) ==
    /\ asking[u] = Idling
    /\ layerSets[s] # Absent /\ layerSets[s].version = tag
    /\ Asks(u, [ask |-> ask, set |-> s, tag |-> tag, read |-> layerSets[s]])
    /\ UNCHANGED <<library, layerSets, default, libraryRev, issued>>

\* ... and write at the revision read; content that is the same is not
\* written.
UpdateLayerSet(u, x) ==
    LET s == asking[u].set
        r == asking[u].read
    IN  /\ asking[u].ask = "putset" /\ layerSets[s] = r
        /\ IF r.content = x THEN UNCHANGED <<layerSets, libraryRev>>
           ELSE /\ libraryRev < MaxLibraryWrites
                /\ layerSets' = [layerSets EXCEPT ![s] =
                        [version |-> r.version + 1, content |-> x, rev |-> libraryRev + 1]]
                /\ libraryRev' = libraryRev + 1
        /\ Asks(u, Idling)
        /\ UNCHANGED <<library, default, issued>>

DeleteLayerSet(u) ==
    LET s == asking[u].set
    IN  /\ asking[u].ask = "dropset" /\ layerSets[s] = asking[u].read
        /\ layerSets' = [layerSets EXCEPT ![s] = Absent]
        /\ Asks(u, Idling)
        /\ UNCHANGED <<library, default, libraryRev, issued>>

\* The record changed meanwhile and is read again. Every write of a set goes
\* up a version, so it is stale now.
RetriesLayerSet(u) ==
    LET s == asking[u].set
    IN  /\ asking[u].ask \in {"putset", "dropset"} /\ layerSets[s] # asking[u].read
        /\ Asks(u, Idling)
        /\ UNCHANGED <<library, layerSets, default, libraryRev, issued>>

\* SetDefaultLayerSet: the set is looked up, then the choice is written at
\* its tag; a choice is removed with Absent. DeleteLayerSet leaves it.
ChoosesDefault(u, s) ==
    /\ asking[u] = Idling
    /\ s \in StoredSets \cup {Absent}
    /\ Asks(u, [ask |-> "choose", set |-> s, tag |-> default.rev])
    /\ UNCHANGED <<library, layerSets, default, libraryRev, issued>>

WriteDefaultLayerSet(u) ==
    /\ asking[u].ask = "choose"
    /\ IF asking[u].tag # default.rev \/ (asking[u].set = Absent /\ default.rev = 0)
       THEN UNCHANGED <<default, libraryRev>>
       ELSE IF asking[u].set = Absent
       THEN default' = [rev |-> 0, set |-> Absent] /\ UNCHANGED libraryRev
       ELSE /\ libraryRev < MaxLibraryWrites /\ libraryRev' = libraryRev + 1
            /\ default' = [rev |-> libraryRev + 1, set |-> asking[u].set]
    /\ Asks(u, Idling)
    /\ UNCHANGED <<library, layerSets, issued>>

\* DefaultLayerSet: a choice of a set that is gone is none.
DefaultLayerSet == IF default.set \in StoredSets THEN default.set ELSE Absent

LibraryNext ==
    \E u \in LibraryUsers :
        \/ \E q \in TemplateRequests : ReadsLibrary(u, q)
        \/ WritesLibrary(u) \/ RetriesLibrary(u)
        \/ \E s \in LayerSetIds : CountsLayerSets(u, s)
        \/ \E s \in LayerSetIds, a \in {"putset", "dropset"}, t \in Tags : ReadsLayerSet(u, a, s, t)
        \/ CreateLayerSet(u) \/ DeleteLayerSet(u) \/ RetriesLayerSet(u) \/ WriteDefaultLayerSet(u)
        \/ \E x \in Contents : UpdateLayerSet(u, x)
        \/ \E s \in LayerSetIds \cup {Absent} : ChoosesDefault(u, s)

LibrarySpec == LibraryInit /\ [][LibraryNext]_libraryVars

----------------------------------------------------------------------------
\* A collection names only templates of the library, though the templates it
\* names may be deleted while it is made (checkCollection, Delete).
CollectionsClosed ==
    \A c \in Held(library.items, Collections) :
        library.items[c].content \subseteq Held(library.items, Templates)

\* An item changes only from the version its editor named, to the next one: a
\* change worked out again after a lost write replaces no content its editor
\* had not seen, and a tag never names two contents (UpdateLibrary, stamp,
\* UpdateLayerSet). A collection never names a template
\* that is gone.
TagsNameContent ==
    [][/\ CollectionsClosed'
       /\ \A t \in Templates :
            (library.items[t] # Absent /\ library'.items[t] # Absent /\ library'.items[t] # library.items[t])
                => /\ library'.items[t].version = library.items[t].version + 1
                   /\ \E u \in LibraryUsers : asking[u].ask = "put" /\ asking[u].q.item = t
                            /\ asking[u].q.tag = library.items[t].version
       /\ \A s \in LayerSetIds :
            (layerSets[s] # Absent /\ layerSets'[s] # Absent /\ layerSets'[s] # layerSets[s])
                => /\ layerSets'[s].version = layerSets[s].version + 1
                   /\ \E u \in LibraryUsers : asking[u].ask = "putset" /\ asking[u].tag = layerSets[s].version]_libraryVars
=============================================================================
