--------------------------- MODULE BuilderProofs ---------------------------
(***************************************************************************)
(* Proofs about what the Builder shares between its users, for every set   *)
(* of them and every bound: the template library and the layer sets        *)
(* (Library), the configs that publications write (Publication), and the   *)
(* names of icons (Icons).                                                 *)
(***************************************************************************)
EXTENDS Library, Publication, Icons, FiniteSetTheorems, WellFoundedInduction, TLAPS

(***************************************************************************)
(* Library. TagsNameContent compares what a request writes with what is    *)
(* there; inductive is what a request knows while it is under way: that    *)
(* the library it read is the one that is there when the revisions agree,  *)
(* that an ID given out for it is not used yet and is nobody else's, and   *)
(* that the layer set it read has the version its editor named.            *)
(***************************************************************************)
TemplateItem == [version : Nat, content : Nat]
CollectionItem == [version : Nat, content : SUBSET Templates]

IsItems(items) ==
    /\ items = [i \in Items |-> items[i]]
    /\ \A t \in Templates : items[t] = Absent \/ items[t] \in TemplateItem
    /\ \A c \in Collections : items[c] = Absent \/ items[c] \in CollectionItem

\* The collections of items name templates of theirs.
Closed(items) == \A c \in Held(items, Collections) : items[c].content \subseteq Held(items, Templates)

Few(items) == IsFiniteSet(Held(items, Templates)) /\ Cardinality(Held(items, Templates)) <= MaxTemplates

IsLibrary(l) ==
    /\ l = [rev |-> l.rev, items |-> l.items] /\ l.rev \in Nat
    /\ IsItems(l.items) /\ Closed(l.items) /\ Few(l.items)

Changing(u) == asking[u].ask \in Libraries

Shapes ==
    /\ IsLibrary(library) /\ library.rev <= libraryRev
    /\ libraryRev \in 0 .. MaxLibraryWrites
    /\ layerSets = [s \in LayerSetIds |-> layerSets[s]]
    /\ asking = [u \in LibraryUsers |-> asking[u]]
    /\ \A u \in LibraryUsers : asking[u].ask \in
            {"none", "add", "put", "group", "drop", "newset", "putset", "dropset", "choose"}

DefaultTyped ==
    /\ default.rev \in 0 .. libraryRev /\ default.set \in LayerSetIds \cup {Absent}
    /\ \A u \in LibraryUsers : asking[u].ask = "choose" => asking[u].set \in LayerSetIds \cup {Absent}

IsRequest(q) ==
    \/ q.ask = "add" /\ q.item \in Templates /\ q.with \in Collections /\ q.content \in Nat
    \/ q.ask = "put" /\ q.item \in Templates /\ q.content \in Nat
    \/ q.ask = "group" /\ q.item \in Collections /\ q.content \in SUBSET Templates
    \/ q.ask = "drop" /\ q.item \in Items

\* What a change of the library has read.
ReadsKnown ==
    \A u \in LibraryUsers : Changing(u) =>
        /\ IsRequest(asking[u].q) /\ asking[u].q.ask = asking[u].ask
        /\ IsLibrary(asking[u].read)
        /\ asking[u].read.rev <= library.rev
        /\ asking[u].read.rev = library.rev => asking[u].read = library

\* The IDs given out.
Given(u) == IF asking[u].ask = "add" THEN {asking[u].q.item}
            ELSE IF asking[u].ask = "newset" THEN {asking[u].set} ELSE {}

IdsFresh ==
    /\ \A t \in Templates : library.items[t] # Absent => t \in issued
    /\ \A s \in LayerSetIds : layerSets[s] # Absent => s \in issued
    /\ \A u \in LibraryUsers :
        /\ Given(u) \subseteq issued
        /\ asking[u].ask = "add" => library.items[asking[u].q.item] = Absent
        /\ asking[u].ask = "newset" => asking[u].set \in LayerSetIds /\ layerSets[asking[u].set] = Absent
        /\ \A w \in LibraryUsers : u # w => Given(u) \cap Given(w) = {}

SetsKnown ==
    \A u \in LibraryUsers : asking[u].ask \in {"putset", "dropset"} =>
        asking[u].set \in LayerSetIds /\ asking[u].read # Absent /\ asking[u].read.version = asking[u].tag

LibraryInv == Shapes /\ DefaultTyped /\ ReadsKnown /\ IdsFresh /\ SetsKnown

----------------------------------------------------------------------------
(* Changes of the items.                                                   *)

LEMMA ItemsDistinct ==
    /\ Absent \notin TemplateItem /\ Absent \notin CollectionItem
    /\ \A i \in Templates : i \notin Collections
    /\ Items = Templates \cup Collections
BY LibraryAssumption DEF TemplateItem, CollectionItem, Items

\* stamp changes versions only.
LEMMA StampedIs ==
    ASSUME NEW before, NEW after, IsItems(before), IsItems(after)
    PROVE  /\ IsItems(Stamped(before, after))
           /\ \A i \in Items : Stamped(before, after)[i] = Absent <=> after[i] = Absent
           /\ \A i \in Items : after[i] # Absent => Stamped(before, after)[i].content = after[i].content
           /\ \A t \in Templates : before[t] # Absent /\ after[t] # Absent =>
                /\ before[t].content = after[t].content => Stamped(before, after)[t].version = before[t].version
                /\ before[t].content # after[t].content => Stamped(before, after)[t].version = before[t].version + 1
<1> DEFINE S == Stamped(before, after)
<1>1. \A i \in Items : S[i] = IF after[i] = Absent THEN Absent
                              ELSE [after[i] EXCEPT !.version =
                                      IF before[i] = Absent THEN 1
                                      ELSE IF before[i].content = after[i].content THEN before[i].version
                                      ELSE before[i].version + 1]
    BY DEF Stamped
<1>2. S = [i \in Items |-> S[i]]
    BY DEF Stamped
<1> HIDE DEF S
<1>3. ASSUME NEW t \in Templates, after[t] # Absent
      PROVE  /\ S[t] \in TemplateItem /\ S[t].content = after[t].content
             /\ before[t] # Absent =>
                /\ before[t].content = after[t].content => S[t].version = before[t].version
                /\ before[t].content # after[t].content => S[t].version = before[t].version + 1
    <2>1. after[t] \in TemplateItem /\ (before[t] = Absent \/ before[t] \in TemplateItem) /\ t \in Items
        BY <1>3, ItemsDistinct DEF IsItems
    <2> DEFINE v == IF before[t] = Absent THEN 1
                    ELSE IF before[t].content = after[t].content THEN before[t].version
                    ELSE before[t].version + 1
    <2>2. v \in Nat
        BY <2>1 DEF TemplateItem
    <2>3. S[t] = [after[t] EXCEPT !.version = v]
        BY <1>1, <1>3, <2>1
    <2> HIDE DEF v
    <2>4. S[t] \in TemplateItem /\ S[t].content = after[t].content /\ S[t].version = v
        BY <2>1, <2>2, <2>3 DEF TemplateItem
    <2>. QED BY <2>4 DEF v
<1>4. ASSUME NEW c \in Collections, after[c] # Absent
      PROVE  S[c] \in CollectionItem /\ S[c].content = after[c].content
    <2>1. after[c] \in CollectionItem /\ (before[c] = Absent \/ before[c] \in CollectionItem) /\ c \in Items
        BY <1>4, ItemsDistinct DEF IsItems
    <2> DEFINE v == IF before[c] = Absent THEN 1
                    ELSE IF before[c].content = after[c].content THEN before[c].version
                    ELSE before[c].version + 1
    <2>2. v \in Nat
        BY <2>1 DEF CollectionItem
    <2>3. S[c] = [after[c] EXCEPT !.version = v]
        BY <1>1, <1>4, <2>1
    <2> HIDE DEF v
    <2>4. S[c] \in CollectionItem /\ S[c].content = after[c].content /\ S[c].version = v
        BY <2>1, <2>2, <2>3 DEF CollectionItem
    <2>. QED BY <2>4 DEF v
<1>5. \A i \in Items : after[i] = Absent => S[i] = Absent
    BY <1>1
<1>6. IsItems(S)
    BY <1>2, <1>3, <1>4, <1>5, ItemsDistinct DEF IsItems
<1>7. \A i \in Items : S[i] = Absent <=> after[i] = Absent
    BY <1>3, <1>4, <1>5, ItemsDistinct
<1>8. \A i \in Items : after[i] # Absent => S[i].content = after[i].content
    BY <1>3, <1>4, ItemsDistinct
<1>. QED BY <1>3, <1>6, <1>7, <1>8 DEF S

LEMMA StampedKeeps ==
    ASSUME NEW before, NEW after, IsItems(before), IsItems(after), Closed(after), Few(after)
    PROVE  Closed(Stamped(before, after)) /\ Few(Stamped(before, after))
<1>1. /\ Held(Stamped(before, after), Templates) = Held(after, Templates)
      /\ Held(Stamped(before, after), Collections) = Held(after, Collections)
    BY StampedIs, ItemsDistinct DEF Held
<1>2. \A c \in Held(after, Collections) : Stamped(before, after)[c].content = after[c].content
    BY StampedIs, ItemsDistinct DEF Held
<1>. QED BY <1>1, <1>2 DEF Closed, Few

\* What a change may do to a template.
Effect(before, after, q) ==
    \A t \in Templates :
        /\ before[t] = Absent /\ after[t] # Absent => q.ask = "add" /\ q.item = t
        /\ before[t] # Absent /\ after[t] # Absent /\ before[t] # after[t] =>
            \/ q.ask = "add" /\ q.item = t
            \/ q.ask = "put" /\ q.item = t /\ q.tag = before[t].version

Good(before, after, q) == IsItems(after) /\ Closed(after) /\ Few(after) /\ Effect(before, after, q)

\* The limit holds when one template is added below it.
LEMMA OneMore ==
    ASSUME NEW items, NEW after, Few(items), NEW t, ~(Cardinality(Held(items, Templates)) >= MaxTemplates),
           Held(after, Templates) = Held(items, Templates) \cup {t}
    PROVE  Few(after)
<1> DEFINE H == Held(items, Templates)
<1>1. IsFiniteSet(H) /\ Cardinality(H) \in Nat
    BY FS_CardinalityType DEF Few
<1>2. IsFiniteSet(H \cup {t}) /\ Cardinality(H \cup {t}) = IF t \in H THEN Cardinality(H) ELSE Cardinality(H) + 1
    BY <1>1, FS_AddElement
<1>3. Cardinality(H \cup {t}) <= MaxTemplates
    BY <1>1, <1>2, LibraryAssumption
<1>. QED BY <1>2, <1>3 DEF Few

LEMMA AddedGood ==
    ASSUME NEW items, IsItems(items), Closed(items), Few(items), NEW q, IsRequest(q), q.ask = "add",
           NEW after \in Added(items, q)
    PROVE  Good(items, after, q)
<1> DEFINE One == [items EXCEPT ![q.item] = [version |-> 0, content |-> q.content]]
           Two == [items EXCEPT ![q.item] = [version |-> 0, content |-> q.content],
                        ![q.with] = IF items[q.with] = Absent THEN [version |-> 0, content |-> {q.item}] ELSE @]
<1>1. ~(Cardinality(Held(items, Templates)) >= MaxTemplates) /\ (after = One \/ after = Two)
    BY DEF Added
<1>2. q.item \in Templates /\ q.with \in Collections /\ q.content \in Nat
    BY DEF IsRequest
<1>3. [version |-> 0, content |-> q.content] \in TemplateItem /\ [version |-> 0, content |-> {q.item}] \in CollectionItem
    BY <1>2 DEF TemplateItem, CollectionItem
<1>4. /\ after = [i \in Items |-> after[i]]
      /\ after[q.item] = [version |-> 0, content |-> q.content]
      /\ \A i \in Items : i # q.item => after[i] = items[i] \/ (i = q.with /\ items[i] = Absent /\ after[i] = [version |-> 0, content |-> {q.item}])
    BY <1>1, <1>2, ItemsDistinct DEF IsItems
<1>5. IsItems(after)
    BY <1>2, <1>3, <1>4, ItemsDistinct DEF IsItems
<1>6. Held(after, Templates) = Held(items, Templates) \cup {q.item}
    BY <1>2, <1>3, <1>4, ItemsDistinct DEF Held
<1>7. Few(after)
    BY <1>1, <1>6, OneMore
<1>8. Closed(after)
    <2>. SUFFICES ASSUME NEW c \in Held(after, Collections) PROVE after[c].content \subseteq Held(after, Templates)
        BY DEF Closed
    <2>1. c \in Collections /\ c \in Items /\ c # q.item /\ after[c] # Absent
        BY <1>2, ItemsDistinct DEF Held
    <2>2. CASE after[c] = items[c]
        BY <1>6, <2>1, <2>2 DEF Closed, Held
    <2>3. CASE after[c] = [version |-> 0, content |-> {q.item}]
        BY <1>6, <2>3
    <2>. QED BY <1>4, <2>1, <2>2, <2>3
<1>9. Effect(items, after, q)
    BY <1>2, <1>4, ItemsDistinct DEF Effect
<1>. QED BY <1>5, <1>7, <1>8, <1>9 DEF Good

LEMMA PutGood ==
    ASSUME NEW items, IsItems(items), Closed(items), Few(items), NEW q, IsRequest(q),
           \/ q.ask = "put" /\ q.item \in Templates /\ q.content \in Nat
           \/ q.ask = "group" /\ q.item \in Collections /\ q.content \in SUBSET Held(items, Templates),
           NEW after \in Put(items, q)
    PROVE  Good(items, after, q)
<1>1. items[q.item] # Absent /\ items[q.item].version = q.tag /\ after = [items EXCEPT ![q.item].content = q.content]
    BY DEF Put
<1>2. q.item \in Items
    BY ItemsDistinct
<1>3. /\ after = [i \in Items |-> after[i]]
      /\ after[q.item] = [items[q.item] EXCEPT !.content = q.content]
      /\ \A i \in Items : i # q.item => after[i] = items[i]
    BY <1>1, <1>2 DEF IsItems
<1>4. CASE q.item \in Templates
    <2>1. q.ask = "put" /\ q.content \in Nat /\ items[q.item] \in TemplateItem
        BY <1>1, <1>4, ItemsDistinct DEF IsItems
    <2>2. after[q.item] \in TemplateItem
        BY <1>3, <2>1 DEF TemplateItem
    <2>3. IsItems(after)
        BY <1>3, <1>4, <2>2, ItemsDistinct DEF IsItems
    <2>4. /\ Held(after, Templates) = Held(items, Templates)
          /\ Held(after, Collections) = Held(items, Collections)
          /\ \A c \in Collections : after[c] = items[c]
        BY <1>1, <1>3, <1>4, <2>2, ItemsDistinct DEF Held
    <2>5. Closed(after) /\ Few(after)
        BY <2>4 DEF Closed, Few, Held
    <2>6. Effect(items, after, q)
        BY <1>1, <1>3, <2>1, ItemsDistinct DEF Effect
    <2>. QED BY <2>3, <2>5, <2>6 DEF Good
<1>5. CASE q.item \in Collections
    <2>1. q.ask = "group" /\ q.content \subseteq Held(items, Templates) /\ items[q.item] \in CollectionItem
        BY <1>1, <1>5, ItemsDistinct DEF IsItems
    <2>2. after[q.item] \in CollectionItem /\ after[q.item].content = q.content
        BY <1>3, <2>1 DEF CollectionItem, Held
    <2>3. IsItems(after)
        BY <1>3, <1>5, <2>2, ItemsDistinct DEF IsItems
    <2>4. /\ \A t \in Templates : after[t] = items[t]
          /\ Held(after, Templates) = Held(items, Templates)
          /\ Held(after, Collections) = Held(items, Collections)
        BY <1>1, <1>3, <1>5, <2>2, ItemsDistinct DEF Held
    <2>5. Closed(after)
        BY <1>3, <2>1, <2>2, <2>4, ItemsDistinct DEF Closed, Held
    <2>6. Few(after) /\ Effect(items, after, q)
        BY <2>4 DEF Few, Effect
    <2>. QED BY <2>3, <2>5, <2>6 DEF Good
<1>. QED BY <1>4, <1>5

LEMMA DroppedGood ==
    ASSUME NEW items, IsItems(items), Closed(items), Few(items), NEW q, IsRequest(q), q.ask = "drop",
           NEW after \in Dropped(items, q)
    PROVE  Good(items, after, q)
<1>1. after = [i \in Items |->
            IF i = q.item THEN Absent
            ELSE IF i \in Collections /\ items[i] # Absent
                 THEN [items[i] EXCEPT !.content = @ \ {q.item}] ELSE items[i]]
    BY DEF Dropped
<1>2. \A t \in Templates : after[t] = IF t = q.item THEN Absent ELSE items[t]
    BY <1>1, ItemsDistinct
<1>3. \A c \in Collections : after[c] = IF c = q.item \/ items[c] = Absent THEN Absent
                                        ELSE [items[c] EXCEPT !.content = items[c].content \ {q.item}]
    BY <1>1, ItemsDistinct
<1>4. \A c \in Collections : after[c] # Absent =>
            after[c] \in CollectionItem /\ items[c] # Absent /\ after[c].content = items[c].content \ {q.item}
    <2>. SUFFICES ASSUME NEW c \in Collections, after[c] # Absent
                  PROVE  after[c] \in CollectionItem /\ items[c] # Absent /\ after[c].content = items[c].content \ {q.item}
        OBVIOUS
    <2>1. items[c] \in CollectionItem /\ after[c] = [items[c] EXCEPT !.content = items[c].content \ {q.item}]
        BY <1>3 DEF IsItems
    <2>2. items[c].content \ {q.item} \in SUBSET Templates
        BY <2>1 DEF CollectionItem
    <2>. QED BY <1>3, <2>1, <2>2 DEF CollectionItem
<1>5. IsItems(after)
    BY <1>1, <1>2, <1>4 DEF IsItems
<1>6. Held(after, Templates) = Held(items, Templates) \ {q.item}
    BY <1>2 DEF Held
<1>7. Closed(after)
    BY <1>4, <1>6 DEF Closed, Held
<1>8. Few(after)
    <2>1. IsFiniteSet(Held(after, Templates)) /\ Cardinality(Held(after, Templates)) <= Cardinality(Held(items, Templates))
        BY <1>6, FS_Subset DEF Few
    <2>2. Cardinality(Held(after, Templates)) \in Nat /\ Cardinality(Held(items, Templates)) \in Nat
        BY <2>1, FS_CardinalityType DEF Few
    <2>. QED BY <2>1, <2>2, LibraryAssumption DEF Few
<1>9. Effect(items, after, q)
    BY <1>2 DEF Effect
<1>. QED BY <1>5, <1>7, <1>8, <1>9 DEF Good

\* Whatever is asked: what it makes of the items is a library again.
LEMMA ChangeGood ==
    ASSUME NEW items, IsItems(items), Closed(items), Few(items), NEW q, IsRequest(q),
           NEW after \in Change(items, q)
    PROVE  Good(items, after, q)
<1>1. CASE q.ask = "add"
    BY <1>1, AddedGood DEF Change
<1>2. CASE q.ask = "put"
    BY <1>2, PutGood DEF Change, IsRequest
<1>3. CASE q.ask = "group"
    <2>1. q.content \subseteq Held(items, Templates) /\ after \in Put(items, q)
        BY <1>3 DEF Change, Group
    <2>. QED BY <1>3, <2>1, PutGood DEF IsRequest
<1>4. CASE q.ask = "drop"
    BY <1>4, DroppedGood DEF Change
<1>. QED BY <1>1, <1>2, <1>3, <1>4 DEF IsRequest

----------------------------------------------------------------------------
(* The steps.                                                              *)

\* The initial state satisfies the inductive invariant.
LEMMA LibraryInitInv == LibraryInit => LibraryInv
<1>. SUFFICES ASSUME LibraryInit PROVE LibraryInv
    OBVIOUS
<1>1. Held(library.items, Templates) = {} /\ Held(library.items, Collections) = {}
    BY ItemsDistinct DEF LibraryInit, EmptyLibrary, Held
<1>2. Few(library.items) /\ Closed(library.items)
    BY <1>1, FS_EmptySet, LibraryAssumption DEF Few, Closed
<1>3. IsLibrary(library)
    BY <1>2, ItemsDistinct DEF LibraryInit, EmptyLibrary, IsLibrary, IsItems
<1>4. Shapes
    BY <1>3, LibraryAssumption DEF LibraryInit, Shapes, Idling
<1>5. DefaultTyped /\ ReadsKnown /\ SetsKnown
    BY DEF LibraryInit, DefaultTyped, ReadsKnown, SetsKnown, Idling, Changing, Libraries
<1>6. IdsFresh
    BY ItemsDistinct DEF LibraryInit, IdsFresh, Given, Idling, EmptyLibrary
<1>. QED BY <1>4, <1>5, <1>6 DEF LibraryInv

\* What is left of TagsNameContent when the collections are closed.
TagsStep ==
    /\ \A t \in Templates :
        (library.items[t] # Absent /\ library'.items[t] # Absent /\ library'.items[t] # library.items[t])
            => /\ library'.items[t].version = library.items[t].version + 1
               /\ \E u \in LibraryUsers : asking[u].ask = "put" /\ asking[u].q.item = t
                        /\ asking[u].q.tag = library.items[t].version
    /\ \A s \in LayerSetIds :
        (layerSets[s] # Absent /\ layerSets'[s] # Absent /\ layerSets'[s] # layerSets[s])
            => /\ layerSets'[s].version = layerSets[s].version + 1
               /\ \E u \in LibraryUsers : asking[u].ask = "putset" /\ asking[u].tag = layerSets[s].version

LEMMA AsksAsks ==
    ASSUME Shapes, NEW u \in LibraryUsers, NEW r, Asks(u, r)
    PROVE  /\ asking' = [w \in LibraryUsers |-> asking'[w]]
           /\ asking'[u] = r /\ \A w \in LibraryUsers : w # u => asking'[w] = asking[w]
BY DEF Shapes, Asks

\* A request that is over, when the library stays and no layer set appears.
LEMMA Rests ==
    ASSUME LibraryInv, NEW u \in LibraryUsers, Asks(u, Idling), library' = library, issued' = issued,
           \A s \in LayerSetIds : layerSets'[s] # Absent => layerSets[s] # Absent
    PROVE  (ReadsKnown /\ IdsFresh /\ SetsKnown)'
<1>1. /\ asking'[u].ask = "none" /\ \A w \in LibraryUsers : w # u => asking'[w] = asking[w]
    BY AsksAsks DEF LibraryInv, Idling
<1>2. ReadsKnown' /\ SetsKnown'
    BY <1>1 DEF ReadsKnown, SetsKnown, Changing, Libraries, LibraryInv
<1>3. Given(u)' = {} /\ \A w \in LibraryUsers : w # u => Given(w)' = Given(w)
    BY <1>1 DEF Given
<1>4. IdsFresh'
    BY <1>1, <1>3 DEF IdsFresh, LibraryInv
<1>. QED BY <1>2, <1>4

\* A request that begins with nothing but what it was asked.
LEMMA Asked ==
    ASSUME LibraryInv, NEW u \in LibraryUsers, NEW r, Asks(u, r), UNCHANGED <<library, layerSets, default, libraryRev, issued>>,
           r.ask \in {"choose", "putset", "dropset"},
           r.ask = "choose" => r.set \in LayerSetIds \cup {Absent},
           r.ask # "choose" => r.set \in LayerSetIds /\ r.read # Absent /\ r.read.version = r.tag
    PROVE  LibraryInv'
<1>1. /\ asking' = [w \in LibraryUsers |-> asking'[w]]
      /\ asking'[u] = r /\ \A w \in LibraryUsers : w # u => asking'[w] = asking[w]
    BY AsksAsks DEF LibraryInv
<1>2. Shapes'
    BY <1>1 DEF Shapes, LibraryInv
<1>3. DefaultTyped' /\ SetsKnown'
    BY <1>1 DEF DefaultTyped, SetsKnown, LibraryInv
<1>4. ReadsKnown'
    BY <1>1 DEF ReadsKnown, Changing, Libraries, LibraryInv
<1>5. Given(u)' = {} /\ \A w \in LibraryUsers : w # u => Given(w)' = Given(w)
    BY <1>1 DEF Given
<1>6. IdsFresh'
    BY <1>1, <1>5 DEF IdsFresh, LibraryInv
<1>. QED BY <1>2, <1>3, <1>4, <1>6 DEF LibraryInv

LEMMA ReadsLibraryStep ==
    ASSUME LibraryInv, NEW u \in LibraryUsers, NEW q \in TemplateRequests, ReadsLibrary(u, q)
    PROVE  LibraryInv' /\ TagsStep
<1> DEFINE r == [ask |-> q.ask, q |-> q, read |-> library, left |-> MaxAttempts]
<1>1. Asks(u, r) /\ UNCHANGED <<library, layerSets, default, libraryRev>> /\ Change(library.items, q) # {}
    BY DEF ReadsLibrary
<1>2. r.ask = q.ask /\ r.q = q /\ r.read = library
    OBVIOUS
<1>3. IsRequest(q) /\ q.ask \in Libraries
    BY ItemsDistinct DEF TemplateRequests, IsRequest, Libraries, Contents
<1> HIDE DEF r
<1>4. /\ asking' = [w \in LibraryUsers |-> asking'[w]]
      /\ asking'[u] = r /\ \A w \in LibraryUsers : w # u => asking'[w] = asking[w]
    BY <1>1, AsksAsks DEF LibraryInv
<1>5. Shapes'
    BY <1>1, <1>2, <1>3, <1>4 DEF Shapes, LibraryInv, Libraries
<1>6. DefaultTyped' /\ SetsKnown'
    BY <1>1, <1>2, <1>3, <1>4 DEF DefaultTyped, SetsKnown, LibraryInv, Libraries
<1>7. ReadsKnown'
    <2>. SUFFICES ASSUME NEW w \in LibraryUsers, Changing(w)'
                  PROVE  (/\ IsRequest(asking[w].q) /\ asking[w].q.ask = asking[w].ask
                          /\ IsLibrary(asking[w].read)
                          /\ asking[w].read.rev <= library.rev
                          /\ asking[w].read.rev = library.rev => asking[w].read = library)'
        BY DEF ReadsKnown
    <2>1. CASE w = u
        <3>1. IsLibrary(library) /\ library.rev \in Nat
            BY DEF LibraryInv, Shapes, IsLibrary
        <3>. QED BY <1>1, <1>2, <1>3, <1>4, <2>1, <3>1
    <2>2. CASE w # u
        BY <1>1, <1>4, <2>2 DEF LibraryInv, ReadsKnown, Changing
    <2>. QED BY <2>1, <2>2
<1>8. \A w \in LibraryUsers : w # u => Given(w)' = Given(w) /\ Given(w) \subseteq issued
    BY <1>4 DEF Given, LibraryInv, IdsFresh
<1>9. q.ask = "add" => q.item \in Templates /\ q.item \notin issued
    BY <1>3 DEF IsRequest, ReadsLibrary
<1>10. /\ Given(u)' = IF q.ask = "add" THEN {q.item} ELSE {}
       /\ issued' = issued \cup Given(u)'
    BY <1>2, <1>3, <1>4 DEF Given, Libraries, ReadsLibrary
<1>11. \A w \in LibraryUsers : w # u => Given(w)' \cap Given(u)' = {}
    BY <1>8, <1>9, <1>10
<1>12. q.ask = "add" => library.items[q.item] = Absent
    BY <1>9 DEF LibraryInv, IdsFresh
<1>13. IdsFresh'
    <2>1. (\A t \in Templates : library.items[t] # Absent => t \in issued)' /\ (\A s \in LayerSetIds : layerSets[s] # Absent => s \in issued)'
        BY <1>1, <1>10 DEF LibraryInv, IdsFresh
    <2>2. \A w \in LibraryUsers : Given(w)' \subseteq issued'
        BY <1>8, <1>10
    <2>3. \A w \in LibraryUsers :
            /\ asking'[w].ask = "add" => library'.items[asking'[w].q.item] = Absent
            /\ asking'[w].ask = "newset" => asking'[w].set \in LayerSetIds /\ layerSets'[asking'[w].set] = Absent
        BY <1>1, <1>2, <1>3, <1>4, <1>12 DEF LibraryInv, IdsFresh, Libraries
    <2>4. \A v, w \in LibraryUsers : v # w => Given(v)' \cap Given(w)' = {}
        BY <1>8, <1>11 DEF LibraryInv, IdsFresh
    <2>. QED BY <2>1, <2>2, <2>3, <2>4 DEF IdsFresh
<1>14. TagsStep
    BY <1>1 DEF TagsStep
<1>. QED BY <1>5, <1>6, <1>7, <1>13, <1>14 DEF LibraryInv

\* What a write of the library makes of it, when nobody else wrote since.
LEMMA Written ==
    ASSUME LibraryInv, NEW u \in LibraryUsers, Changing(u), library.rev = asking[u].read.rev, NEW rev \in Nat,
           NEW items \in Change(asking[u].read.items, asking[u].q)
    PROVE  LET new == [rev |-> rev, items |-> Stamped(library.items, items)]
           IN  /\ IsLibrary(new)
               /\ \A t \in Templates :
                    /\ library.items[t] = Absent /\ new.items[t] # Absent =>
                        asking[u].ask = "add" /\ asking[u].q.item = t
                    /\ library.items[t] # Absent /\ new.items[t] # Absent /\ new.items[t] # library.items[t] =>
                        /\ new.items[t].version = library.items[t].version + 1
                        /\ asking[u].ask = "put" /\ asking[u].q.item = t /\ asking[u].q.tag = library.items[t].version
<1> DEFINE before == library.items
           q == asking[u].q
           S == Stamped(before, items)
<1>1. asking[u].read = library /\ IsRequest(q) /\ q.ask = asking[u].ask
    BY DEF LibraryInv, ReadsKnown
<1>2. IsItems(before) /\ Closed(before) /\ Few(before)
    BY DEF LibraryInv, Shapes, IsLibrary
<1>3. IsItems(items) /\ Closed(items) /\ Few(items) /\ Effect(before, items, q)
    BY <1>1, <1>2, ChangeGood DEF Good
<1>4. IsItems(S) /\ Closed(S) /\ Few(S)
    BY <1>2, <1>3, StampedIs, StampedKeeps
<1>5. \A t \in Templates : S[t] = Absent <=> items[t] = Absent
    BY <1>2, <1>3, StampedIs, ItemsDistinct
<1>6. ASSUME NEW t \in Templates, before[t] # Absent, S[t] # Absent, S[t] # before[t]
      PROVE  S[t].version = before[t].version + 1 /\ items[t] # before[t]
    <2>1. items[t] # Absent /\ t \in Items
        BY <1>5, <1>6, ItemsDistinct
    <2>2. before[t] \in TemplateItem /\ items[t] \in TemplateItem /\ S[t] \in TemplateItem
        BY <1>2, <1>3, <1>4, <1>6, <2>1 DEF IsItems
    <2>3. S[t].content = items[t].content
        BY <1>2, <1>3, <2>1, StampedIs
    <2>4. /\ before[t].content = items[t].content => S[t].version = before[t].version
          /\ before[t].content # items[t].content => S[t].version = before[t].version + 1
        BY <1>2, <1>3, <1>6, <2>1, StampedIs
    <2>5. before[t].content = items[t].content => S[t] = before[t]
        BY <2>2, <2>3, <2>4 DEF TemplateItem
    <2>. QED BY <1>6, <2>4, <2>5
<1> HIDE DEF S
<1>7. \A t \in Templates :
        before[t] # Absent /\ S[t] # Absent /\ S[t] # before[t] =>
            /\ S[t].version = before[t].version + 1
            /\ asking[u].ask = "put" /\ q.item = t /\ q.tag = before[t].version
    <2>. SUFFICES ASSUME NEW t \in Templates, before[t] # Absent, S[t] # Absent, S[t] # before[t]
                  PROVE  /\ S[t].version = before[t].version + 1
                         /\ asking[u].ask = "put" /\ q.item = t /\ q.tag = before[t].version
        OBVIOUS
    <2>1. S[t].version = before[t].version + 1 /\ items[t] # before[t] /\ items[t] # Absent
        BY <1>5, <1>6
    <2>2. ~(q.ask = "add" /\ q.item = t)
        BY <1>1 DEF LibraryInv, IdsFresh
    <2>3. q.ask = "put" /\ q.item = t /\ q.tag = before[t].version
        BY <1>3, <2>1, <2>2 DEF Effect
    <2>. QED BY <1>1, <2>1, <2>3
<1>8. \A t \in Templates : before[t] = Absent /\ S[t] # Absent => asking[u].ask = "add" /\ q.item = t
    BY <1>1, <1>3, <1>5 DEF Effect
<1>9. IsLibrary([rev |-> rev, items |-> S])
    BY <1>4 DEF IsLibrary
<1>. QED BY <1>7, <1>8, <1>9 DEF S

LEMMA WritesLibraryStep ==
    ASSUME LibraryInv, NEW u \in LibraryUsers, WritesLibrary(u)
    PROVE  LibraryInv' /\ TagsStep
<1>1. Changing(u) /\ library.rev = asking[u].read.rev /\ Asks(u, Idling) /\ UNCHANGED <<layerSets, default, issued>>
    BY DEF WritesLibrary, Changing
<1>2. asking[u].read = library
    BY <1>1 DEF LibraryInv, ReadsKnown
<1>3. /\ asking' = [w \in LibraryUsers |-> asking'[w]]
      /\ asking'[u] = Idling /\ \A w \in LibraryUsers : w # u => asking'[w] = asking[w]
    BY <1>1, AsksAsks DEF LibraryInv
<1>4. Given(u)' = {} /\ \A w \in LibraryUsers : w # u => Given(w)' = Given(w)
    BY <1>3 DEF Given, Idling
<1>5. IsLibrary(library) /\ library.rev \in Nat /\ libraryRev \in Nat /\ library.rev <= libraryRev
    BY DEF LibraryInv, Shapes, IsLibrary
<1>6. CASE UNCHANGED <<library, libraryRev>>
    <2>1. Shapes' /\ DefaultTyped'
        BY <1>1, <1>3, <1>6 DEF LibraryInv, Shapes, DefaultTyped, Idling
    <2>2. (ReadsKnown /\ IdsFresh /\ SetsKnown)'
        BY <1>1, <1>6, Rests
    <2>3. TagsStep
        BY <1>1, <1>6 DEF TagsStep
    <2>. QED BY <2>1, <2>2, <2>3 DEF LibraryInv
<1>7. ASSUME NEW items \in Change(asking[u].read.items, asking[u].q), libraryRev < MaxLibraryWrites,
             library' = [rev |-> libraryRev + 1, items |-> Stamped(library.items, items)], libraryRev' = libraryRev + 1
      PROVE  LibraryInv' /\ TagsStep
    <2>1. /\ IsLibrary(library')
          /\ \A t \in Templates :
                /\ library.items[t] = Absent /\ library'.items[t] # Absent =>
                    asking[u].ask = "add" /\ asking[u].q.item = t
                /\ library.items[t] # Absent /\ library'.items[t] # Absent /\ library'.items[t] # library.items[t] =>
                    /\ library'.items[t].version = library.items[t].version + 1
                    /\ asking[u].ask = "put" /\ asking[u].q.item = t /\ asking[u].q.tag = library.items[t].version
        BY <1>1, <1>5, <1>7, Written
    <2>2. library'.rev = libraryRev + 1
        BY <1>7
    <2>3. Shapes'
        BY <1>1, <1>3, <1>5, <1>7, <2>1, <2>2, LibraryAssumption DEF LibraryInv, Shapes, Idling
    <2>4. DefaultTyped'
        BY <1>1, <1>3, <1>5, <1>7 DEF LibraryInv, DefaultTyped, Idling
    <2>5. ReadsKnown'
        <3>. SUFFICES ASSUME NEW w \in LibraryUsers, Changing(w)'
                      PROVE  (/\ IsRequest(asking[w].q) /\ asking[w].q.ask = asking[w].ask
                              /\ IsLibrary(asking[w].read)
                              /\ asking[w].read.rev <= library.rev
                              /\ asking[w].read.rev = library.rev => asking[w].read = library)'
            BY DEF ReadsKnown
        <3>1. w # u
            BY <1>3 DEF Changing, Idling, Libraries
        <3>2. /\ IsRequest(asking[w].q) /\ asking[w].q.ask = asking[w].ask
              /\ IsLibrary(asking[w].read) /\ asking[w].read.rev \in Nat /\ asking[w].read.rev <= library.rev
            BY <1>3, <3>1 DEF LibraryInv, ReadsKnown, Changing, IsLibrary
        <3>. QED BY <1>3, <1>5, <2>2, <3>1, <3>2
    <2>6. SetsKnown'
        BY <1>1, <1>3 DEF LibraryInv, SetsKnown, Idling
    <2>7. IdsFresh'
        <3>1. \A t \in Templates : library'.items[t] # Absent => t \in issued'
            BY <1>1, <2>1 DEF LibraryInv, IdsFresh, Given
        <3>2. ASSUME NEW w \in LibraryUsers, asking'[w].ask = "add" PROVE library'.items[asking'[w].q.item] = Absent
            <4>1. w # u /\ asking'[w] = asking[w]
                BY <1>3, <3>2 DEF Idling
            <4>2. asking[w].q.item \in Templates /\ library.items[asking[w].q.item] = Absent
                BY <3>2, <4>1 DEF LibraryInv, IdsFresh, ReadsKnown, Changing, Libraries, IsRequest
            <4>3. asking[u].ask = "add" => asking[u].q.item # asking[w].q.item
                BY <3>2, <4>1 DEF LibraryInv, IdsFresh, Given
            <4>. QED BY <2>1, <4>1, <4>2, <4>3
        <3>3. \A w \in LibraryUsers : asking'[w].ask = "newset" => asking'[w].set \in LayerSetIds /\ layerSets'[asking'[w].set] = Absent
            BY <1>1, <1>3 DEF LibraryInv, IdsFresh, Idling
        <3>4. \A w \in LibraryUsers : Given(w)' \subseteq issued'
            BY <1>1, <1>4 DEF LibraryInv, IdsFresh
        <3>5. \A v, w \in LibraryUsers : v # w => Given(v)' \cap Given(w)' = {}
            BY <1>4 DEF LibraryInv, IdsFresh
        <3>6. \A s \in LayerSetIds : layerSets'[s] # Absent => s \in issued'
            BY <1>1 DEF LibraryInv, IdsFresh
        <3>. QED BY <3>1, <3>2, <3>3, <3>4, <3>5, <3>6 DEF IdsFresh
    <2>8. TagsStep
        BY <1>1, <2>1 DEF TagsStep
    <2>. QED BY <2>3, <2>4, <2>5, <2>6, <2>7, <2>8 DEF LibraryInv
<1>. QED BY <1>2, <1>6, <1>7 DEF WritesLibrary

LEMMA RetriesLibraryStep ==
    ASSUME LibraryInv, NEW u \in LibraryUsers, RetriesLibrary(u)
    PROVE  LibraryInv' /\ TagsStep
<1>1. UNCHANGED <<library, layerSets, default, libraryRev, issued>> /\ Changing(u)
    BY DEF RetriesLibrary, Changing
<1>2. TagsStep
    BY <1>1 DEF TagsStep
<1>3. CASE Asks(u, Idling)
    <2>1. (ReadsKnown /\ IdsFresh /\ SetsKnown)'
        BY <1>1, <1>3, Rests
    <2>2. asking' = [w \in LibraryUsers |-> asking'[w]] /\ asking'[u] = Idling /\ \A w \in LibraryUsers : w # u => asking'[w] = asking[w]
        BY <1>3, AsksAsks DEF LibraryInv
    <2>3. Shapes' /\ DefaultTyped'
        BY <1>1, <2>2 DEF LibraryInv, Shapes, DefaultTyped, Idling
    <2>. QED BY <1>2, <2>1, <2>3 DEF LibraryInv
<1>4. ASSUME NEW r, Asks(u, r), r.ask = asking[u].ask, r.q = asking[u].q, r.read = library PROVE LibraryInv'
    <2>1. asking' = [w \in LibraryUsers |-> asking'[w]] /\ asking'[u] = r /\ \A w \in LibraryUsers : w # u => asking'[w] = asking[w]
        BY <1>4, AsksAsks DEF LibraryInv
    <2>2. Shapes' /\ DefaultTyped' /\ SetsKnown'
        BY <1>1, <1>4, <2>1 DEF LibraryInv, Shapes, DefaultTyped, SetsKnown, Changing, Libraries
    <2>3. IsLibrary(library) /\ library.rev \in Nat
        BY DEF LibraryInv, Shapes, IsLibrary
    <2>4. ReadsKnown'
        BY <1>1, <1>4, <2>1, <2>3 DEF LibraryInv, ReadsKnown, Changing
    <2>5. \A w \in LibraryUsers : Given(w)' = Given(w)
        BY <1>1, <1>4, <2>1 DEF Given, Changing, Libraries
    <2>6. IdsFresh'
        BY <1>1, <1>4, <2>1, <2>5 DEF LibraryInv, IdsFresh, Changing, Libraries
    <2>. QED BY <2>2, <2>4, <2>6 DEF LibraryInv
<1>5. CASE Asks(u, [asking[u] EXCEPT !.read = library, !.left = @ - 1])
    <2> DEFINE r == [asking[u] EXCEPT !.read = library, !.left = @ - 1]
    <2>1. r.ask = asking[u].ask /\ r.q = asking[u].q /\ r.read = library
        BY <1>1 DEF LibraryInv, ReadsKnown
    <2>. QED BY <1>4, <1>5, <2>1, <1>2
<1>. QED BY <1>2, <1>3, <1>5 DEF RetriesLibrary

LEMMA CountsLayerSetsStep ==
    ASSUME LibraryInv, NEW u \in LibraryUsers, NEW s \in LayerSetIds, CountsLayerSets(u, s)
    PROVE  LibraryInv' /\ TagsStep
<1>1. /\ UNCHANGED <<library, layerSets, default, libraryRev>> /\ s \notin issued /\ issued' = issued \cup {s}
      /\ Asks(u, [ask |-> "newset", set |-> s])
    BY DEF CountsLayerSets
<1>2. /\ asking' = [w \in LibraryUsers |-> asking'[w]]
      /\ asking'[u].ask = "newset" /\ asking'[u].set = s /\ \A w \in LibraryUsers : w # u => asking'[w] = asking[w]
    BY <1>1, AsksAsks DEF LibraryInv
<1>3. Shapes' /\ DefaultTyped' /\ SetsKnown' /\ ReadsKnown' /\ TagsStep
    BY <1>1, <1>2 DEF LibraryInv, Shapes, DefaultTyped, SetsKnown, ReadsKnown, Changing, Libraries, TagsStep
<1>4. Given(u)' = {s} /\ \A w \in LibraryUsers : w # u => Given(w)' = Given(w) /\ Given(w) \subseteq issued
    BY <1>2 DEF Given, LibraryInv, IdsFresh
<1>5. IdsFresh'
    BY <1>1, <1>2, <1>4 DEF LibraryInv, IdsFresh
<1>. QED BY <1>3, <1>5 DEF LibraryInv

LEMMA CreateLayerSetStep ==
    ASSUME LibraryInv, NEW u \in LibraryUsers, CreateLayerSet(u)
    PROVE  LibraryInv' /\ TagsStep
<1> DEFINE s == asking[u].set
<1>1. /\ asking[u].ask = "newset" /\ libraryRev < MaxLibraryWrites /\ libraryRev' = libraryRev + 1
      /\ Asks(u, Idling) /\ UNCHANGED <<library, default, issued>>
    BY DEF CreateLayerSet
<1>2. /\ asking' = [w \in LibraryUsers |-> asking'[w]]
      /\ asking'[u] = Idling /\ \A w \in LibraryUsers : w # u => asking'[w] = asking[w]
    BY <1>1, AsksAsks DEF LibraryInv
<1>3. s \in LayerSetIds /\ layerSets[s] = Absent /\ s \in issued /\ s \in Given(u)
    BY <1>1 DEF LibraryInv, IdsFresh, Given
<1>4. layerSets' = [x \in LayerSetIds |-> layerSets'[x]] /\ \A x \in LayerSetIds : x # s => layerSets'[x] = layerSets[x]
    BY DEF CreateLayerSet, LibraryInv, Shapes
<1>5. Shapes'
    <2>1. library.rev \in Nat
        BY DEF LibraryInv, Shapes, IsLibrary
    <2>. QED BY <1>1, <1>2, <1>4, <2>1, LibraryAssumption DEF LibraryInv, Shapes, Idling
<1>6. DefaultTyped' /\ SetsKnown' /\ ReadsKnown'
    BY <1>1, <1>2 DEF LibraryInv, Shapes, DefaultTyped, SetsKnown, ReadsKnown, Changing, Libraries, Idling
<1>7. Given(u)' = {} /\ \A w \in LibraryUsers : w # u => Given(w)' = Given(w) /\ s \notin Given(w)
    <2>1. \A w \in LibraryUsers : w # u => Given(u) \cap Given(w) = {}
        BY DEF LibraryInv, IdsFresh
    <2>2. Given(u)' = {} /\ \A w \in LibraryUsers : w # u => Given(w)' = Given(w)
        BY <1>2 DEF Given, Idling
    <2>. QED BY <1>3, <2>1, <2>2
<1>8. \A w \in LibraryUsers : asking'[w].ask = "newset" => asking'[w].set \in LayerSetIds /\ layerSets'[asking'[w].set] = Absent
    <2>. SUFFICES ASSUME NEW w \in LibraryUsers, asking'[w].ask = "newset"
                  PROVE  asking'[w].set \in LayerSetIds /\ layerSets'[asking'[w].set] = Absent
        OBVIOUS
    <2>1. w # u /\ asking'[w] = asking[w]
        BY <1>2 DEF Idling
    <2>2. asking[w].set \in LayerSetIds /\ layerSets[asking[w].set] = Absent
        BY <2>1 DEF LibraryInv, IdsFresh
    <2>3. asking[w].set # s
        BY <1>7, <2>1 DEF Given
    <2>. QED BY <1>4, <2>1, <2>2, <2>3
<1>9. \A w \in LibraryUsers : asking'[w].ask = "add" => library'.items[asking'[w].q.item] = Absent
    BY <1>1, <1>2 DEF LibraryInv, IdsFresh, Idling
<1>10. IdsFresh'
    BY <1>1, <1>3, <1>4, <1>7, <1>8, <1>9 DEF LibraryInv, IdsFresh
<1>11. TagsStep
    BY <1>1, <1>3, <1>4 DEF TagsStep
<1>. QED BY <1>5, <1>6, <1>10, <1>11 DEF LibraryInv

LEMMA LayerSetStep ==
    ASSUME LibraryInv, NEW u \in LibraryUsers,
           DeleteLayerSet(u) \/ RetriesLayerSet(u) \/ WriteDefaultLayerSet(u) \/ \E x \in Contents : UpdateLayerSet(u, x)
    PROVE  LibraryInv' /\ TagsStep
<1> DEFINE s == asking[u].set
<1>1. Asks(u, Idling) /\ UNCHANGED <<library, issued>>
    BY DEF DeleteLayerSet, RetriesLayerSet, WriteDefaultLayerSet, UpdateLayerSet
<1>2. /\ asking' = [w \in LibraryUsers |-> asking'[w]]
      /\ asking'[u] = Idling /\ \A w \in LibraryUsers : w # u => asking'[w] = asking[w]
    BY <1>1, AsksAsks DEF LibraryInv
<1>3. library.rev \in Nat
    BY DEF LibraryInv, Shapes, IsLibrary
<1>4. ASSUME /\ layerSets' = [x \in LayerSetIds |-> layerSets'[x]]
             /\ \A x \in LayerSetIds : layerSets'[x] # Absent => layerSets[x] # Absent
             /\ UNCHANGED libraryRev \/ (libraryRev < MaxLibraryWrites /\ libraryRev' = libraryRev + 1)
             /\ default'.rev \in 0 .. libraryRev' /\ default'.set \in LayerSetIds \cup {Absent}
      PROVE  LibraryInv'
    <2>1. Shapes' /\ DefaultTyped'
        BY <1>1, <1>2, <1>3, <1>4, LibraryAssumption DEF LibraryInv, Shapes, DefaultTyped, Idling
    <2>. QED BY <1>1, <1>4, <2>1, Rests DEF LibraryInv
<1>5. CASE RetriesLayerSet(u)
    <2>1. UNCHANGED <<layerSets, default, libraryRev>>
        BY <1>5 DEF RetriesLayerSet
    <2>. QED BY <1>1, <1>4, <2>1 DEF LibraryInv, Shapes, DefaultTyped, TagsStep
<1>6. CASE DeleteLayerSet(u)
    <2>1. /\ UNCHANGED <<default, libraryRev>> /\ layerSets' = [layerSets EXCEPT ![s] = Absent]
          /\ s \in LayerSetIds
        BY <1>6 DEF DeleteLayerSet, LibraryInv, SetsKnown
    <2>2. /\ layerSets' = [x \in LayerSetIds |-> layerSets'[x]]
          /\ layerSets'[s] = Absent /\ \A x \in LayerSetIds : x # s => layerSets'[x] = layerSets[x]
        BY <2>1 DEF LibraryInv, Shapes
    <2>. QED BY <1>1, <1>4, <2>1, <2>2 DEF LibraryInv, Shapes, DefaultTyped, TagsStep
<1>7. CASE WriteDefaultLayerSet(u)
    <2>1. asking[u].ask = "choose" /\ layerSets' = layerSets
        BY <1>7 DEF WriteDefaultLayerSet
    <2>2. asking[u].set \in LayerSetIds \cup {Absent}
        BY <2>1 DEF LibraryInv, DefaultTyped
    <2>3. /\ UNCHANGED libraryRev \/ (libraryRev < MaxLibraryWrites /\ libraryRev' = libraryRev + 1)
          /\ default'.rev \in 0 .. libraryRev' /\ default'.set \in LayerSetIds \cup {Absent}
        BY <1>7, <2>2 DEF WriteDefaultLayerSet, LibraryInv, DefaultTyped, Shapes
    <2>. QED BY <1>1, <1>4, <2>1, <2>3 DEF LibraryInv, Shapes, TagsStep
<1>8. ASSUME NEW x \in Contents, UpdateLayerSet(u, x) PROVE LibraryInv' /\ TagsStep
    <2>1. /\ asking[u].ask = "putset" /\ layerSets[s] = asking[u].read /\ UNCHANGED default
          /\ s \in LayerSetIds /\ asking[u].read # Absent /\ asking[u].read.version = asking[u].tag
        BY <1>8 DEF UpdateLayerSet, LibraryInv, SetsKnown
    <2>2. CASE UNCHANGED <<layerSets, libraryRev>>
        BY <1>1, <1>4, <2>1, <2>2 DEF LibraryInv, Shapes, DefaultTyped, TagsStep
    <2>3. CASE /\ libraryRev < MaxLibraryWrites /\ libraryRev' = libraryRev + 1
               /\ layerSets' = [layerSets EXCEPT ![s] =
                        [version |-> asking[u].read.version + 1, content |-> x, rev |-> libraryRev + 1]]
        <3>1. /\ layerSets' = [y \in LayerSetIds |-> layerSets'[y]]
              /\ layerSets'[s].version = asking[u].read.version + 1 /\ \A y \in LayerSetIds : y # s => layerSets'[y] = layerSets[y]
            BY <2>1, <2>3 DEF LibraryInv, Shapes
        <3>2. default'.rev \in 0 .. libraryRev'
            BY <2>1, <2>3 DEF LibraryInv, DefaultTyped, Shapes
        <3>3. LibraryInv'
            BY <1>4, <2>1, <2>3, <3>1, <3>2 DEF LibraryInv, DefaultTyped
        <3>. QED BY <1>1, <2>1, <3>1, <3>3 DEF TagsStep
    <2>. QED BY <1>8, <2>2, <2>3 DEF UpdateLayerSet
<1>. QED BY <1>5, <1>6, <1>7, <1>8

LEMMA AskedStep ==
    ASSUME LibraryInv, NEW u \in LibraryUsers,
           \/ \E s \in LayerSetIds, a \in {"putset", "dropset"}, t \in Tags : ReadsLayerSet(u, a, s, t)
           \/ \E s \in LayerSetIds \cup {Absent} : ChoosesDefault(u, s)
    PROVE  LibraryInv' /\ TagsStep
<1>1. ASSUME NEW s \in LayerSetIds, NEW a \in {"putset", "dropset"}, NEW t \in Tags, ReadsLayerSet(u, a, s, t)
      PROVE  LibraryInv' /\ TagsStep
    <2> DEFINE r == [ask |-> a, set |-> s, tag |-> t, read |-> layerSets[s]]
    <2>1. r.ask = a /\ r.set = s /\ r.tag = t /\ r.read = layerSets[s]
        OBVIOUS
    <2>2. /\ UNCHANGED <<library, layerSets, default, libraryRev, issued>> /\ Asks(u, r)
          /\ layerSets[s] # Absent /\ layerSets[s].version = t
        BY <1>1 DEF ReadsLayerSet
    <2> HIDE DEF r
    <2>. QED BY <2>1, <2>2, Asked DEF TagsStep
<1>2. ASSUME NEW s \in LayerSetIds \cup {Absent}, ChoosesDefault(u, s)
      PROVE  LibraryInv' /\ TagsStep
    <2> DEFINE r == [ask |-> "choose", set |-> s, tag |-> default.rev]
    <2>1. r.ask = "choose" /\ r.set = s
        OBVIOUS
    <2>2. UNCHANGED <<library, layerSets, default, libraryRev, issued>> /\ Asks(u, r)
        BY <1>2 DEF ChoosesDefault
    <2> HIDE DEF r
    <2>. QED BY <2>1, <2>2, Asked DEF TagsStep
<1>. QED BY <1>1, <1>2

\* Every step keeps the inductive invariant, and is of an editor that saw
\* what it replaces.
LEMMA LibraryStepInv == LibraryInv /\ [LibraryNext]_libraryVars => LibraryInv' /\ TagsStep
<1> SUFFICES ASSUME LibraryInv, [LibraryNext]_libraryVars PROVE LibraryInv' /\ TagsStep
    OBVIOUS
<1>1. CASE UNCHANGED libraryVars
    <2>1. UNCHANGED <<library, layerSets, default, libraryRev, issued, asking>>
        BY <1>1 DEF libraryVars
    <2>2. \A u \in LibraryUsers : Given(u)' = Given(u)
        BY <2>1 DEF Given
    <2>. QED BY <2>1, <2>2 DEF LibraryInv, Shapes, DefaultTyped, ReadsKnown, IdsFresh, SetsKnown, Changing, TagsStep
<1>2. ASSUME LibraryNext PROVE LibraryInv' /\ TagsStep
    BY <1>2, ReadsLibraryStep, WritesLibraryStep, RetriesLibraryStep, CountsLayerSetsStep, CreateLayerSetStep,
        LayerSetStep, AskedStep DEF LibraryNext
<1>. QED BY <1>1, <1>2

\* The types of Library's variables, and that there are never more templates
\* than MaxTemplates, though it is another request's library the limit was
\* looked at in.
THEOREM LibraryTypes == LibrarySpec => []LibraryTypeOK
<1>1. LibraryInv => LibraryTypeOK
    <2>. SUFFICES ASSUME LibraryInv PROVE LibraryTypeOK
        OBVIOUS
    <2>1. IsLibrary(library) /\ library.rev \in 0 .. MaxLibraryWrites
        BY LibraryAssumption DEF LibraryInv, Shapes, IsLibrary
    <2>2. \A t \in Held(library.items, Templates) : library.items[t].content \in Nat /\ library.items[t].version \in Nat
        BY <2>1 DEF IsLibrary, IsItems, Held, TemplateItem
    <2>3. \A c \in Held(library.items, Collections) : library.items[c].content \subseteq Templates
        BY <2>1 DEF IsLibrary, IsItems, Held, CollectionItem
    <2>4. Cardinality(Held(library.items, Templates)) <= MaxTemplates
        BY <2>1 DEF IsLibrary, Few
    <2>. QED BY <2>1, <2>2, <2>3, <2>4 DEF LibraryTypeOK, LibraryInv, Shapes, DefaultTyped
<1>. QED BY LibraryInitInv, LibraryStepInv, <1>1, PTL DEF LibrarySpec

\* A tag names one content: an item of the library, or a layer set, changes
\* only at the version its editor named, to the next one, however often the
\* change was worked out again; and no collection names a template that is
\* gone.
THEOREM TagsHold == LibrarySpec => TagsNameContent
<1>1. LibraryInv' => CollectionsClosed'
    BY DEF LibraryInv, Shapes, IsLibrary, Closed, CollectionsClosed, Held
<1>2. LibraryInv /\ [LibraryNext]_libraryVars => LibraryInv'
        /\ [/\ CollectionsClosed'
            /\ \A t \in Templates :
                 (library.items[t] # Absent /\ library'.items[t] # Absent /\ library'.items[t] # library.items[t])
                     => /\ library'.items[t].version = library.items[t].version + 1
                        /\ \E u \in LibraryUsers : asking[u].ask = "put" /\ asking[u].q.item = t
                                 /\ asking[u].q.tag = library.items[t].version
            /\ \A s \in LayerSetIds :
                 (layerSets[s] # Absent /\ layerSets'[s] # Absent /\ layerSets'[s] # layerSets[s])
                     => /\ layerSets'[s].version = layerSets[s].version + 1
                        /\ \E u \in LibraryUsers : asking[u].ask = "putset" /\ asking[u].tag = layerSets[s].version]_libraryVars
    BY <1>1, LibraryStepInv DEF TagsStep
<1>. QED BY LibraryInitInv, <1>2, PTL DEF LibrarySpec, TagsNameContent

(***************************************************************************)
(* Publication. The document of a topology outlives three kinds of         *)
(* removals because every write of one gives it a new revision and makes   *)
(* it young: what a sweep or the delete hook has listed is an earlier      *)
(* revision, or was not young. Inductive is that no removal under way      *)
(* names the document of the topology, nor the one that a publication is   *)
(* about to write into it; that after its write the topology is gone or    *)
(* the publication's; that the revision a publication read determines the  *)
(* draft; and that the experiment does not run from the second reading on. *)
(***************************************************************************)
Draft == [doc : Documents, rev : Nat, snap : Nat, last : PublishedTo \cup {Nothing}]
MaybeExperiment == StoredExperiment \cup {Nothing}
AfterIdle == Stages \ {"idle"}
Publishing == [at : AfterIdle, request : Requests, meta : Draft, applied : BOOLEAN, done : BOOLEAN, spec : MaybeExperiment]
AnswerGiven == [is : {"succeeded", "partial", "refused"}, request : Requests] \cup {NoAnswer}
Listings == SUBSET (Documents \X Nat)

Stored ==
    /\ work \in [PublishDrafts -> Draft]
    /\ documents \in [Documents -> StoredDocument \cup {Nothing}]
    /\ topology \in StoredTopology \cup {Nothing}
    /\ experiment \in MaybeExperiment

Acting ==
    /\ expLock \in {"free", "publish", "start", "stop"}
    /\ publisher = IdlePublisher \/ publisher \in Publishing
    /\ expLock = "publish" <=> publisher.at \in {"reread", "update", "configure", "restore", "record"}
    /\ answer \in AnswerGiven
    /\ alone \in BOOLEAN
    /\ orphans \in [at : {"idle", "live", "remove"}, live : Documents \cup {Nothing}, listed : Listings]
    /\ hook \in Listings
    /\ budget \in [publishes : 0 .. MaxPublishes, others : Nat, faults : Nat, crashes : Nat]

\* The experiment, from the second reading to the end of its write.
Prepared ==
    /\ publisher.at = "update" =>
        \/ publisher.request.experiment = "create" /\ experiment = Nothing
        \/ /\ publisher.request.experiment # "create" /\ publisher.spec \in StoredExperiment
           /\ ~publisher.spec.running /\ experiment # Nothing /\ ~experiment.running
    /\ publisher.at \in {"configure", "restore"} =>
        publisher.spec \in StoredExperiment /\ experiment # Nothing /\ ~experiment.running

Configured ==
    /\ (experiment # Nothing /\ ~experiment.configured) => budget.crashes > 0 \/ publisher.at \in {"configure", "restore"}
    /\ (publisher.at \in {"update", "configure", "restore"} /\ publisher.spec # Nothing /\ ~publisher.spec.configured)
            => budget.crashes > 0

\* Revisions go up with each publication.
Before == publisher.at \in {"topology", "experiment", "document"}
Until(rev) == rev <= budget.publishes /\ (Before => rev < budget.publishes)

Revisions ==
    /\ \A d \in Documents : documents[d] # Nothing => Until(documents[d].rev)
    /\ \A h \in hook \cup orphans.listed : Until(h[2])

\* The document is there and no removal under way names it.
Safe(d) == documents[d] # Nothing /\ <<d, documents[d].rev>> \notin hook \cup orphans.listed

Writing == publisher.at = "write" /\ ~publisher.applied /\ CanWrite

DocumentsSafe ==
    /\ topology # Nothing =>
        /\ Safe(topology.ref)
        /\ orphans.at # "idle" => topology.ref = orphans.live \/ documents[topology.ref].young
    /\ Writing => Safe(Doc) /\ documents[Doc].young
    /\ orphans.at # "remove" => orphans.listed = {}

TopologyOurs ==
    /\ (publisher.at \in {"experiment", "document", "write"} /\ ~publisher.applied
            /\ publisher.request.topology = "create") => topology = Nothing
    /\ topology # Nothing /\ publisher.at \notin {"idle", "topology"} =>
        \/ topology.ref = Doc
        \/ publisher.at \in {"experiment", "document", "write"} /\ ~publisher.applied

DraftsKnown ==
    /\ \A b \in PublishDrafts :
        /\ work[b].snap <= work[b].rev
        /\ work[b].last # Nothing => work[b].last.snap <= work[b].rev
    /\ publisher.at # "idle" =>
        LET w == work[publisher.request.draft]
        IN  Meta.rev <= w.rev /\ (Meta.rev = w.rev => Meta = w)

PublicationInv ==
    /\ Stored /\ Acting /\ Prepared /\ Configured /\ Revisions /\ DocumentsSafe /\ TopologyOurs
    /\ DraftsKnown /\ MarkedIsPublished

----------------------------------------------------------------------------
(* What the variables hold.                                                *)

Budget == [publishes : 0 .. MaxPublishes, others : Nat, faults : Nat, crashes : Nat]

\* The publication goes on at a stage; it is over.
GoesOn(label) ==
    /\ publisher' \in Publishing /\ publisher'.at = label
    /\ publisher'.request = publisher.request /\ publisher'.meta = publisher.meta

Over == publisher' = IdlePublisher

LEMMA IdleIs ==
    /\ IdlePublisher.at = "idle"
    /\ Acting => (publisher.at # "idle" <=> publisher \in Publishing)
BY DEF IdlePublisher, Acting, Publishing, AfterIdle

LEMMA PublishingFields ==
    ASSUME NEW p \in Publishing
    PROVE  /\ p.at \in AfterIdle /\ p.request \in Requests /\ p.meta \in Draft
           /\ p.applied \in BOOLEAN /\ p.spec \in MaybeExperiment
BY DEF Publishing

LEMMA PublishingGoes ==
    ASSUME NEW p \in Publishing, NEW label \in AfterIdle
    PROVE  /\ [p EXCEPT !.at = label] \in Publishing /\ [p EXCEPT !.at = label].at = label
           /\ [p EXCEPT !.at = label].request = p.request /\ [p EXCEPT !.at = label].meta = p.meta
           /\ [p EXCEPT !.at = label].applied = p.applied /\ [p EXCEPT !.at = label].spec = p.spec
BY DEF Publishing

\* What preflight learns: whether the topology, and the experiment, are
\* applied already.
LEMMA LearnsApplied ==
    ASSUME publisher \in Publishing, NEW x \in BOOLEAN, publisher' = [publisher EXCEPT !.at = "experiment", !.applied = x]
    PROVE  GoesOn("experiment") /\ publisher'.applied = x
<1> DEFINE p == [publisher EXCEPT !.at = "experiment", !.applied = x]
<1>1. p \in Publishing
    BY DEF Publishing, AfterIdle, Stages
<1>2. p.at = "experiment" /\ p.request = publisher.request /\ p.meta = publisher.meta
    BY DEF Publishing
<1>3. p.applied = x
    BY DEF Publishing
<1>4. publisher' = p
    OBVIOUS
<1> HIDE DEF p
<1>. QED BY <1>1, <1>2, <1>3, <1>4 DEF GoesOn

LEMMA LearnsDone ==
    ASSUME publisher \in Publishing, NEW x \in BOOLEAN, publisher' = [publisher EXCEPT !.at = "document", !.done = x]
    PROVE  GoesOn("document") /\ publisher'.applied = publisher.applied
<1> DEFINE p == [publisher EXCEPT !.at = "document", !.done = x]
<1>1. p \in Publishing
    BY DEF Publishing, AfterIdle, Stages
<1>2. p.at = "document" /\ p.request = publisher.request /\ p.meta = publisher.meta
    BY DEF Publishing
<1>3. p.applied = publisher.applied
    BY DEF Publishing
<1>4. publisher' = p
    OBVIOUS
<1> HIDE DEF p
<1>. QED BY <1>1, <1>2, <1>3, <1>4 DEF GoesOn

\* The publication goes on with nothing but its stage changed.
LEMMA GoesOnIs ==
    ASSUME Acting, publisher.at # "idle", NEW label \in AfterIdle, publisher' = [publisher EXCEPT !.at = label]
    PROVE  GoesOn(label) /\ publisher'.applied = publisher.applied /\ publisher'.spec = publisher.spec
BY IdleIs, PublishingGoes DEF GoesOn

LEMMA BudgetIs ==
    ASSUME budget \in Budget
    PROVE  /\ \A w \in {"others", "faults", "crashes"} : Used(w) =>
                /\ budget' \in Budget /\ budget'.publishes = budget.publishes
                /\ budget'.crashes >= budget.crashes /\ (w = "crashes" => budget'.crashes > 0)
           /\ Used("publishes") /\ Within("publishes", MaxPublishes) =>
                budget' \in Budget /\ budget'.publishes = budget.publishes + 1 /\ budget'.crashes = budget.crashes
           /\ UNCHANGED budget => budget' \in Budget /\ budget'.publishes = budget.publishes /\ budget'.crashes = budget.crashes
           /\ budget.publishes \in Nat /\ budget.crashes \in Nat
BY PublicationAssumption DEF Budget, Used, Within

LEMMA NothingDistinct ==
    /\ Nothing \notin Documents /\ Nothing \notin StoredDocument /\ Nothing \notin StoredTopology
    /\ Nothing \notin PublishedTo /\ Nothing \notin PublicationRecord /\ Nothing \notin StoredExperiment
BY PublicationAssumption

\* A change of the topology settles documents: their revision, age and
\* publisher stay.
LEMMA SettledIs ==
    ASSUME Stored
    PROVE  /\ Settled \in [Documents -> StoredDocument \cup {Nothing}]
           /\ \A d \in Documents :
                /\ Settled[d] = Nothing <=> documents[d] = Nothing
                /\ documents[d] # Nothing => Settled[d].rev = documents[d].rev /\ Settled[d].young = documents[d].young
<1>1. \A x \in StoredDocument : /\ [x EXCEPT !.since = FALSE] \in StoredDocument
                                /\ [x EXCEPT !.since = FALSE].rev = x.rev /\ [x EXCEPT !.since = FALSE].young = x.young
    BY DEF StoredDocument
<1>2. \A d \in Documents : Settled[d] = IF documents[d] = Nothing THEN Nothing ELSE [documents[d] EXCEPT !.since = FALSE]
    BY DEF Settled
<1>3. Settled = [d \in Documents |-> Settled[d]]
    BY DEF Settled
<1>4. ASSUME NEW d \in Documents
      PROVE  /\ Settled[d] \in StoredDocument \cup {Nothing}
             /\ Settled[d] = Nothing <=> documents[d] = Nothing
             /\ documents[d] # Nothing => Settled[d].rev = documents[d].rev /\ Settled[d].young = documents[d].young
    <2>1. documents[d] \in StoredDocument \cup {Nothing}
        BY DEF Stored
    <2>2. CASE documents[d] = Nothing
        BY <1>2, <2>2
    <2>3. CASE documents[d] # Nothing
        <3>1. documents[d] \in StoredDocument /\ Settled[d] = [documents[d] EXCEPT !.since = FALSE]
            BY <1>2, <2>1, <2>3
        <3>2. Settled[d] \in StoredDocument /\ Settled[d].rev = documents[d].rev /\ Settled[d].young = documents[d].young
            BY <1>1, <3>1
        <3>. QED BY <2>3, <3>2, NothingDistinct
    <2>. QED BY <2>2, <2>3
<1> HIDE DEF Settled
<1>. QED BY <1>3, <1>4

LEMMA RemovedIs ==
    ASSUME Stored, NEW listed
    PROVE  /\ RemovedListed(listed) \in [Documents -> StoredDocument \cup {Nothing}]
           /\ \A d \in Documents :
                RemovedListed(listed)[d] = IF documents[d] # Nothing /\ <<d, documents[d].rev>> \in listed
                                           THEN Nothing ELSE documents[d]
BY DEF Stored, RemovedListed

----------------------------------------------------------------------------
(* What steps leave alone.                                                 *)

\* The publication goes on, is over, or is not concerned.
Moves == Over \/ publisher' = publisher \/ (publisher \in Publishing /\ \E label \in AfterIdle : GoesOn(label))

LEMMA DraftsAlone ==
    ASSUME PublicationInv, Moves, work' = work
    PROVE  (DraftsKnown /\ MarkedIsPublished)'
<1>1. publisher'.at # "idle" =>
        publisher.at # "idle" /\ publisher'.request = publisher.request /\ publisher'.meta = publisher.meta
    BY IdleIs DEF Moves, Over, GoesOn, PublicationInv
<1>. QED BY <1>1 DEF PublicationInv, DraftsKnown, MarkedIsPublished, Meta

LEMMA ExperimentAlone ==
    ASSUME PublicationInv, experiment' = experiment, budget'.crashes = budget.crashes \/ budget'.crashes > 0,
           \/ publisher' = publisher
           \/ Over /\ (publisher.at \notin {"configure", "restore"} \/ budget'.crashes > 0)
           \/ publisher.at \notin {"configure", "restore"} /\ publisher'.at \notin {"update", "configure", "restore"}
    PROVE  (Prepared /\ Configured)'
BY IdleIs DEF PublicationInv, Prepared, Configured, Over

LEMMA DocumentsAlone ==
    ASSUME PublicationInv, UNCHANGED <<documents, topology, orphans, hook>>, budget'.publishes = budget.publishes,
           \/ publisher' = publisher
           \/ Over
           \/ /\ publisher.at \notin {"idle", "topology", "experiment", "document", "write"}
              /\ publisher'.at \notin {"idle", "topology", "experiment", "document", "write"}
              /\ publisher'.meta = publisher.meta
    PROVE  (Revisions /\ DocumentsSafe /\ TopologyOurs)'
<1>1. publisher'.at \in {"topology", "experiment", "document"} => publisher' = publisher
    BY IdleIs DEF Over
<1>2. Revisions'
    BY <1>1 DEF PublicationInv, Revisions, Until, Before
<1>3. \A d \in Documents : Safe(d)' <=> Safe(d)
    BY DEF Safe
<1>4. Writing' => Writing /\ publisher' = publisher
    BY IdleIs DEF Writing, CanWrite, Over
<1>5. topology # Nothing => topology.ref \in Documents
    BY DEF PublicationInv, Stored, StoredTopology
<1>6. Writing => Doc \in Documents
    BY IdleIs, PublishingFields DEF Writing, PublicationInv, Doc, Draft
<1>7. DocumentsSafe'
    BY <1>3, <1>4, <1>5, <1>6 DEF PublicationInv, DocumentsSafe, Doc
<1>8. TopologyOurs'
    BY IdleIs DEF PublicationInv, TopologyOurs, Over, Doc
<1>. QED BY <1>2, <1>7, <1>8

----------------------------------------------------------------------------
(* The initial state.                                                      *)

LEMMA PublicationInitInv == PublicationInit => PublicationInv
<1>. SUFFICES ASSUME PublicationInit PROVE PublicationInv
    OBVIOUS
<1>1. PICK b \in PublishDrafts, d \in Documents :
        /\ work \in {[x \in PublishDrafts |-> IF x = b THEN w ELSE NeverPublished(x, d)] :
                        w \in {NeverPublished(b, d), PublishedBefore(b, d)} \cup SavedSince(b, d)}
        /\ \/ AfterPublication(b, d)
           \/ /\ work[b] = NeverPublished(b, d)
              /\ documents = [x \in Documents |-> Nothing]
              /\ topology = Nothing /\ scenario = FALSE /\ experiment = Nothing
    BY DEF PublicationInit
<1> DEFINE Fair(w) == /\ w \in Draft /\ w.snap <= w.rev /\ (w.last # Nothing => w.last.snap <= w.rev)
                      /\ (w.last # Nothing /\ w.last.snap = w.snap => w.last.doc = w.doc)
<1>3. \A x \in PublishDrafts : Fair(NeverPublished(x, d))
    BY DEF NeverPublished, Draft
<1>4. EarlierRequest(b) \in Requests
    BY DEF EarlierRequest, Requests, Actions
<1>5. PublishedBefore(b, d) \in Draft
    BY <1>4 DEF PublishedBefore, Draft, PublishedTo
<1>6. Fair(PublishedBefore(b, d))
    BY <1>5 DEF PublishedBefore
<1>7. \A w \in SavedSince(b, d) : Fair(w)
    <2>. SUFFICES ASSUME NEW x \in Documents
                  PROVE  Fair([PublishedBefore(b, d) EXCEPT !.doc = x, !.rev = 3, !.snap = 3])
        BY DEF SavedSince
    <2> DEFINE w == [PublishedBefore(b, d) EXCEPT !.doc = x, !.rev = 3, !.snap = 3]
    <2>1. w \in Draft
        BY <1>5 DEF Draft
    <2>2. w.rev = 3 /\ w.snap = 3 /\ w.last = PublishedBefore(b, d).last
        BY DEF PublishedBefore
    <2>3. w.last.snap = 1
        BY <2>2 DEF PublishedBefore
    <2>. QED BY <2>1, <2>2, <2>3
<1> HIDE DEF Fair
<1>8. work \in [PublishDrafts -> Draft] /\ \A x \in PublishDrafts : Fair(work[x])
    <2>1. PICK w \in {NeverPublished(b, d), PublishedBefore(b, d)} \cup SavedSince(b, d) :
            work = [x \in PublishDrafts |-> IF x = b THEN w ELSE NeverPublished(x, d)]
        BY <1>1
    <2>2. Fair(w)
        BY <1>3, <1>6, <1>7
    <2>3. \A x \in PublishDrafts : Fair(work[x])
        BY <1>3, <2>1, <2>2
    <2>. QED BY <2>1, <2>3 DEF Fair
<1>9. publisher = IdlePublisher /\ orphans = NoSweep /\ hook = {} /\ expLock = "free" /\ answer = NoAnswer /\ alone = TRUE
      /\ budget = [publishes |-> 0, others |-> 0, faults |-> 0, crashes |-> 0]
    BY DEF PublicationInit
<1>10. /\ documents \in [Documents -> StoredDocument \cup {Nothing}]
       /\ \A x \in Documents : documents[x] # Nothing => documents[x].rev = 0
       /\ topology \in StoredTopology \cup {Nothing} /\ experiment \in MaybeExperiment
       /\ topology # Nothing => documents[topology.ref] # Nothing
       /\ experiment # Nothing => experiment.configured
    <2>1. CASE AfterPublication(b, d)
        <3>1. [rev |-> 0, draft |-> b, young |-> FALSE, since |-> FALSE] \in StoredDocument
            BY DEF StoredDocument
        <3>2. topology = [ref |-> d, spec |-> d] /\ topology \in StoredTopology
            BY <2>1 DEF AfterPublication, StoredTopology, Specs
        <3>3. [draft |-> b, doc |-> d, spec |-> d] \in PublicationRecord
            BY DEF PublicationRecord, Specs
        <3>4. experiment \in StoredExperiment /\ experiment.configured
            BY <2>1, <3>3 DEF AfterPublication, StoredExperiment, Specs
        <3>5. documents = [x \in Documents |->
                    IF x = d THEN [rev |-> 0, draft |-> b, young |-> FALSE, since |-> FALSE] ELSE Nothing]
            BY <2>1 DEF AfterPublication
        <3>. QED BY <3>1, <3>2, <3>4, <3>5, NothingDistinct DEF MaybeExperiment
    <2>2. CASE documents = [x \in Documents |-> Nothing] /\ topology = Nothing /\ experiment = Nothing
        BY <2>2 DEF MaybeExperiment
    <2>. QED BY <1>1, <2>1, <2>2
<1>11. Stored
    BY <1>8, <1>10 DEF Stored
<1>12. Acting
    <2>1. answer \in AnswerGiven
        BY <1>9 DEF AnswerGiven
    <2>2. orphans \in [at : {"idle", "live", "remove"}, live : Documents \cup {Nothing}, listed : Listings]
        BY <1>9 DEF NoSweep, Listings
    <2>3. budget \in [publishes : 0 .. MaxPublishes, others : Nat, faults : Nat, crashes : Nat]
        BY <1>9, PublicationAssumption
    <2>4. hook \in Listings
        BY <1>9 DEF Listings
    <2>. QED BY <1>9, <2>1, <2>2, <2>3, <2>4, IdleIs DEF Acting
<1>13. Prepared /\ Configured
    BY <1>9, <1>10, IdleIs DEF Prepared, Configured
<1>14. Revisions /\ TopologyOurs
    BY <1>9, <1>10, IdleIs DEF Revisions, Until, Before, NoSweep, TopologyOurs
<1>15. DocumentsSafe
    BY <1>9, <1>10, IdleIs DEF DocumentsSafe, Safe, Writing, NoSweep
<1>16. DraftsKnown /\ MarkedIsPublished
    BY <1>8, <1>9, IdleIs DEF DraftsKnown, MarkedIsPublished, Fair
<1>. QED BY <1>11, <1>12, <1>13, <1>14, <1>15, <1>16 DEF PublicationInv

----------------------------------------------------------------------------
(* The request.                                                            *)

\* The publication under way: its document is one, and its draft.
LEMMA DocIs == Acting /\ publisher.at # "idle" =>
    /\ publisher \in Publishing /\ Doc \in Documents /\ publisher.request \in Requests /\ publisher.request.draft \in PublishDrafts
    /\ Meta \in Draft
BY IdleIs, PublishingFields DEF Doc, Draft, Requests, Meta

\* A publication that is over answers.
LEMMA AnswersIs ==
    ASSUME Acting, publisher.at # "idle", NEW is \in {"succeeded", "partial", "refused"}, Answers(is)
    PROVE  Over /\ answer' \in AnswerGiven
BY DocIs DEF Answers, Over, AnswerGiven

\* A step that leaves alone what the variables of the server hold.
LEMMA ActingGoes ==
    ASSUME Acting, UNCHANGED <<orphans, hook>>, budget' \in Budget, alone' \in BOOLEAN,
           answer' \in AnswerGiven,
           publisher' = IdlePublisher \/ publisher' \in Publishing,
           expLock' \in {"free", "publish", "start", "stop"},
           expLock' = "publish" <=> publisher'.at \in {"reread", "update", "configure", "restore", "record"}
    PROVE  Acting'
BY DEF Acting, Budget

LEMMA PublishDraftStep ==
    ASSUME PublicationInv, NEW q \in Requests, PublishDraft(q)
    PROVE  PublicationInv'
<1>1. UNCHANGED <<work, documents, topology, scenario, experiment, expLock, orphans, hook>> /\ publisher.at = "idle"
    BY DEF PublishDraft, At
<1>2. budget' \in Budget /\ budget'.publishes = budget.publishes + 1 /\ budget'.crashes = budget.crashes
    BY BudgetIs DEF PublishDraft, PublicationInv, Acting, Budget
<1>3. budget.publishes \in Nat
    BY DEF PublicationInv, Acting
<1>4. \/ publisher' = publisher /\ answer' = [is |-> IF PublishRetry(q) THEN "succeeded" ELSE "refused", request |-> q]
      \/ /\ answer' = answer /\ publisher' \in Publishing /\ publisher'.at = "topology"
         /\ publisher'.request = q /\ publisher'.meta = work[q.draft]
    <2>1. q.draft \in PublishDrafts /\ work[q.draft] \in Draft
        BY DEF Requests, PublicationInv, Stored
    <2> DEFINE p == [at |-> "topology", request |-> q, meta |-> work[q.draft], applied |-> FALSE, done |-> FALSE, spec |-> Nothing]
    <2>2. p \in Publishing
        BY <2>1 DEF Publishing, AfterIdle, Stages, MaybeExperiment
    <2>3. p.at = "topology" /\ p.request = q /\ p.meta = work[q.draft]
        OBVIOUS
    <2>4. \/ publisher' = p /\ answer' = answer
          \/ publisher' = publisher /\ answer' = [is |-> IF PublishRetry(q) THEN "succeeded" ELSE "refused", request |-> q]
        BY DEF PublishDraft
    <2> HIDE DEF p
    <2>. QED BY <2>2, <2>3, <2>4
<1>5. Stored'
    BY <1>1 DEF PublicationInv, Stored
<1>6. Acting'
    <2>1. alone' \in BOOLEAN
        BY DEF PublishDraft
    <2>2. answer' \in AnswerGiven
        BY <1>4 DEF PublicationInv, Acting, AnswerGiven
    <2>3. expLock # "publish"
        BY <1>1 DEF PublicationInv, Acting
    <2>4. publisher' = IdlePublisher \/ publisher' \in Publishing
        BY <1>4 DEF PublicationInv, Acting
    <2>. QED BY <1>1, <1>2, <1>4, <2>1, <2>2, <2>3, <2>4, ActingGoes DEF PublicationInv, Acting
<1>7. (Prepared /\ Configured)'
    BY <1>1, <1>2, <1>4, ExperimentAlone
<1>8. Revisions'
    <2>1. \A rev \in Nat : Until(rev) => (Until(rev))'
        BY <1>2, <1>3 DEF Until, Before
    <2>2. /\ \A d \in Documents : documents[d] # Nothing => documents[d].rev \in Nat
          /\ \A h \in hook \cup orphans.listed : h[2] \in Nat
        BY DEF PublicationInv, Stored, StoredDocument, Acting, Listings
    <2>. QED BY <1>1, <2>1, <2>2 DEF PublicationInv, Revisions
<1>9. DocumentsSafe'
    BY <1>1, <1>4 DEF PublicationInv, DocumentsSafe, Safe, Writing
<1>10. TopologyOurs'
    BY <1>1, <1>4 DEF PublicationInv, TopologyOurs
<1>11. (DraftsKnown /\ MarkedIsPublished)'
    <2>1. q.draft \in PublishDrafts /\ work[q.draft].rev \in Nat
        BY DEF Requests, PublicationInv, Stored, Draft
    <2>. QED BY <1>1, <1>4, <2>1 DEF PublicationInv, DraftsKnown, MarkedIsPublished, Meta
<1>. QED BY <1>5, <1>6, <1>7, <1>8, <1>9, <1>10, <1>11 DEF PublicationInv

LEMMA PreflightTopologyStep ==
    ASSUME PublicationInv, PreflightTopology
    PROVE  PublicationInv'
<1>1. UNCHANGED <<work, documents, topology, scenario, experiment, expLock, orphans, hook, budget, alone>> /\ publisher.at = "topology"
    BY DEF PreflightTopology, At
<1>2. \/ Over /\ answer' \in AnswerGiven
      \/ /\ GoesOn("experiment") /\ publisher'.applied = TopologyApplied /\ answer' = answer
         /\ TopologyAllowed
    <2>1. CASE Answers("refused")
        BY <1>1, <2>1, AnswersIs DEF PublicationInv
    <2>2. CASE TopologyAllowed /\ publisher' = [publisher EXCEPT !.at = "experiment", !.applied = TopologyApplied] /\ answer' = answer
        <3>1. TopologyApplied \in BOOLEAN /\ "experiment" \in AfterIdle
            BY DEF TopologyApplied, AfterIdle, Stages
        <3>2. publisher \in Publishing
            BY <1>1, DocIs DEF PublicationInv
        <3>. QED BY <2>2, <3>1, <3>2, LearnsApplied
    <2>. QED BY <2>1, <2>2 DEF PreflightTopology
<1>3. Stored'
    BY <1>1 DEF PublicationInv, Stored
<1>4. Acting'
    BY <1>1, <1>2, ActingGoes, BudgetIs, IdleIs DEF PublicationInv, Acting, GoesOn, Over, Budget
<1>5. Moves
    BY <1>1, <1>2, IdleIs DEF Moves, PublicationInv, AfterIdle, Stages
<1>6. (Prepared /\ Configured)'
    BY <1>1, <1>2, ExperimentAlone DEF GoesOn
<1>7. Revisions'
    BY <1>1, <1>2, IdleIs DEF PublicationInv, Revisions, Until, Before, GoesOn, Over
<1>8. DocumentsSafe'
    BY <1>1, <1>2, IdleIs DEF PublicationInv, DocumentsSafe, Safe, Writing, GoesOn, Over
<1>9. TopologyOurs'
    <2>1. CASE Over
        BY <2>1, IdleIs DEF TopologyOurs, Over
    <2>2. CASE GoesOn("experiment") /\ publisher'.applied = TopologyApplied /\ TopologyAllowed
        <3>1. topology # Nothing /\ TopologyApplied => topology.ref = Doc
            BY DEF TopologyApplied
        <3>2. publisher.request.topology = "create" /\ ~TopologyApplied => topology = Nothing
            BY <2>2 DEF TopologyAllowed
        <3>. QED BY <1>1, <2>2, <3>1, <3>2 DEF TopologyOurs, GoesOn, Doc
    <2>. QED BY <1>2, <2>1, <2>2
<1>10. (DraftsKnown /\ MarkedIsPublished)'
    BY <1>1, <1>5, DraftsAlone
<1>. QED BY <1>3, <1>4, <1>6, <1>7, <1>8, <1>9, <1>10 DEF PublicationInv

LEMMA PreflightExperimentStep ==
    ASSUME PublicationInv, PreflightExperiment
    PROVE  PublicationInv'
<1>1. UNCHANGED <<work, documents, topology, scenario, experiment, expLock, orphans, hook, budget, alone>> /\ publisher.at = "experiment"
    BY DEF PreflightExperiment, At
<1>2. \/ Over /\ answer' \in AnswerGiven
      \/ GoesOn("document") /\ publisher'.applied = publisher.applied /\ answer' = answer
    <2>1. CASE Answers("refused")
        BY <1>1, <2>1, AnswersIs DEF PublicationInv
    <2>2. CASE /\ answer' = answer
               /\ publisher' = [publisher EXCEPT !.at = "document",
                                !.done = publisher.request.experiment = "none" \/ ExperimentApplied]
        <3>1. (publisher.request.experiment = "none" \/ ExperimentApplied) \in BOOLEAN /\ "document" \in AfterIdle
            BY DEF AfterIdle, Stages
        <3>2. publisher \in Publishing
            BY <1>1, DocIs DEF PublicationInv
        <3>. QED BY <2>2, <3>1, <3>2, LearnsDone
    <2>. QED BY <2>1, <2>2 DEF PreflightExperiment
<1>3. Stored'
    BY <1>1 DEF PublicationInv, Stored
<1>4. Acting'
    BY <1>1, <1>2, ActingGoes, BudgetIs, IdleIs DEF PublicationInv, Acting, GoesOn, Over, Budget
<1>5. Moves
    BY <1>1, <1>2, IdleIs DEF Moves, PublicationInv, AfterIdle, Stages
<1>6. (Prepared /\ Configured)'
    BY <1>1, <1>2, ExperimentAlone DEF GoesOn
<1>7. Revisions'
    BY <1>1, <1>2, IdleIs DEF PublicationInv, Revisions, Until, Before, GoesOn, Over
<1>8. DocumentsSafe'
    BY <1>1, <1>2, IdleIs DEF PublicationInv, DocumentsSafe, Safe, Writing, GoesOn, Over
<1>9. TopologyOurs'
    BY <1>1, <1>2, IdleIs DEF PublicationInv, TopologyOurs, GoesOn, Over, Doc
<1>10. (DraftsKnown /\ MarkedIsPublished)'
    BY <1>1, <1>5, DraftsAlone
<1>. QED BY <1>3, <1>4, <1>6, <1>7, <1>8, <1>9, <1>10 DEF PublicationInv

----------------------------------------------------------------------------
(* The stages.                                                             *)

LEMMA PutPublishedDocumentStep ==
    ASSUME PublicationInv, PutPublishedDocument
    PROVE  PublicationInv'
<1> DEFINE r == [rev |-> budget.publishes,
                 draft |-> IF documents[Doc] # Nothing THEN documents[Doc].draft ELSE publisher.request.draft,
                 young |-> TRUE, since |-> TRUE]
<1>1. UNCHANGED <<work, topology, scenario, experiment, expLock, answer, orphans, hook, budget, alone>> /\ publisher.at = "document"
      /\ documents' = [documents EXCEPT ![Doc] = r]
    BY DEF PutPublishedDocument, At
<1>2. Doc \in Documents /\ publisher \in Publishing
    BY <1>1, DocIs DEF PublicationInv
<1>3. GoesOn("write") /\ publisher'.applied = publisher.applied
    BY <1>1, GoesOnIs DEF PublicationInv, PutPublishedDocument, AfterIdle, Stages
<1>4. r \in StoredDocument
    <2>1. documents[Doc] # Nothing => documents[Doc].draft \in PublishDrafts
        BY <1>2 DEF PublicationInv, Stored, StoredDocument
    <2>2. budget.publishes \in Nat
        BY DEF PublicationInv, Acting
    <2>. QED BY <1>1, <2>1, <2>2, DocIs DEF PublicationInv, StoredDocument
<1>5. r.rev = budget.publishes /\ r.young
    OBVIOUS
<1> HIDE DEF r
<1>6. documents' \in [Documents -> StoredDocument \cup {Nothing}] /\ documents'[Doc] = r /\ r # Nothing
      /\ \A d \in Documents : d # Doc => documents'[d] = documents[d]
    BY <1>1, <1>2, <1>4, NothingDistinct DEF PublicationInv, Stored
<1>7. Stored'
    BY <1>1, <1>6 DEF PublicationInv, Stored
<1>8. Acting'
    BY <1>1, <1>3, ActingGoes, BudgetIs DEF PublicationInv, Acting, GoesOn, Budget
<1>9. Moves
    BY <1>2, <1>3 DEF Moves, AfterIdle, Stages
<1>10. (Prepared /\ Configured)'
    BY <1>1, <1>3, ExperimentAlone DEF GoesOn
<1>11. \A rev : Until(rev) => rev < budget.publishes
    BY <1>1 DEF Until, Before
<1>12. budget.publishes \in Nat
    BY DEF PublicationInv, Acting
<1>13. Revisions'
    <2>1. (~Before)'
        BY <1>3 DEF GoesOn, Before
    <2>2. \A d \in Documents : documents'[d] # Nothing => documents'[d].rev <= budget.publishes
        BY <1>5, <1>6, <1>12 DEF PublicationInv, Revisions, Until
    <2>3. \A h \in hook \cup orphans.listed : h[2] <= budget.publishes
        BY DEF PublicationInv, Revisions, Until
    <2>. QED BY <1>1, <2>1, <2>2, <2>3 DEF Revisions, Until
<1>14. Safe(Doc)' /\ (\A d \in Documents : d # Doc => (Safe(d)' <=> Safe(d)))
    <2>1. \A h \in hook \cup orphans.listed : h[2] < budget.publishes
        BY <1>11 DEF PublicationInv, Revisions
    <2>2. <<Doc, r.rev>> \notin hook \cup orphans.listed
        BY <1>5, <1>12, <2>1
    <2>3. Doc' = Doc
        BY <1>3 DEF GoesOn, Doc
    <2>. QED BY <1>1, <1>6, <2>2, <2>3 DEF Safe
<1>15. Doc' = Doc
    BY <1>3 DEF GoesOn, Doc
<1>16. DocumentsSafe'
    <2>1. topology # Nothing => topology.ref \in Documents
        BY DEF PublicationInv, Stored, StoredTopology
    <2>2. topology # Nothing =>
            /\ (Safe(topology.ref))'
            /\ orphans.at # "idle" => topology.ref = orphans.live \/ documents'[topology.ref].young
        <3>1. CASE topology # Nothing /\ topology.ref = Doc
            <4>1. documents'[topology.ref].young
                BY <1>5, <1>6, <3>1
            <4>2. (Safe(topology.ref))'
                BY <1>1, <1>14, <1>15, <3>1 DEF Safe
            <4>. QED BY <4>1, <4>2
        <3>2. CASE topology # Nothing /\ topology.ref # Doc
            <4>1. documents'[topology.ref] = documents[topology.ref]
                BY <1>6, <2>1, <3>2
            <4>2. (Safe(topology.ref))'
                BY <1>1, <2>1, <3>2, <4>1 DEF Safe, PublicationInv, DocumentsSafe
            <4>. QED BY <3>2, <4>1, <4>2 DEF PublicationInv, DocumentsSafe
        <3>. QED BY <1>1, <3>1, <3>2
    <2>3. Safe(Doc)' /\ documents'[Doc].young
        BY <1>5, <1>6, <1>14
    <2>. QED BY <1>1, <1>15, <2>2, <2>3 DEF PublicationInv, DocumentsSafe
<1>17. TopologyOurs'
    BY <1>1, <1>3, <1>15 DEF PublicationInv, TopologyOurs, GoesOn
<1>18. (DraftsKnown /\ MarkedIsPublished)'
    BY <1>1, <1>9, DraftsAlone
<1>. QED BY <1>7, <1>8, <1>10, <1>13, <1>16, <1>17, <1>18 DEF PublicationInv

LEMMA PublishTopologyStep ==
    ASSUME PublicationInv, PublishTopology
    PROVE  PublicationInv'
<1>1. UNCHANGED <<work, scenario, experiment, expLock, answer, orphans, hook, budget, alone>> /\ publisher.at = "write"
    BY DEF PublishTopology, At
<1>2. Doc \in Documents /\ publisher \in Publishing
    BY <1>1, DocIs DEF PublicationInv
<1>3. GoesOn("scenario") /\ publisher'.applied = publisher.applied
    BY <1>1, GoesOnIs DEF PublicationInv, PublishTopology, AfterIdle, Stages
<1>4. \/ publisher.applied /\ UNCHANGED <<topology, documents>>
      \/ Writing /\ topology' = [ref |-> Doc, spec |-> Doc] /\ documents' = Settled
    BY <1>1 DEF PublishTopology, Writing
<1>5. [ref |-> Doc, spec |-> Doc] \in StoredTopology
    BY <1>2 DEF StoredTopology, Specs
<1>6. /\ documents' \in [Documents -> StoredDocument \cup {Nothing}]
      /\ \A d \in Documents :
            /\ documents'[d] = Nothing <=> documents[d] = Nothing
            /\ documents[d] # Nothing => documents'[d].rev = documents[d].rev /\ documents'[d].young = documents[d].young
    BY <1>4, SettledIs DEF PublicationInv, Stored
<1>7. Stored'
    BY <1>1, <1>4, <1>5, <1>6 DEF PublicationInv, Stored
<1>8. Acting'
    BY <1>1, <1>3, ActingGoes, BudgetIs DEF PublicationInv, Acting, GoesOn, Budget
<1>9. Moves
    BY <1>2, <1>3 DEF Moves, AfterIdle, Stages
<1>10. (Prepared /\ Configured)'
    BY <1>1, <1>3, ExperimentAlone DEF GoesOn
<1>11. Revisions'
    BY <1>1, <1>3, <1>6 DEF PublicationInv, Revisions, Until, Before, GoesOn
<1>12. \A d \in Documents : Safe(d)' <=> Safe(d)
    BY <1>1, <1>6 DEF Safe
<1>13. ~Writing'
    BY <1>3 DEF Writing, GoesOn
<1>14. DocumentsSafe'
    <2>1. CASE UNCHANGED <<topology, documents>>
        <3>1. topology # Nothing => topology.ref \in Documents
            BY DEF PublicationInv, Stored, StoredTopology
        <3>. QED BY <1>1, <1>12, <1>13, <2>1, <3>1 DEF PublicationInv, DocumentsSafe
    <2>2. CASE Writing /\ topology' = [ref |-> Doc, spec |-> Doc]
        <3>1. Safe(Doc) /\ documents[Doc].young /\ topology'.ref = Doc
            BY <2>2 DEF PublicationInv, DocumentsSafe
        <3>2. (Safe(topology.ref))' /\ documents'[topology'.ref].young
            BY <1>2, <1>6, <1>12, <3>1 DEF Safe
        <3>. QED BY <1>1, <1>13, <3>2 DEF PublicationInv, DocumentsSafe
    <2>. QED BY <1>4, <2>1, <2>2
<1>15. TopologyOurs'
    <2>1. topology' # Nothing => topology'.ref = Doc
        <3>1. CASE publisher.applied /\ topology' = topology
            BY <1>1, <3>1 DEF PublicationInv, TopologyOurs
        <3>2. CASE topology' = [ref |-> Doc, spec |-> Doc]
            BY <3>2
        <3>. QED BY <1>4, <3>1, <3>2
    <2>2. Doc' = Doc
        BY <1>3 DEF GoesOn, Doc
    <2>. QED BY <1>3, <2>1, <2>2 DEF TopologyOurs, GoesOn
<1>16. (DraftsKnown /\ MarkedIsPublished)'
    BY <1>1, <1>9, DraftsAlone
<1>. QED BY <1>7, <1>8, <1>10, <1>11, <1>14, <1>15, <1>16 DEF PublicationInv

LEMMA WriteRefusedStep ==
    ASSUME PublicationInv, WriteRefused
    PROVE  PublicationInv'
<1>1. UNCHANGED <<work, documents, topology, scenario, experiment, expLock, orphans, hook, budget, alone>> /\ publisher.at = "write"
    BY DEF WriteRefused, At
<1>2. Over /\ answer' \in AnswerGiven
    BY <1>1, AnswersIs DEF PublicationInv, WriteRefused
<1>3. Stored'
    BY <1>1 DEF PublicationInv, Stored
<1>4. Acting'
    BY <1>1, <1>2, ActingGoes, BudgetIs, IdleIs DEF PublicationInv, Acting, Over, Budget
<1>5. (Prepared /\ Configured)'
    BY <1>1, <1>2, ExperimentAlone
<1>6. (Revisions /\ DocumentsSafe /\ TopologyOurs)'
    BY <1>1, <1>2, DocumentsAlone
<1>7. (DraftsKnown /\ MarkedIsPublished)'
    BY <1>1, <1>2, DraftsAlone DEF Moves
<1>. QED BY <1>3, <1>4, <1>5, <1>6, <1>7 DEF PublicationInv

LEMMA PublishScenarioStep ==
    ASSUME PublicationInv, PublishScenario
    PROVE  PublicationInv'
<1>1. UNCHANGED <<work, documents, topology, experiment, expLock, answer, orphans, hook, budget, alone>> /\ publisher.at = "scenario"
    BY DEF PublishScenario, At
<1>2. publisher \in Publishing
    BY <1>1, DocIs DEF PublicationInv
<1>3. PICK label \in {"mark", "lock"} : GoesOn(label)
    <2>1. PICK label \in {"mark", "lock"} : publisher' = [publisher EXCEPT !.at = label]
        BY DEF PublishScenario
    <2>. QED BY <1>1, <2>1, GoesOnIs DEF PublicationInv, AfterIdle, Stages
<1>4. Stored'
    BY <1>1 DEF PublicationInv, Stored
<1>5. Acting'
    BY <1>1, <1>3, ActingGoes, BudgetIs DEF PublicationInv, Acting, GoesOn, Budget
<1>6. (Prepared /\ Configured)'
    BY <1>1, <1>3, ExperimentAlone DEF GoesOn
<1>7. (Revisions /\ DocumentsSafe /\ TopologyOurs)'
    BY <1>1, <1>3, DocumentsAlone DEF GoesOn
<1>8. (DraftsKnown /\ MarkedIsPublished)'
    BY <1>1, <1>2, <1>3, DraftsAlone DEF Moves, AfterIdle, Stages
<1>. QED BY <1>4, <1>5, <1>6, <1>7, <1>8 DEF PublicationInv

LEMMA LockExperimentStep ==
    ASSUME PublicationInv, LockExperiment
    PROVE  PublicationInv'
<1>1. UNCHANGED <<work, documents, topology, scenario, experiment, orphans, hook, budget, alone>> /\ publisher.at = "lock"
    BY DEF LockExperiment, At
<1>2. publisher \in Publishing
    BY <1>1, DocIs DEF PublicationInv
<1>3. \/ GoesOn("reread") /\ expLock' = "publish" /\ answer' = answer
      \/ /\ Over /\ answer' \in AnswerGiven
         /\ expLock' = expLock
    BY <1>1, AnswersIs, GoesOnIs DEF PublicationInv, LockExperiment, AfterIdle, Stages
<1>4. Stored'
    BY <1>1 DEF PublicationInv, Stored
<1>5. Acting'
    BY <1>1, <1>3, ActingGoes, BudgetIs, IdleIs DEF PublicationInv, Acting, GoesOn, Over, Budget
<1>6. (Prepared /\ Configured)'
    BY <1>1, <1>3, ExperimentAlone DEF GoesOn
<1>7. (Revisions /\ DocumentsSafe /\ TopologyOurs)'
    BY <1>1, <1>3, DocumentsAlone DEF GoesOn
<1>8. (DraftsKnown /\ MarkedIsPublished)'
    BY <1>1, <1>2, <1>3, DraftsAlone DEF Moves, AfterIdle, Stages
<1>. QED BY <1>4, <1>5, <1>6, <1>7, <1>8 DEF PublicationInv

LEMMA RereadExperimentStep ==
    ASSUME PublicationInv, RereadExperiment
    PROVE  PublicationInv'
<1>1. UNCHANGED <<work, documents, topology, scenario, experiment, orphans, hook, budget, alone>> /\ publisher.at = "reread"
    BY DEF RereadExperiment, At
<1>2. publisher \in Publishing /\ expLock = "publish"
    BY <1>1, DocIs DEF PublicationInv, Acting
<1>3. \/ /\ GoesOn("update") /\ publisher'.spec = experiment /\ Expected
         /\ expLock' = expLock /\ answer' = answer
      \/ /\ Over /\ answer' \in AnswerGiven
         /\ expLock' = "free"
    <2>1. CASE Expected /\ publisher' = [publisher EXCEPT !.at = "update", !.spec = experiment]
               /\ expLock' = expLock /\ answer' = answer
        <3>1. experiment \in MaybeExperiment /\ "update" \in AfterIdle
            BY DEF PublicationInv, Stored, AfterIdle, Stages
        <3> DEFINE p == [publisher EXCEPT !.at = "update", !.spec = experiment]
        <3>2. p \in Publishing
            BY <1>2, <3>1 DEF Publishing
        <3>4. /\ p.at = "update" /\ p.request = publisher.request
              /\ p.meta = publisher.meta /\ p.spec = experiment
            BY <1>2 DEF Publishing
        <3>3. publisher' = p
            BY <2>1
        <3> HIDE DEF p
        <3>. QED BY <2>1, <3>2, <3>3, <3>4 DEF GoesOn
    <2>2. CASE Answers("partial") /\ expLock' = "free"
        BY <1>1, <2>2, AnswersIs DEF PublicationInv
    <2>. QED BY <2>1, <2>2 DEF RereadExperiment
<1>4. Stored'
    BY <1>1 DEF PublicationInv, Stored
<1>5. Acting'
    BY <1>1, <1>2, <1>3, ActingGoes, BudgetIs, IdleIs DEF PublicationInv, Acting, GoesOn, Over, Budget
<1>6. (Prepared /\ Configured)'
    <2>1. CASE Over
        BY <1>1, <2>1, ExperimentAlone
    <2>2. CASE GoesOn("update") /\ publisher'.spec = experiment /\ Expected
        <3>1. experiment # Nothing => experiment \in StoredExperiment
            BY DEF PublicationInv, Stored, MaybeExperiment
        <3>2. Prepared'
            BY <1>1, <2>2, <3>1 DEF Prepared, GoesOn, Expected
        <3>3. Configured'
            BY <1>1, <2>2 DEF PublicationInv, Configured, GoesOn
        <3>. QED BY <3>2, <3>3
    <2>. QED BY <1>3, <2>1, <2>2
<1>7. (Revisions /\ DocumentsSafe /\ TopologyOurs)'
    BY <1>1, <1>3, DocumentsAlone DEF GoesOn
<1>8. (DraftsKnown /\ MarkedIsPublished)'
    BY <1>1, <1>2, <1>3, DraftsAlone DEF Moves, AfterIdle, Stages
<1>. QED BY <1>4, <1>5, <1>6, <1>7, <1>8 DEF PublicationInv

\* Changes of what is stored of an experiment.
LEMMA ExperimentFields ==
    ASSUME NEW e \in StoredExperiment, NEW s \in Specs, NEW r \in PublicationRecord \cup {Nothing}
    PROVE  /\ [spec |-> s, running |-> FALSE, configured |-> TRUE, record |-> r] \in StoredExperiment
           /\ e.configured \in BOOLEAN /\ e.running \in BOOLEAN /\ e.spec \in Specs
           /\ [e EXCEPT !.spec = s, !.configured = FALSE] \in StoredExperiment
           /\ [e EXCEPT !.spec = s, !.configured = FALSE].running = e.running
           /\ [e EXCEPT !.spec = s, !.configured = TRUE] \in StoredExperiment
           /\ [e EXCEPT !.spec = s, !.configured = TRUE].running = e.running
           /\ [e EXCEPT !.spec = s, !.configured = TRUE].configured
           /\ [e EXCEPT !.configured = TRUE] \in StoredExperiment
           /\ [e EXCEPT !.configured = TRUE].running = e.running
           /\ [e EXCEPT !.configured = TRUE].configured
           /\ [e EXCEPT !.configured = TRUE].spec = e.spec
           /\ [e EXCEPT !.record = r] \in StoredExperiment
           /\ [e EXCEPT !.record = r].running = e.running
           /\ [e EXCEPT !.record = r].configured = e.configured
           /\ [e EXCEPT !.record = r].spec = e.spec
BY DEF StoredExperiment

LEMMA ExperimentRuns ==
    ASSUME NEW e \in StoredExperiment, NEW x \in BOOLEAN
    PROVE  /\ [e EXCEPT !.running = x] \in StoredExperiment
           /\ [e EXCEPT !.running = x].configured = e.configured
           /\ [e EXCEPT !.running = x].spec = e.spec
BY DEF StoredExperiment

LEMMA WriteExperimentStep ==
    ASSUME PublicationInv, WriteExperiment
    PROVE  PublicationInv'
<1>1. UNCHANGED <<work, documents, topology, scenario, expLock, answer, orphans, hook, budget, alone>> /\ publisher.at = "update"
    BY DEF WriteExperiment, At
<1>2. publisher \in Publishing /\ expLock = "publish" /\ Doc \in Specs
    BY <1>1, DocIs DEF PublicationInv, Acting, Specs
<1>3. \/ /\ GoesOn("record") /\ experiment' \in StoredExperiment /\ experiment'.configured
      \/ /\ GoesOn("configure") /\ publisher'.spec = publisher.spec
         /\ publisher.spec \in StoredExperiment /\ experiment' \in StoredExperiment /\ ~experiment'.running
    <2>1. CASE publisher.request.experiment = "create"
        <3>1. /\ experiment' = [spec |-> Doc, running |-> FALSE, configured |-> TRUE, record |-> Nothing]
              /\ publisher' = [publisher EXCEPT !.at = "record"]
            BY <2>1 DEF WriteExperiment
        <3>2. GoesOn("record")
            BY <1>1, <3>1, GoesOnIs DEF PublicationInv, AfterIdle, Stages
        <3>3. experiment' \in StoredExperiment /\ experiment'.configured
            BY <1>2, <3>1 DEF StoredExperiment
        <3>. QED BY <3>2, <3>3
    <2>2. CASE publisher.request.experiment # "create"
        <3>1. /\ experiment' = [publisher.spec EXCEPT !.spec = Doc, !.configured = FALSE]
              /\ publisher' = [publisher EXCEPT !.at = "configure"]
            BY <2>2 DEF WriteExperiment
        <3>2. GoesOn("configure") /\ publisher'.spec = publisher.spec
            BY <1>1, <3>1, GoesOnIs DEF PublicationInv, AfterIdle, Stages
        <3>3. publisher.spec \in StoredExperiment /\ ~publisher.spec.running
            BY <1>1, <2>2 DEF PublicationInv, Prepared
        <3>4. experiment' \in StoredExperiment /\ experiment'.running = publisher.spec.running
            BY <1>2, <3>1, <3>3, ExperimentFields
        <3>. QED BY <3>2, <3>3, <3>4
    <2>. QED BY <2>1, <2>2
<1>4. Stored'
    BY <1>1, <1>3 DEF PublicationInv, Stored, MaybeExperiment
<1>5. Acting'
    BY <1>1, <1>2, <1>3, ActingGoes, BudgetIs DEF PublicationInv, Acting, GoesOn, Budget
<1>6. (Prepared /\ Configured)'
    <2>1. CASE GoesOn("record") /\ experiment'.configured
        BY <2>1 DEF Prepared, Configured, GoesOn
    <2>2. CASE GoesOn("configure") /\ publisher'.spec = publisher.spec
               /\ publisher.spec \in StoredExperiment /\ experiment' \in StoredExperiment /\ ~experiment'.running
        <3>1. Prepared'
            BY <2>2, NothingDistinct DEF Prepared, GoesOn
        <3>2. Configured'
            BY <1>1, <2>2 DEF PublicationInv, Configured, GoesOn
        <3>. QED BY <3>1, <3>2
    <2>. QED BY <1>3, <2>1, <2>2
<1>7. (Revisions /\ DocumentsSafe /\ TopologyOurs)'
    BY <1>1, <1>3, DocumentsAlone DEF GoesOn
<1>8. (DraftsKnown /\ MarkedIsPublished)'
    BY <1>1, <1>2, <1>3, DraftsAlone DEF Moves, AfterIdle, Stages
<1>. QED BY <1>4, <1>5, <1>6, <1>7, <1>8 DEF PublicationInv

LEMMA ReconfigureExperimentStep ==
    ASSUME PublicationInv, ReconfigureExperiment
    PROVE  PublicationInv'
<1>1. UNCHANGED <<work, documents, topology, scenario, expLock, answer, orphans, hook, budget, alone>>
      /\ publisher.at = "configure" /\ experiment # Nothing /\ experiment' = [experiment EXCEPT !.configured = TRUE]
    BY DEF ReconfigureExperiment, At
<1>2. publisher \in Publishing /\ expLock = "publish" /\ experiment \in StoredExperiment
    BY <1>1, DocIs DEF PublicationInv, Acting, Stored, MaybeExperiment
<1>3. GoesOn("record")
    BY <1>1, GoesOnIs DEF ReconfigureExperiment, PublicationInv, AfterIdle, Stages
<1>4. experiment' \in StoredExperiment /\ experiment'.configured
    BY <1>1, <1>2 DEF StoredExperiment
<1>5. Stored'
    BY <1>1, <1>4 DEF PublicationInv, Stored, MaybeExperiment
<1>6. Acting'
    BY <1>1, <1>2, <1>3, ActingGoes, BudgetIs DEF PublicationInv, Acting, GoesOn, Budget
<1>7. (Prepared /\ Configured)'
    BY <1>3, <1>4 DEF Prepared, Configured, GoesOn
<1>8. (Revisions /\ DocumentsSafe /\ TopologyOurs)'
    BY <1>1, <1>3, DocumentsAlone DEF GoesOn
<1>9. (DraftsKnown /\ MarkedIsPublished)'
    BY <1>1, <1>2, <1>3, DraftsAlone DEF Moves, AfterIdle, Stages
<1>. QED BY <1>5, <1>6, <1>7, <1>8, <1>9 DEF PublicationInv

LEMMA ConfigureFailsStep ==
    ASSUME PublicationInv, ConfigureFails
    PROVE  PublicationInv'
<1>1. UNCHANGED <<work, documents, topology, scenario, experiment, expLock, answer, orphans, hook, alone>>
      /\ publisher.at = "configure"
    BY DEF ConfigureFails, At
<1>2. publisher \in Publishing /\ expLock = "publish"
    BY <1>1, DocIs DEF PublicationInv, Acting
<1>3. GoesOn("restore") /\ publisher'.spec = publisher.spec
    BY <1>1, GoesOnIs DEF ConfigureFails, PublicationInv, AfterIdle, Stages
<1>4. budget' \in Budget /\ budget'.publishes = budget.publishes /\ budget'.crashes >= budget.crashes
      /\ budget.crashes \in Nat /\ budget'.crashes \in Nat
    BY BudgetIs DEF ConfigureFails, PublicationInv, Acting, Budget
<1>5. Stored'
    BY <1>1 DEF PublicationInv, Stored
<1>6. Acting'
    BY <1>1, <1>2, <1>3, <1>4, ActingGoes DEF PublicationInv, Acting, GoesOn
<1>7. Prepared'
    BY <1>1, <1>3 DEF PublicationInv, Prepared, GoesOn
<1>8. Configured'
    BY <1>1, <1>3, <1>4 DEF PublicationInv, Configured, GoesOn
<1>9. (Revisions /\ DocumentsSafe /\ TopologyOurs)'
    BY <1>1, <1>3, <1>4, DocumentsAlone DEF GoesOn
<1>10. (DraftsKnown /\ MarkedIsPublished)'
    BY <1>1, <1>2, <1>3, DraftsAlone DEF Moves, AfterIdle, Stages
<1>. QED BY <1>5, <1>6, <1>7, <1>8, <1>9, <1>10 DEF PublicationInv

LEMMA RestoreExperimentStep ==
    ASSUME PublicationInv, RestoreExperiment
    PROVE  PublicationInv'
<1>1. UNCHANGED <<work, documents, topology, scenario, orphans, hook, budget, alone>> /\ publisher.at = "restore"
      /\ expLock' = "free"
    BY DEF RestoreExperiment, At
<1>2. Over /\ answer' \in AnswerGiven
    BY <1>1, AnswersIs DEF PublicationInv, RestoreExperiment
<1>3. publisher.spec \in StoredExperiment /\ experiment \in StoredExperiment /\ ~experiment.running
    BY <1>1 DEF PublicationInv, Prepared, Stored, MaybeExperiment
<1>4. experiment' \in StoredExperiment /\ experiment'.configured = publisher.spec.configured
    <2>1. experiment' = [publisher.spec EXCEPT !.running = experiment.running]
        BY <1>3, NothingDistinct DEF RestoreExperiment
    <2>2. experiment.running \in BOOLEAN
        BY <1>3 DEF StoredExperiment
    <2>. QED BY <1>3, <2>1, <2>2, ExperimentRuns
<1>5. Stored'
    BY <1>1, <1>4 DEF PublicationInv, Stored, MaybeExperiment
<1>6. Acting'
    BY <1>1, <1>2, ActingGoes, BudgetIs, IdleIs DEF PublicationInv, Acting, Over, Budget
<1>7. (Prepared /\ Configured)'
    <2>1. ~publisher.spec.configured => budget.crashes > 0
        BY <1>1, <1>3, NothingDistinct DEF PublicationInv, Configured
    <2>. QED BY <1>1, <1>2, <1>4, <2>1, IdleIs DEF Prepared, Configured, Over
<1>8. (Revisions /\ DocumentsSafe /\ TopologyOurs)'
    BY <1>1, <1>2, DocumentsAlone
<1>9. (DraftsKnown /\ MarkedIsPublished)'
    BY <1>1, <1>2, DraftsAlone DEF Moves
<1>. QED BY <1>5, <1>6, <1>7, <1>8, <1>9 DEF PublicationInv

LEMMA RecordPublicationStep ==
    ASSUME PublicationInv, RecordPublication
    PROVE  PublicationInv'
<1>1. UNCHANGED <<work, documents, topology, scenario, answer, orphans, hook, alone>> /\ publisher.at = "record"
      /\ expLock' = "free" /\ publisher' = [publisher EXCEPT !.at = "mark"]
    BY DEF RecordPublication, At
<1>2. publisher \in Publishing /\ Doc \in Documents /\ publisher.request.draft \in PublishDrafts
    BY <1>1, DocIs DEF PublicationInv
<1>3. GoesOn("mark")
    BY <1>1, GoesOnIs DEF PublicationInv, AfterIdle, Stages
<1>4. /\ budget' \in Budget /\ budget'.publishes = budget.publishes /\ budget'.crashes >= budget.crashes
      /\ budget.crashes \in Nat /\ budget'.crashes \in Nat
    BY BudgetIs DEF RecordPublication, PublicationInv, Acting, Budget
<1>5. \/ experiment' = experiment
      \/ /\ experiment \in StoredExperiment /\ experiment' \in StoredExperiment
         /\ experiment'.configured = experiment.configured
    <2>1. CASE /\ experiment # Nothing
               /\ experiment' = [experiment EXCEPT !.record =
                    [draft |-> publisher.request.draft, doc |-> Doc, spec |-> experiment.spec]]
        <3>1. experiment \in StoredExperiment
            BY <2>1 DEF PublicationInv, Stored, MaybeExperiment
        <3>2. experiment.spec \in Specs
            BY <3>1, ExperimentFields DEF StoredExperiment
        <3>3. [draft |-> publisher.request.draft, doc |-> Doc, spec |-> experiment.spec] \in PublicationRecord
            BY <1>2, <3>2 DEF PublicationRecord
        <3> DEFINE r == [draft |-> publisher.request.draft, doc |-> Doc, spec |-> experiment.spec]
        <3> HIDE DEF r
        <3>4. r \in PublicationRecord /\ experiment' = [experiment EXCEPT !.record = r]
            BY <2>1, <3>3 DEF r
        <3>. QED BY <3>1, <3>2, <3>4, ExperimentFields
    <2>. QED BY <2>1 DEF RecordPublication
<1>6. Stored'
    BY <1>1, <1>5 DEF PublicationInv, Stored, MaybeExperiment
<1>7. Acting'
    BY <1>1, <1>3, <1>4, ActingGoes DEF PublicationInv, Acting, GoesOn
<1>8. Prepared'
    BY <1>3 DEF Prepared, GoesOn
<1>9. Configured'
    <2>1. (experiment' # Nothing /\ ~experiment'.configured) => (experiment # Nothing /\ ~experiment.configured)
        BY <1>5, NothingDistinct
    <2>. QED BY <1>1, <1>3, <1>4, <2>1 DEF PublicationInv, Configured, GoesOn
<1>10. (Revisions /\ DocumentsSafe /\ TopologyOurs)'
    BY <1>1, <1>3, <1>4, DocumentsAlone DEF GoesOn
<1>11. (DraftsKnown /\ MarkedIsPublished)'
    BY <1>1, <1>2, <1>3, DraftsAlone DEF Moves, AfterIdle, Stages
<1>. QED BY <1>6, <1>7, <1>8, <1>9, <1>10, <1>11 DEF PublicationInv

\* Of the drafts, one that is the publication's revision is marked.
LEMMA MarkPublishedStep ==
    ASSUME PublicationInv, MarkPublished
    PROVE  PublicationInv'
<1> DEFINE b == publisher.request.draft
           w == work[b]
           x == [doc |-> Doc, request |-> publisher.request, snap |-> w.snap]
           marked == [w EXCEPT !.rev = w.rev + 1, !.last = x]
<1>1. UNCHANGED <<documents, topology, scenario, experiment, expLock, orphans, hook, budget, alone>> /\ publisher.at = "mark"
    BY DEF MarkPublished, At
<1>2. publisher \in Publishing /\ Doc \in Documents /\ b \in PublishDrafts /\ publisher.request \in Requests /\ w \in Draft
    BY <1>1, DocIs DEF PublicationInv, Stored
<1>3. \/ /\ GoesOn("superseded") /\ answer' = answer /\ w.rev = Meta.rev
         /\ work' = [work EXCEPT ![b] = marked]
      \/ /\ Over /\ answer' \in AnswerGiven
         /\ work' = work
    <2>1. CASE w.rev = Meta.rev
        <3>1. work' = [work EXCEPT ![b] = marked] /\ publisher' = [publisher EXCEPT !.at = "superseded"] /\ answer' = answer
            <4>1. work' = [work EXCEPT ![b] = marked]
                BY <2>1, Zenon DEF MarkPublished
            <4>2. publisher' = [publisher EXCEPT !.at = "superseded"] /\ answer' = answer
                BY <2>1 DEF MarkPublished
            <4>. QED BY <4>1, <4>2
        <3> HIDE DEF marked
        <3>. QED BY <1>1, <2>1, <3>1, GoesOnIs DEF PublicationInv, AfterIdle, Stages
    <2>2. CASE w.rev # Meta.rev
        BY <1>1, <2>2, AnswersIs DEF PublicationInv, MarkPublished
    <2>. QED BY <2>1, <2>2
<1>4. marked \in Draft /\ marked.rev = w.rev + 1 /\ marked.snap = w.snap /\ marked.doc = w.doc
      /\ marked.last.snap = w.snap /\ marked.last.doc = Doc
    <2>1. w.snap \in Nat /\ w.rev \in Nat
        BY <1>2 DEF Draft
    <2>2. x \in PublishedTo /\ x.snap = w.snap /\ x.doc = Doc
        BY <1>2, <2>1 DEF PublishedTo
    <2>. HIDE DEF x, w
    <2>3. x \in PublishedTo \cup {Nothing} /\ w.rev + 1 \in Nat
        BY <2>1, <2>2
    <2>4. marked \in Draft
        BY <1>2, <2>3 DEF Draft
    <2>5. marked.rev = w.rev + 1 /\ marked.snap = w.snap /\ marked.doc = w.doc /\ marked.last = x
        BY <1>2 DEF Draft
    <2>. QED BY <2>2, <2>4, <2>5
<1>5. w.rev = Meta.rev => w.doc = Doc
    BY <1>1 DEF PublicationInv, DraftsKnown, Meta, Doc
<1>6. w.snap \in Nat /\ w.rev \in Nat /\ Meta.rev \in Nat /\ w.snap <= w.rev
    BY <1>1, <1>2, DocIs DEF Draft, PublicationInv, DraftsKnown
<1>7. publisher'.at # "idle" => publisher'.request = publisher.request /\ publisher'.meta = publisher.meta
    BY <1>3, IdleIs DEF GoesOn, Over
<1> HIDE DEF b, w, x, marked
<1>8. CASE GoesOn("superseded") /\ answer' = answer /\ w.rev = Meta.rev /\ work' = [work EXCEPT ![b] = marked]
    <2>1. work' \in [PublishDrafts -> Draft] /\ work'[b] = marked /\ \A y \in PublishDrafts : y # b => work'[y] = work[y]
        BY <1>2, <1>4, <1>8 DEF PublicationInv, Stored
    <2>2. Stored'
        BY <1>1, <2>1 DEF PublicationInv, Stored
    <2>3. Acting'
        BY <1>1, <1>8, ActingGoes, BudgetIs DEF PublicationInv, Acting, GoesOn, Budget
    <2>4. (Prepared /\ Configured)'
        BY <1>1, <1>8, ExperimentAlone DEF GoesOn
    <2>5. (Revisions /\ DocumentsSafe /\ TopologyOurs)'
        BY <1>1, <1>8, DocumentsAlone DEF GoesOn
    <2>6. DraftsKnown'
        <3>1. ASSUME NEW y \in PublishDrafts
              PROVE  work'[y].snap <= work'[y].rev /\ (work'[y].last # Nothing => work'[y].last.snap <= work'[y].rev)
            BY <1>4, <1>6, <2>1 DEF PublicationInv, DraftsKnown
        <3>2. publisher'.request.draft = b /\ publisher'.meta.rev = w.rev
            BY <1>8 DEF GoesOn, b, Meta
        <3>3. publisher'.meta.rev <= work'[b].rev /\ publisher'.meta.rev # work'[b].rev
            BY <1>4, <1>6, <2>1, <3>2
        <3>. QED BY <3>1, <3>2, <3>3 DEF DraftsKnown, Meta
    <2>7. MarkedIsPublished'
        BY <1>4, <1>5, <1>8, <2>1 DEF PublicationInv, MarkedIsPublished
    <2>. QED BY <2>2, <2>3, <2>4, <2>5, <2>6, <2>7 DEF PublicationInv
<1>9. CASE Over /\ answer' \in AnswerGiven
           /\ work' = work
    <2>1. Stored'
        BY <1>1, <1>9 DEF PublicationInv, Stored
    <2>2. Acting'
        BY <1>1, <1>9, ActingGoes, BudgetIs, IdleIs DEF PublicationInv, Acting, Over, Budget
    <2>3. (Prepared /\ Configured)'
        BY <1>1, <1>9, ExperimentAlone
    <2>4. (Revisions /\ DocumentsSafe /\ TopologyOurs)'
        BY <1>1, <1>9, DocumentsAlone
    <2>5. (DraftsKnown /\ MarkedIsPublished)'
        BY <1>1, <1>9, DraftsAlone DEF Moves
    <2>. QED BY <2>1, <2>2, <2>3, <2>4, <2>5 DEF PublicationInv
<1>. QED BY <1>3, <1>8, <1>9

\* Documents only go; the one of the topology stays.
LEMMA DocumentsGo ==
    ASSUME PublicationInv, UNCHANGED <<topology, hook, orphans>> \/ (topology' = topology /\ hook' = {} /\ orphans' = orphans)
               \/ (topology' = topology /\ hook' = hook /\ orphans' = NoSweep),
           documents' \in [Documents -> StoredDocument \cup {Nothing}],
           \A d \in Documents : documents'[d] \in {documents[d], Nothing},
           topology # Nothing => documents'[topology.ref] = documents[topology.ref],
           (Writing /\ publisher' = publisher) => documents'[Doc] = documents[Doc],
           budget'.publishes = budget.publishes,
           publisher' = publisher \/ Over
    PROVE  (Revisions /\ DocumentsSafe /\ TopologyOurs)'
<1>1. topology # Nothing => topology.ref \in Documents
    BY DEF PublicationInv, Stored, StoredTopology
<1>2. (hook \cup orphans.listed)' \subseteq hook \cup orphans.listed
    BY DEF NoSweep
<1>3. Revisions'
    BY <1>2, IdleIs DEF PublicationInv, Revisions, Until, Before, Over
<1>4. Writing' => Writing /\ publisher' = publisher
    BY IdleIs DEF Writing, CanWrite, Over
<1>5. \A d \in Documents : Safe(d) /\ documents'[d] = documents[d] => Safe(d)'
    BY <1>2 DEF Safe
<1>6. Writing => Doc \in Documents
    BY DocIs DEF Writing, PublicationInv
<1>7. topology' = topology /\ (orphans' = orphans \/ (orphans'.at = "idle" /\ orphans'.listed = {}))
    BY DEF NoSweep
<1>8. DocumentsSafe'
    <2>1. topology # Nothing =>
            /\ (Safe(topology.ref))'
            /\ (orphans.at # "idle" => topology.ref = orphans.live \/ documents[topology.ref].young)'
        BY <1>1, <1>2, <1>7 DEF PublicationInv, DocumentsSafe, Safe
    <2>2. Writing' => Safe(Doc)' /\ (documents[Doc].young)'
        BY <1>2, <1>4, <1>6 DEF PublicationInv, DocumentsSafe, Safe, Doc
    <2>3. (orphans.at # "remove" => orphans.listed = {})'
        BY <1>7 DEF PublicationInv, DocumentsSafe
    <2>. QED BY <1>7, <2>1, <2>2, <2>3 DEF DocumentsSafe
<1>9. TopologyOurs'
    BY <1>7, IdleIs DEF PublicationInv, TopologyOurs, Over, Doc
<1>. QED BY <1>3, <1>8, <1>9

LEMMA DeleteSupersededStep ==
    ASSUME PublicationInv, DeleteSuperseded
    PROVE  PublicationInv'
<1>1. UNCHANGED <<work, topology, scenario, experiment, expLock, orphans, hook, budget, alone>> /\ publisher.at = "superseded"
    BY DEF DeleteSuperseded, At
<1>2. Over /\ answer' \in AnswerGiven
    BY <1>1, AnswersIs DEF PublicationInv, DeleteSuperseded
<1>3. /\ documents' \in [Documents -> StoredDocument \cup {Nothing}]
      /\ \A d \in Documents : documents'[d] \in {documents[d], Nothing} /\ (d = Doc => documents'[d] = documents[d])
    BY DEF DeleteSuperseded, PublicationInv, Stored
<1>4. topology # Nothing => topology.ref = Doc /\ topology.ref \in Documents
    BY <1>1 DEF PublicationInv, TopologyOurs, Stored, StoredTopology
<1>5. Stored'
    BY <1>1, <1>3 DEF PublicationInv, Stored
<1>6. Acting'
    BY <1>1, <1>2, ActingGoes, BudgetIs, IdleIs DEF PublicationInv, Acting, Over, Budget
<1>7. (Prepared /\ Configured)'
    BY <1>1, <1>2, ExperimentAlone
<1>8. (Revisions /\ DocumentsSafe /\ TopologyOurs)'
    BY <1>1, <1>2, <1>3, <1>4, DocumentsGo DEF Writing
<1>9. (DraftsKnown /\ MarkedIsPublished)'
    BY <1>1, <1>2, DraftsAlone DEF Moves
<1>. QED BY <1>5, <1>6, <1>7, <1>8, <1>9 DEF PublicationInv

LEMMA StageFailsStep ==
    ASSUME PublicationInv, StageFails
    PROVE  PublicationInv'
<1>1. UNCHANGED <<work, documents, topology, scenario, experiment, orphans, hook, alone>>
      /\ publisher.at \in {"write", "scenario", "lock", "reread", "update", "mark"}
      /\ expLock' = IF expLock = "publish" THEN "free" ELSE expLock
    BY DEF StageFails
<1>2. Over /\ answer' \in AnswerGiven
    BY <1>1, AnswersIs DEF PublicationInv, StageFails
<1>3. /\ budget' \in Budget /\ budget'.publishes = budget.publishes /\ budget'.crashes >= budget.crashes
      /\ budget.crashes \in Nat /\ budget'.crashes \in Nat
    BY BudgetIs DEF StageFails, PublicationInv, Acting, Budget
<1>4. Stored'
    BY <1>1 DEF PublicationInv, Stored
<1>5. Acting'
    BY <1>1, <1>2, <1>3, ActingGoes, IdleIs DEF PublicationInv, Acting, Over
<1>6. (Prepared /\ Configured)'
    BY <1>1, <1>2, <1>3, IdleIs DEF PublicationInv, Prepared, Configured, Over
<1>7. (Revisions /\ DocumentsSafe /\ TopologyOurs)'
    BY <1>1, <1>2, <1>3, DocumentsAlone
<1>8. (DraftsKnown /\ MarkedIsPublished)'
    BY <1>1, <1>2, DraftsAlone DEF Moves
<1>. QED BY <1>4, <1>5, <1>6, <1>7, <1>8 DEF PublicationInv

LEMMA PublishCrashStep ==
    ASSUME PublicationInv, PublishCrash
    PROVE  PublicationInv'
<1>1. UNCHANGED <<work, documents, topology, scenario, experiment, alone>> /\ Over /\ expLock' = "free" /\ hook' = {}
      /\ orphans' = NoSweep
    BY DEF PublishCrash, Over
<1>2. /\ budget' \in Budget /\ budget'.publishes = budget.publishes /\ budget'.crashes > 0
    BY BudgetIs DEF PublishCrash, PublicationInv, Acting, Budget
<1>3. answer' \in AnswerGiven
    <2>1. CASE publisher.at = "idle"
        BY <2>1 DEF PublishCrash, At, PublicationInv, Acting
    <2>2. CASE publisher.at \in {"topology", "experiment"}
        BY <2>2 DEF PublishCrash, At, AnswerGiven
    <2>3. CASE publisher.at \notin {"idle", "topology", "experiment"}
        <3>1. answer' = [is |-> "partial", request |-> publisher.request]
            BY <2>3 DEF PublishCrash, At
        <3>. QED BY <2>3, <3>1, DocIs DEF PublicationInv, AnswerGiven
    <2>. QED BY <2>1, <2>2, <2>3
<1>4. NoSweep \in [at : {"idle", "live", "remove"}, live : Documents \cup {Nothing}, listed : Listings]
      /\ NoSweep.at = "idle" /\ NoSweep.listed = {}
    BY DEF NoSweep, Listings
<1>5. Stored'
    BY <1>1 DEF PublicationInv, Stored
<1>6. Acting'
    <2>1. {} \in Listings
        BY DEF Listings
    <2>. QED BY <1>1, <1>2, <1>3, <1>4, <2>1, IdleIs DEF PublicationInv, Acting, Over, Budget
<1>7. (Prepared /\ Configured)'
    BY <1>1, <1>2, ExperimentAlone
<1>8. (Revisions /\ DocumentsSafe /\ TopologyOurs)'
    <2>1. topology # Nothing => topology.ref \in Documents
        BY DEF PublicationInv, Stored, StoredTopology
    <2>2. Revisions'
        BY <1>1, <1>2, <1>4, IdleIs DEF PublicationInv, Revisions, Until, Before, Over
    <2>3. DocumentsSafe'
        BY <1>1, <1>4, <2>1, IdleIs DEF PublicationInv, DocumentsSafe, Safe, Writing, Over
    <2>4. TopologyOurs'
        BY <1>1, IdleIs DEF TopologyOurs, Over
    <2>. QED BY <2>2, <2>3, <2>4
<1>9. (DraftsKnown /\ MarkedIsPublished)'
    BY <1>1, DraftsAlone DEF Moves
<1>. QED BY <1>5, <1>6, <1>7, <1>8, <1>9 DEF PublicationInv

----------------------------------------------------------------------------
(* The others.                                                             *)

LEMMA OtherIs ==
    ASSUME PublicationInv, Other
    PROVE  /\ budget' \in Budget /\ budget'.publishes = budget.publishes /\ budget'.crashes = budget.crashes
           /\ alone' \in BOOLEAN /\ answer' = answer
<1>1. budget \in Budget
    BY DEF PublicationInv, Acting, Budget
<1>2. budget' = [budget EXCEPT !["others"] = budget["others"] + 1]
    BY DEF Other, Used
<1>3. budget' \in Budget
    BY <1>1, <1>2 DEF Budget
<1>4. budget'.publishes = budget.publishes /\ budget'.crashes = budget.crashes
    BY <1>1, <1>2 DEF Budget
<1>5. alone' \in BOOLEAN /\ answer' = answer
    BY DEF Other
<1>. QED BY <1>3, <1>4, <1>5

\* Nobody else takes or frees the lock of the publication.
LEMMA ActingOthers ==
    ASSUME Acting, UNCHANGED <<publisher, answer>>, budget' \in Budget, alone' \in BOOLEAN,
           orphans' \in [at : {"idle", "live", "remove"}, live : Documents \cup {Nothing}, listed : Listings],
           hook' \in Listings,
           expLock' = expLock \/ (expLock # "publish" /\ expLock' \in {"free", "start", "stop"})
    PROVE  Acting'
BY DEF Acting, Budget

LEMMA SaveDraftStep ==
    ASSUME PublicationInv, NEW b \in PublishDrafts, NEW d \in Documents, SaveDraft(b, d)
    PROVE  PublicationInv'
<1> DEFINE w == work[b]
           saved == [w EXCEPT !.doc = d, !.rev = w.rev + 1, !.snap = w.rev + 1]
<1>1. UNCHANGED <<documents, topology, scenario, experiment, expLock, publisher, orphans, hook>>
      /\ work' = [work EXCEPT ![b] = saved]
    BY DEF SaveDraft
<1>2. /\ budget' \in Budget /\ budget'.publishes = budget.publishes /\ budget'.crashes = budget.crashes
      /\ alone' \in BOOLEAN /\ answer' = answer
    BY OtherIs DEF SaveDraft
<1>3. w \in Draft /\ w.rev \in Nat /\ w.snap \in Nat
    BY DEF PublicationInv, Stored, Draft
<1>4. saved \in Draft /\ saved.rev = w.rev + 1 /\ saved.snap = w.rev + 1 /\ saved.last = w.last
    <2>1. w.rev + 1 \in Nat
        BY <1>3
    <2> HIDE DEF w
    <2>2. saved \in Draft
        BY <1>3, <2>1 DEF Draft
    <2>3. saved.rev = w.rev + 1 /\ saved.snap = w.rev + 1 /\ saved.last = w.last
        BY <1>3 DEF Draft
    <2>. QED BY <2>2, <2>3
<1>5. w.last # Nothing => w.last.snap \in Nat /\ w.last.snap <= w.rev
    BY <1>3 DEF PublicationInv, DraftsKnown, Draft, PublishedTo
<1>6. publisher.at # "idle" => publisher.request.draft \in PublishDrafts /\ Meta \in Draft /\ Meta.rev \in Nat
    BY DocIs DEF PublicationInv, Draft
<1> HIDE DEF w, saved
<1>7. work' \in [PublishDrafts -> Draft] /\ work'[b] = saved /\ \A y \in PublishDrafts : y # b => work'[y] = work[y]
    BY <1>1, <1>4 DEF PublicationInv, Stored
<1>8. Stored'
    BY <1>1, <1>7 DEF PublicationInv, Stored
<1>9. Acting'
    BY <1>1, <1>2, ActingOthers DEF PublicationInv, Acting
<1>10. (Prepared /\ Configured)'
    BY <1>1, <1>2, ExperimentAlone
<1>11. (Revisions /\ DocumentsSafe /\ TopologyOurs)'
    BY <1>1, <1>2, DocumentsAlone
<1>12. DraftsKnown'
    <2>1. ASSUME NEW y \in PublishDrafts
          PROVE  work'[y].snap <= work'[y].rev /\ (work'[y].last # Nothing => work'[y].last.snap <= work'[y].rev)
        <3>1. CASE y = b
            BY <1>3, <1>4, <1>5, <1>7, <3>1
        <3>2. CASE y # b
            BY <1>7, <3>2 DEF PublicationInv, DraftsKnown
        <3>. QED BY <3>1, <3>2
    <2>2. ASSUME publisher.at # "idle"
          PROVE  /\ Meta.rev <= work'[publisher.request.draft].rev
                 /\ Meta.rev = work'[publisher.request.draft].rev => Meta = work'[publisher.request.draft]
        <3>1. CASE publisher.request.draft = b
            <4>1. Meta.rev <= w.rev
                BY <2>2, <3>1 DEF PublicationInv, DraftsKnown, w
            <4>. QED BY <1>3, <1>4, <1>6, <1>7, <2>2, <3>1, <4>1
        <3>2. CASE publisher.request.draft # b
            BY <1>6, <1>7, <2>2, <3>2 DEF PublicationInv, DraftsKnown
        <3>. QED BY <3>1, <3>2
    <2>. QED BY <1>1, <2>1, <2>2 DEF DraftsKnown, Meta
<1>13. MarkedIsPublished'
    <2>1. ASSUME NEW y \in PublishDrafts, work'[y].last # Nothing, work'[y].last.snap = work'[y].snap
          PROVE  work'[y].last.doc = work'[y].doc
        <3>1. y # b
            BY <1>3, <1>4, <1>5, <1>7, <2>1
        <3>. QED BY <1>7, <2>1, <3>1 DEF PublicationInv, MarkedIsPublished
    <2>. QED BY <2>1 DEF MarkedIsPublished
<1>. QED BY <1>8, <1>9, <1>10, <1>11, <1>12, <1>13 DEF PublicationInv

LEMMA EditTopologyStep ==
    ASSUME PublicationInv, EditTopology
    PROVE  PublicationInv'
<1>1. UNCHANGED <<work, scenario, experiment, expLock, publisher, orphans, hook>>
      /\ topology # Nothing /\ topology' = [topology EXCEPT !.spec = Edited] /\ documents' = Settled
    BY DEF EditTopology
<1>2. /\ budget' \in Budget /\ budget'.publishes = budget.publishes /\ budget'.crashes = budget.crashes
      /\ alone' \in BOOLEAN /\ answer' = answer
    BY OtherIs DEF EditTopology
<1>3. topology' \in StoredTopology /\ topology'.ref = topology.ref /\ topology.ref \in Documents /\ topology' # Nothing
    BY <1>1, NothingDistinct DEF PublicationInv, Stored, StoredTopology, Specs
<1>4. /\ documents' \in [Documents -> StoredDocument \cup {Nothing}]
      /\ \A d \in Documents :
            /\ documents'[d] = Nothing <=> documents[d] = Nothing
            /\ documents[d] # Nothing => documents'[d].rev = documents[d].rev /\ documents'[d].young = documents[d].young
    BY <1>1, SettledIs DEF PublicationInv
<1>5. Stored'
    BY <1>1, <1>3, <1>4 DEF PublicationInv, Stored
<1>6. Acting'
    BY <1>1, <1>2, ActingOthers DEF PublicationInv, Acting
<1>7. (Prepared /\ Configured)'
    BY <1>1, <1>2, ExperimentAlone
<1>8. Revisions'
    BY <1>1, <1>2, <1>4 DEF PublicationInv, Revisions, Until, Before
<1>9. \A d \in Documents : Safe(d)' <=> Safe(d)
    BY <1>1, <1>4 DEF Safe
<1>10. Writing' <=> Writing
    BY <1>1, <1>3 DEF Writing, CanWrite
<1>11. DocumentsSafe'
    <2>1. /\ (Safe(topology.ref))'
          /\ (orphans.at # "idle" => topology.ref = orphans.live \/ documents[topology.ref].young)'
        BY <1>1, <1>3, <1>4 DEF PublicationInv, DocumentsSafe, Safe
    <2>2. Writing' => (Safe(Doc) /\ documents[Doc].young)'
        <3>1. Writing => Doc \in Documents
            BY DocIs DEF Writing, PublicationInv
        <3>. QED BY <1>1, <1>4, <1>10, <3>1 DEF PublicationInv, DocumentsSafe, Safe, Doc
    <2>. QED BY <1>1, <2>1, <2>2 DEF PublicationInv, DocumentsSafe
<1>12. TopologyOurs'
    BY <1>1, <1>3 DEF PublicationInv, TopologyOurs, Doc
<1>13. (DraftsKnown /\ MarkedIsPublished)'
    BY <1>1, DraftsAlone DEF Moves
<1>. QED BY <1>5, <1>6, <1>7, <1>8, <1>11, <1>12, <1>13 DEF PublicationInv

LEMMA DeleteTopologyStep ==
    ASSUME PublicationInv, DeleteTopology
    PROVE  PublicationInv'
<1>1. UNCHANGED <<work, documents, scenario, experiment, expLock, publisher, orphans>>
      /\ topology # Nothing /\ topology' = Nothing
      /\ hook' = {<<d, documents[d].rev>> :
                    d \in {x \in Documents : documents[x] # Nothing /\ (~documents[x].since \/ ~documents[x].young)}}
    BY DEF DeleteTopology
<1>2. /\ budget' \in Budget /\ budget'.publishes = budget.publishes /\ budget'.crashes = budget.crashes
      /\ alone' \in BOOLEAN /\ answer' = answer
    BY OtherIs DEF DeleteTopology
<1>3. \A h \in hook' : \E d \in Documents : documents[d] # Nothing /\ h = <<d, documents[d].rev>>
    BY <1>1
<1>4. hook' \in Listings
    BY <1>3 DEF Listings, PublicationInv, Stored, StoredDocument
<1>5. Stored'
    BY <1>1 DEF PublicationInv, Stored
<1>6. Acting'
    BY <1>1, <1>2, <1>4, ActingOthers DEF PublicationInv, Acting
<1>7. (Prepared /\ Configured)'
    BY <1>1, <1>2, ExperimentAlone
<1>8. Revisions'
    BY <1>1, <1>2, <1>3 DEF PublicationInv, Revisions, Until, Before
<1>9. ~Writing'
    BY <1>1 DEF PublicationInv, TopologyOurs, Writing, CanWrite
<1>10. DocumentsSafe' /\ TopologyOurs'
    BY <1>1, <1>9 DEF PublicationInv, DocumentsSafe, TopologyOurs
<1>11. (DraftsKnown /\ MarkedIsPublished)'
    BY <1>1, DraftsAlone DEF Moves
<1>. QED BY <1>5, <1>6, <1>7, <1>8, <1>10, <1>11 DEF PublicationInv

LEMMA HookRemovesStep ==
    ASSUME PublicationInv, HookRemoves
    PROVE  PublicationInv'
<1>1. UNCHANGED <<work, topology, scenario, experiment, expLock, publisher, answer, orphans, budget>>
      /\ documents' = RemovedListed(hook) /\ hook' = {} /\ alone' = FALSE
    BY DEF HookRemoves
<1>2. /\ documents' \in [Documents -> StoredDocument \cup {Nothing}]
      /\ \A d \in Documents : documents'[d] = IF documents[d] # Nothing /\ <<d, documents[d].rev>> \in hook
                                              THEN Nothing ELSE documents[d]
    BY <1>1, RemovedIs DEF PublicationInv
<1>3. \A d \in Documents : Safe(d) => documents'[d] = documents[d]
    BY <1>2 DEF Safe
<1>4. topology # Nothing => documents'[topology.ref] = documents[topology.ref]
    BY <1>3 DEF PublicationInv, Stored, StoredTopology, DocumentsSafe
<1>5. Writing => documents'[Doc] = documents[Doc]
    BY <1>3, DocIs DEF PublicationInv, DocumentsSafe, Writing
<1>6. Stored'
    BY <1>1, <1>2 DEF PublicationInv, Stored
<1>7. Acting'
    <2>1. {} \in Listings
        BY DEF Listings
    <2>. QED BY <1>1, <2>1, ActingOthers, BudgetIs DEF PublicationInv, Acting, Budget
<1>8. (Prepared /\ Configured)'
    BY <1>1, ExperimentAlone
<1>9. (Revisions /\ DocumentsSafe /\ TopologyOurs)'
    BY <1>1, <1>2, <1>4, <1>5, DocumentsGo
<1>10. (DraftsKnown /\ MarkedIsPublished)'
    BY <1>1, DraftsAlone DEF Moves
<1>. QED BY <1>6, <1>7, <1>8, <1>9, <1>10 DEF PublicationInv

LEMMA SweepLiveStep ==
    ASSUME PublicationInv, SweepLive
    PROVE  PublicationInv'
<1> DEFINE live == IF topology = Nothing THEN Nothing ELSE topology.ref
           begun == [at |-> "live", live |-> live, listed |-> {}]
<1>1. UNCHANGED <<work, documents, topology, scenario, experiment, expLock, publisher, answer, hook, budget, alone>>
      /\ orphans.at = "idle" /\ orphans' = begun
    BY DEF SweepLive
<1>2. live \in Documents \cup {Nothing} /\ {} \in Listings
    BY DEF PublicationInv, Stored, StoredTopology, Listings
<1>3. orphans' \in [at : {"idle", "live", "remove"}, live : Documents \cup {Nothing}, listed : Listings]
    BY <1>1, <1>2
<1>4. orphans'.at = "live" /\ orphans'.live = live /\ orphans'.listed = {} /\ orphans.listed = {}
    BY <1>1 DEF PublicationInv, DocumentsSafe
<1> HIDE DEF begun
<1>5. Stored'
    BY <1>1 DEF PublicationInv, Stored
<1>6. Acting'
    BY <1>1, <1>3, ActingOthers, BudgetIs DEF PublicationInv, Acting, Budget
<1>7. (Prepared /\ Configured)'
    BY <1>1, ExperimentAlone
<1>8. Revisions' /\ TopologyOurs'
    BY <1>1, <1>4 DEF PublicationInv, Revisions, Until, Before, TopologyOurs, Doc
<1>9. \A d \in Documents : Safe(d)' <=> Safe(d)
    BY <1>1, <1>4 DEF Safe
<1>10. DocumentsSafe'
    <2>1. topology # Nothing => (Safe(topology.ref))' /\ topology.ref = orphans'.live
        BY <1>1, <1>4 DEF PublicationInv, DocumentsSafe, Safe
    <2>2. Writing' => (Safe(Doc) /\ documents[Doc].young)'
        BY <1>1, <1>4 DEF PublicationInv, DocumentsSafe, Safe, Writing, CanWrite, Doc
    <2>. QED BY <1>1, <1>4, <2>1, <2>2 DEF DocumentsSafe
<1>11. (DraftsKnown /\ MarkedIsPublished)'
    BY <1>1, DraftsAlone DEF Moves
<1>. QED BY <1>5, <1>6, <1>7, <1>8, <1>10, <1>11 DEF PublicationInv

LEMMA SweepListsOrphansStep ==
    ASSUME PublicationInv, SweepListsOrphans
    PROVE  PublicationInv'
<1> DEFINE listed == {<<d, documents[d].rev>> : d \in {x \in Documents :
                            x # orphans.live /\ documents[x] # Nothing /\ ~documents[x].young}}
<1>1. UNCHANGED <<work, documents, topology, scenario, experiment, expLock, publisher, answer, hook, budget, alone>>
      /\ orphans.at = "live" /\ orphans' = [orphans EXCEPT !.at = "remove", !.listed = listed]
    BY DEF SweepListsOrphans
<1>2. \A h \in listed : \E d \in Documents :
            documents[d] # Nothing /\ h = <<d, documents[d].rev>> /\ d # orphans.live /\ ~documents[d].young
    OBVIOUS
<1> HIDE DEF listed
<1>3. listed \in Listings
    BY <1>2 DEF Listings, PublicationInv, Stored, StoredDocument
<1>4. orphans' \in [at : {"idle", "live", "remove"}, live : Documents \cup {Nothing}, listed : Listings]
    BY <1>1, <1>3 DEF PublicationInv, Acting
<1>5. orphans'.at = "remove" /\ orphans'.live = orphans.live /\ orphans'.listed = listed /\ orphans.listed = {}
    BY <1>1 DEF PublicationInv, Acting, DocumentsSafe
<1>6. Stored'
    BY <1>1 DEF PublicationInv, Stored
<1>7. Acting'
    BY <1>1, <1>4, ActingOthers, BudgetIs DEF PublicationInv, Acting, Budget
<1>8. (Prepared /\ Configured)'
    BY <1>1, ExperimentAlone
<1>9. Revisions' /\ TopologyOurs'
    BY <1>1, <1>2, <1>5 DEF PublicationInv, Revisions, Until, Before, TopologyOurs, Doc
<1>10. \A d \in Documents : Safe(d) /\ (d = orphans.live \/ documents[d].young) => Safe(d)'
    BY <1>1, <1>2, <1>5 DEF Safe
<1>11. DocumentsSafe'
    <2>1. topology # Nothing => (Safe(topology.ref))' /\ (topology.ref = orphans.live \/ documents[topology.ref].young)
        <3>1. topology # Nothing => topology.ref \in Documents
            BY DEF PublicationInv, Stored, StoredTopology
        <3>2. topology # Nothing => Safe(topology.ref) /\ (topology.ref = orphans.live \/ documents[topology.ref].young)
            BY <1>1 DEF PublicationInv, DocumentsSafe
        <3>. QED BY <1>1, <1>10, <3>1, <3>2 DEF Safe
    <2>2. Writing' => (Safe(Doc) /\ documents[Doc].young)'
        <3>1. Writing => Doc \in Documents /\ Safe(Doc) /\ documents[Doc].young
            BY DocIs DEF Writing, PublicationInv, DocumentsSafe
        <3>. QED BY <1>1, <1>10, <3>1 DEF Safe, Writing, CanWrite, Doc
    <2>. QED BY <1>1, <1>5, <2>1, <2>2 DEF DocumentsSafe
<1>12. (DraftsKnown /\ MarkedIsPublished)'
    BY <1>1, DraftsAlone DEF Moves
<1>. QED BY <1>6, <1>7, <1>8, <1>9, <1>11, <1>12 DEF PublicationInv

LEMMA SweepOrphansStep ==
    ASSUME PublicationInv, SweepOrphans
    PROVE  PublicationInv'
<1>1. UNCHANGED <<work, topology, scenario, experiment, expLock, publisher, answer, hook, budget, alone>>
      /\ documents' = RemovedListed(orphans.listed) /\ orphans' = NoSweep
    BY DEF SweepOrphans
<1>2. /\ documents' \in [Documents -> StoredDocument \cup {Nothing}]
      /\ \A d \in Documents : documents'[d] = IF documents[d] # Nothing /\ <<d, documents[d].rev>> \in orphans.listed
                                              THEN Nothing ELSE documents[d]
    BY <1>1, RemovedIs DEF PublicationInv
<1>3. \A d \in Documents : Safe(d) => documents'[d] = documents[d]
    BY <1>2 DEF Safe
<1>4. topology # Nothing => documents'[topology.ref] = documents[topology.ref]
    BY <1>3 DEF PublicationInv, Stored, StoredTopology, DocumentsSafe
<1>5. Writing => documents'[Doc] = documents[Doc]
    BY <1>3, DocIs DEF PublicationInv, DocumentsSafe, Writing
<1>6. Stored'
    BY <1>1, <1>2 DEF PublicationInv, Stored
<1>7. Acting'
    <2>1. NoSweep \in [at : {"idle", "live", "remove"}, live : Documents \cup {Nothing}, listed : Listings]
        BY DEF NoSweep, Listings
    <2>. QED BY <1>1, <2>1, ActingOthers, BudgetIs DEF PublicationInv, Acting, Budget
<1>8. (Prepared /\ Configured)'
    BY <1>1, ExperimentAlone
<1>9. (Revisions /\ DocumentsSafe /\ TopologyOurs)'
    BY <1>1, <1>2, <1>4, <1>5, DocumentsGo
<1>10. (DraftsKnown /\ MarkedIsPublished)'
    BY <1>1, DraftsAlone DEF Moves
<1>. QED BY <1>6, <1>7, <1>8, <1>9, <1>10 DEF PublicationInv

LEMMA DocumentAgesStep ==
    ASSUME PublicationInv, NEW d \in Documents, DocumentAges(d)
    PROVE  PublicationInv'
<1> DEFINE aged == [documents[d] EXCEPT !.young = FALSE]
<1>1. UNCHANGED <<work, topology, scenario, experiment, expLock, publisher, answer, orphans, hook, budget, alone>>
      /\ documents[d] # Nothing /\ publisher.at = "idle" /\ orphans.at = "idle"
    BY DEF DocumentAges, At
<1>2. documents' = [documents EXCEPT ![d] = aged]
    BY DEF DocumentAges
<1>3. aged \in StoredDocument /\ aged.rev = documents[d].rev
    BY <1>1 DEF PublicationInv, Stored, StoredDocument
<1> HIDE DEF aged
<1>4. /\ documents' \in [Documents -> StoredDocument \cup {Nothing}]
      /\ \A x \in Documents : (documents'[x] = Nothing <=> documents[x] = Nothing)
                                /\ (documents[x] # Nothing => documents'[x].rev = documents[x].rev)
    BY <1>1, <1>2, <1>3, NothingDistinct DEF PublicationInv, Stored
<1>5. Stored'
    BY <1>1, <1>4 DEF PublicationInv, Stored
<1>6. Acting'
    BY <1>1, ActingOthers, BudgetIs DEF PublicationInv, Acting, Budget
<1>7. (Prepared /\ Configured)'
    BY <1>1, ExperimentAlone
<1>8. Revisions' /\ TopologyOurs'
    BY <1>1, <1>4 DEF PublicationInv, Revisions, Until, Before, TopologyOurs, Doc
<1>9. DocumentsSafe'
    <2>1. topology # Nothing => topology.ref \in Documents
        BY DEF PublicationInv, Stored, StoredTopology
    <2>2. topology # Nothing => (Safe(topology.ref))'
        BY <1>1, <1>4, <2>1 DEF PublicationInv, DocumentsSafe, Safe
    <2>. QED BY <1>1, <2>2 DEF PublicationInv, DocumentsSafe, Writing
<1>10. (DraftsKnown /\ MarkedIsPublished)'
    BY <1>1, DraftsAlone DEF Moves
<1>. QED BY <1>5, <1>6, <1>7, <1>8, <1>9, <1>10 DEF PublicationInv

LEMMA StartStopStep ==
    ASSUME PublicationInv, NEW verb \in {"start", "stop"}, StartStop(verb)
    PROVE  PublicationInv'
<1>1. UNCHANGED <<work, documents, topology, scenario, experiment, publisher, orphans, hook>>
      /\ expLock = "free" /\ expLock' = verb
    BY DEF StartStop
<1>2. /\ budget' \in Budget /\ budget'.publishes = budget.publishes /\ budget'.crashes = budget.crashes
      /\ alone' \in BOOLEAN /\ answer' = answer
    BY OtherIs DEF StartStop
<1>3. Stored'
    BY <1>1 DEF PublicationInv, Stored
<1>4. Acting'
    BY <1>1, <1>2, ActingOthers DEF PublicationInv, Acting
<1>5. (Prepared /\ Configured)'
    BY <1>1, <1>2, ExperimentAlone
<1>6. (Revisions /\ DocumentsSafe /\ TopologyOurs)'
    BY <1>1, <1>2, DocumentsAlone
<1>7. (DraftsKnown /\ MarkedIsPublished)'
    BY <1>1, DraftsAlone DEF Moves
<1>. QED BY <1>3, <1>4, <1>5, <1>6, <1>7 DEF PublicationInv

LEMMA StartedStoppedStep ==
    ASSUME PublicationInv, StartedStopped
    PROVE  PublicationInv'
<1>1. UNCHANGED <<work, documents, topology, scenario, publisher, answer, orphans, hook, budget>>
      /\ expLock \in {"start", "stop"} /\ expLock' = "free" /\ alone' = FALSE
    BY DEF StartedStopped
<1>2. publisher.at \notin {"reread", "update", "configure", "restore", "record"}
    BY <1>1 DEF PublicationInv, Acting
<1>3. \/ experiment = Nothing /\ experiment' = Nothing
      \/ experiment \in StoredExperiment /\ experiment' \in StoredExperiment /\ experiment'.configured = experiment.configured
    <2>1. experiment # Nothing => experiment' = [experiment EXCEPT !.running = (expLock = "start")]
        BY DEF StartedStopped
    <2>2. (expLock = "start") \in BOOLEAN
        OBVIOUS
    <2>3. experiment # Nothing => experiment \in StoredExperiment
        BY DEF PublicationInv, Stored, MaybeExperiment
    <2> DEFINE x == expLock = "start"
    <2> HIDE DEF x
    <2>4. experiment # Nothing => experiment' = [experiment EXCEPT !.running = x] /\ x \in BOOLEAN
        BY <2>1, <2>2 DEF x
    <2>. QED BY <2>3, <2>4, ExperimentRuns DEF StartedStopped
<1>4. Stored'
    BY <1>1, <1>3 DEF PublicationInv, Stored, MaybeExperiment
<1>5. Acting'
    BY <1>1, ActingOthers, BudgetIs DEF PublicationInv, Acting, Budget
<1>6. (Prepared /\ Configured)'
    BY <1>1, <1>2, <1>3, NothingDistinct DEF PublicationInv, Prepared, Configured
<1>7. (Revisions /\ DocumentsSafe /\ TopologyOurs)'
    BY <1>1, DocumentsAlone
<1>8. (DraftsKnown /\ MarkedIsPublished)'
    BY <1>1, DraftsAlone DEF Moves
<1>. QED BY <1>4, <1>5, <1>6, <1>7, <1>8 DEF PublicationInv

LEMMA EditExperimentStep ==
    ASSUME PublicationInv, EditExperiment
    PROVE  PublicationInv'
<1>1. UNCHANGED <<work, documents, topology, scenario, expLock, publisher, orphans, hook>>
      /\ experiment # Nothing /\ ~experiment.running
      /\ experiment' = [experiment EXCEPT !.spec = Edited, !.configured = TRUE]
    BY DEF EditExperiment
<1>2. /\ budget' \in Budget /\ budget'.publishes = budget.publishes /\ budget'.crashes = budget.crashes
      /\ alone' \in BOOLEAN /\ answer' = answer
    BY OtherIs DEF EditExperiment
<1>3. experiment \in StoredExperiment /\ Edited \in Specs
    BY <1>1 DEF PublicationInv, Stored, MaybeExperiment, Specs
<1>4. experiment' \in StoredExperiment /\ experiment'.configured /\ ~experiment'.running
    <2>1. experiment' \in StoredExperiment
        BY <1>1, <1>3 DEF StoredExperiment
    <2>2. experiment'.configured /\ ~experiment'.running
        BY <1>1, <1>3 DEF StoredExperiment
    <2>. QED BY <2>1, <2>2
<1>5. Stored'
    BY <1>1, <1>4 DEF PublicationInv, Stored, MaybeExperiment
<1>6. Acting'
    BY <1>1, <1>2, ActingOthers DEF PublicationInv, Acting
<1>7. (Prepared /\ Configured)'
    BY <1>1, <1>2, <1>4, NothingDistinct DEF PublicationInv, Prepared, Configured
<1>8. (Revisions /\ DocumentsSafe /\ TopologyOurs)'
    BY <1>1, <1>2, DocumentsAlone
<1>9. (DraftsKnown /\ MarkedIsPublished)'
    BY <1>1, DraftsAlone DEF Moves
<1>. QED BY <1>5, <1>6, <1>7, <1>8, <1>9 DEF PublicationInv

----------------------------------------------------------------------------
(* The theorems.                                                           *)

\* A request is one, the one a client sends again included.
LEMMA RequestsAre ==
    ASSUME PublicationInv
    PROVE  /\ \A b \in PublishDrafts, t \in Actions, e \in Actions \cup {"none"} :
                [draft |-> b, rev |-> work[b].rev, topology |-> t, experiment |-> e] \in Requests
           /\ answer.is # "none" => answer.request \in Requests
<1>1. \A b \in PublishDrafts : work[b].rev \in Nat
    BY DEF PublicationInv, Stored, Draft
<1>2. answer.is # "none" => answer.request \in Requests
    BY DEF PublicationInv, Acting, AnswerGiven, NoAnswer
<1>. QED BY <1>1, <1>2 DEF Requests

LEMMA PublicationStepInv == PublicationInv /\ [PublicationNext]_publishVars => PublicationInv'
<1>. SUFFICES ASSUME PublicationInv, [PublicationNext]_publishVars PROVE PublicationInv'
    OBVIOUS
<1>1. ASSUME NEW b \in PublishDrafts, NEW t \in Actions, NEW e \in Actions \cup {"none"},
             PublishDraft([draft |-> b, rev |-> work[b].rev, topology |-> t, experiment |-> e])
      PROVE  PublicationInv'
    BY <1>1, RequestsAre, PublishDraftStep
<1>2. CASE answer.is # "none" /\ PublishDraft(answer.request)
    BY <1>2, RequestsAre, PublishDraftStep
<1>3. CASE PublishStage
    BY <1>3, PreflightTopologyStep, PreflightExperimentStep, PutPublishedDocumentStep, PublishTopologyStep, WriteRefusedStep,
       PublishScenarioStep, LockExperimentStep, RereadExperimentStep, WriteExperimentStep, ReconfigureExperimentStep,
       RestoreExperimentStep, RecordPublicationStep, MarkPublishedStep, DeleteSupersededStep DEF PublishStage
<1>4. CASE ConfigureFails \/ StageFails \/ PublishCrash
    BY <1>4, ConfigureFailsStep, StageFailsStep, PublishCrashStep
<1>5. CASE \E b \in PublishDrafts, d \in Documents : SaveDraft(b, d)
    BY <1>5, SaveDraftStep
<1>6. CASE EditTopology \/ DeleteTopology \/ HookRemoves \/ SweepLive \/ SweepListsOrphans \/ SweepOrphans
    BY <1>6, EditTopologyStep, DeleteTopologyStep, HookRemovesStep, SweepLiveStep, SweepListsOrphansStep, SweepOrphansStep
<1>7. CASE \E d \in Documents : DocumentAges(d)
    BY <1>7, DocumentAgesStep
<1>8. CASE (\E v \in {"start", "stop"} : StartStop(v)) \/ StartedStopped \/ EditExperiment
    BY <1>8, StartStopStep, StartedStoppedStep, EditExperimentStep
<1>9. CASE UNCHANGED publishVars
    <2>1. UNCHANGED <<work, documents, topology, scenario, experiment, expLock, publisher, answer, alone, orphans, hook, budget>>
        BY <1>9 DEF publishVars
    <2>2. Stored'
        BY <2>1 DEF PublicationInv, Stored
    <2>3. Acting'
        BY <2>1 DEF PublicationInv, Acting
    <2>4. (Prepared /\ Configured)'
        BY <2>1, ExperimentAlone
    <2>5. (Revisions /\ DocumentsSafe /\ TopologyOurs)'
        BY <2>1, DocumentsAlone
    <2>6. (DraftsKnown /\ MarkedIsPublished)'
        BY <2>1, DraftsAlone DEF Moves
    <2>. QED BY <2>2, <2>3, <2>4, <2>5, <2>6 DEF PublicationInv
<1>. QED BY <1>1, <1>2, <1>3, <1>4, <1>5, <1>6, <1>7, <1>8, <1>9 DEF PublicationNext

\* The types of publication, the bound on revisions among them.
THEOREM PublicationTypes == PublicationSpec => []PublicationTypeOK
<1>1. PublicationInv => PublicationTypeOK
    <2>. SUFFICES ASSUME PublicationInv PROVE PublicationTypeOK
        OBVIOUS
    <2>1. \A b \in PublishDrafts : work[b].doc \in Documents /\ work[b].rev \in Nat
        BY DEF PublicationInv, Stored, Draft
    <2>2. \A d \in Documents : documents[d] # Nothing => documents[d] \in StoredDocument /\ documents[d].rev <= MaxPublishes
        <3>1. budget.publishes \in Nat /\ budget.publishes <= MaxPublishes
            BY PublicationAssumption DEF PublicationInv, Acting
        <3>2. \A d \in Documents : documents[d] # Nothing =>
                documents[d] \in StoredDocument /\ documents[d].rev \in Nat /\ documents[d].rev <= budget.publishes
            BY DEF PublicationInv, Stored, StoredDocument, Revisions, Until
        <3>. QED BY <3>1, <3>2, PublicationAssumption
    <2>3. (topology # Nothing => topology \in StoredTopology) /\ (experiment # Nothing => experiment \in StoredExperiment)
        BY DEF PublicationInv, Stored, MaybeExperiment
    <2>4. publisher.at \in Stages /\ (publisher.at # "idle" => publisher.request \in Requests)
        BY IdleIs, PublishingFields DEF PublicationInv, Acting, AfterIdle, Stages
    <2>5. answer.is \in {"none", "succeeded", "partial", "refused"}
        BY DEF PublicationInv, Acting, AnswerGiven, NoAnswer
    <2>. QED BY <2>1, <2>2, <2>3, <2>4, <2>5 DEF PublicationInv, Acting, PublicationTypeOK
<1>. QED BY <1>1, PublicationInitInv, PublicationStepInv, PTL DEF PublicationSpec

\* What a publication leaves behind is consistent (PutPublishedDocument,
\* CleanupOrphanedDocuments, DeleteConfigDocuments, MarkPublished,
\* restoreExperiment): the document a topology references is stored, a draft
\* marked as published was, and an experiment whose configure stage failed is
\* restored.
THEOREM PublicationHolds == PublicationSpec => []PublicationConsistent
<1>1. PublicationInv => PublicationConsistent
    <2>. SUFFICES ASSUME PublicationInv PROVE PublicationConsistent
        OBVIOUS
    <2>1. ReferencedDocumentStored
        BY DEF PublicationInv, DocumentsSafe, Safe, ReferencedDocumentStored
    <2>2. UnconfiguredRestored
        BY DEF PublicationInv, Configured, UnconfiguredRestored, At
    <2>. QED BY <2>1, <2>2 DEF PublicationInv, PublicationConsistent
<1>. QED BY <1>1, PublicationInitInv, PublicationStepInv, PTL DEF PublicationSpec

\* A publication changes no experiment that runs: what preflight read is read
\* again under the lock, and nobody starts the experiment meanwhile
\* (writeExperiment, restoreExperiment).
LEMMA RunningStep ==
    ASSUME PublicationInv, PublicationNext, experiment # Nothing, experiment.running, experiment' # Nothing
    PROVE  experiment'.spec = experiment.spec
<1>1. experiment \in StoredExperiment
    BY DEF PublicationInv, Stored, MaybeExperiment
<1>2. publisher.at \notin {"update", "configure", "restore"}
    BY DEF PublicationInv, Prepared
<1>3. CASE RecordPublication /\ experiment' # experiment
    <2> DEFINE r == [draft |-> publisher.request.draft, doc |-> Doc, spec |-> experiment.spec]
    <2>1. experiment' = [experiment EXCEPT !.record = r]
        BY <1>3 DEF RecordPublication
    <2> HIDE DEF r
    <2>. QED BY <1>1, <2>1 DEF StoredExperiment
<1>4. CASE StartedStopped
    <2> DEFINE x == expLock = "start"
    <2>1. experiment' = [experiment EXCEPT !.running = x]
        BY <1>4 DEF StartedStopped
    <2> HIDE DEF x
    <2>. QED BY <1>1, <2>1 DEF StoredExperiment
<1>5. CASE experiment' = experiment
    BY <1>5
<1>6. \/ experiment' = experiment \/ RecordPublication \/ StartedStopped
      \/ WriteExperiment \/ ReconfigureExperiment \/ RestoreExperiment \/ EditExperiment
    <2>1. CASE PublishStage
        BY <2>1 DEF PublishStage, PreflightTopology, PreflightExperiment, PutPublishedDocument, PublishTopology, WriteRefused,
                    PublishScenario, LockExperiment, RereadExperiment, MarkPublished, DeleteSuperseded
    <2>2. CASE ConfigureFails \/ StageFails \/ PublishCrash
        BY <2>2 DEF ConfigureFails, StageFails, PublishCrash
    <2>3. CASE \E q : PublishDraft(q)
        BY <2>3 DEF PublishDraft
    <2>4. CASE (\E b \in PublishDrafts, d \in Documents : SaveDraft(b, d)) \/ (\E d \in Documents : DocumentAges(d))
               \/ (\E v \in {"start", "stop"} : StartStop(v))
        BY <2>4 DEF SaveDraft, DocumentAges, StartStop
    <2>5. CASE EditTopology \/ DeleteTopology \/ HookRemoves \/ SweepLive \/ SweepListsOrphans \/ SweepOrphans
        BY <2>5 DEF EditTopology, DeleteTopology, HookRemoves, SweepLive, SweepListsOrphans, SweepOrphans
    <2>. QED BY <2>1, <2>2, <2>3, <2>4, <2>5 DEF PublicationNext
<1>7. ~WriteExperiment /\ ~ReconfigureExperiment /\ ~RestoreExperiment /\ ~EditExperiment
    BY <1>2 DEF WriteExperiment, ReconfigureExperiment, RestoreExperiment, EditExperiment, At
<1>. QED BY <1>3, <1>4, <1>5, <1>6, <1>7

THEOREM RunningUntouched == PublicationSpec => RunningExperimentUntouched
<1>1. PublicationInv /\ [PublicationNext]_publishVars =>
        [(experiment # Nothing /\ experiment.running /\ experiment' # Nothing)
            => experiment'.spec = experiment.spec]_publishVars
    BY RunningStep
<1>. QED BY <1>1, PublicationInitInv, PublicationStepInv, PTL DEF PublicationSpec, RunningExperimentUntouched

(***************************************************************************)
(* A request sent again passes preflight. Inductive is what preflight      *)
(* would find, of a request that got beyond it and of one without a whole  *)
(* answer, as long as nobody else acted: the draft is the revision it      *)
(* names and the topology and the experiment are as it may take them, or   *)
(* the draft records it.                                                   *)
(***************************************************************************)

\* A request for a draft m passes the check of a topology t, of an
\* experiment e; or its draft records it.
TakesTopology(q, m, t, docs) ==
    \/ t # Nothing /\ t.ref = m.doc
    \/ q.topology = "create" /\ t = Nothing
    \/ /\ q.topology = "update" /\ t # Nothing /\ docs[t.ref] # Nothing
       /\ (m.last # Nothing /\ m.last.doc = t.ref) \/ docs[t.ref].draft = q.draft
       /\ t.spec = t.ref

TakesExperiment(q, m, e) ==
    \/ q.experiment = "none"
    \/ e # Nothing /\ e.spec = m.doc
    \/ q.experiment = "create" /\ e = Nothing
    \/ /\ q.experiment = "update" /\ e # Nothing /\ ~e.running /\ e.record # Nothing /\ e.record.spec = e.spec
       /\ e.record.draft = q.draft \/ (m.last # Nothing /\ m.last.doc = e.record.doc)

Finished(q, w) == w.rev # q.rev /\ w.last # Nothing /\ w.last.request = q /\ w.last.snap = w.snap

Repeats(q) == answer.is = "partial" /\ answer.request = q

RetryInv ==
    alone =>
        /\ (publisher.at = "idle" /\ answer.is = "partial") =>
            LET q == answer.request
                w == work[q.draft]
            IN  \/ Finished(q, w)
                \/ w.rev = q.rev /\ TakesTopology(q, w, topology, documents) /\ TakesExperiment(q, w, experiment)
        /\ publisher.at = "superseded" => Finished(publisher.request, work[publisher.request.draft])
        /\ publisher.at \notin {"idle", "superseded"} =>
            /\ Meta = work[publisher.request.draft] /\ Meta.rev = publisher.request.rev
            /\ (publisher.at # "topology" \/ Repeats(publisher.request)) =>
                    TakesTopology(publisher.request, Meta, topology, documents)
            /\ (publisher.at \notin {"topology", "experiment"} \/ Repeats(publisher.request)) =>
                    TakesExperiment(publisher.request, Meta, experiment)
        /\ publisher.at \in {"update", "configure", "restore"} =>
            TakesExperiment(publisher.request, Meta, publisher.spec)

LEMMA TopologyKept ==
    ASSUME NEW q, NEW m, NEW t, NEW docs, NEW docs2, TakesTopology(q, m, t, docs),
           t # Nothing => docs2[t.ref] # Nothing /\ docs2[t.ref].draft = docs[t.ref].draft
    PROVE  TakesTopology(q, m, t, docs2)
BY DEF TakesTopology

\* A change of whether the experiment is configured.
LEMMA ExperimentKept ==
    ASSUME NEW q, NEW m, NEW e \in StoredExperiment, NEW f \in StoredExperiment, TakesExperiment(q, m, e),
           f.spec = e.spec, f.record = e.record, f.running => e.running
    PROVE  TakesExperiment(q, m, f)
BY NothingDistinct DEF TakesExperiment

\* What preflight allows.
LEMMA Allows ==
    ASSUME PublicationInv, publisher.at # "idle"
    PROVE  /\ TopologyAllowed <=> TakesTopology(publisher.request, Meta, topology, documents)
           /\ ExperimentAllowed <=> TakesExperiment(publisher.request, Meta, experiment)
<1>1. topology # Nothing => topology.ref # Nothing
    BY NothingDistinct DEF PublicationInv, Stored, StoredTopology
<1>2. TopologyAllowed <=> TakesTopology(publisher.request, Meta, topology, documents)
    BY <1>1 DEF TopologyAllowed, TopologyApplied, HoldsOwnUnchanged, Doc, Meta, TakesTopology
<1>3. ExperimentAllowed <=> TakesExperiment(publisher.request, Meta, experiment)
    BY DEF ExperimentAllowed, ExperimentApplied, ExperimentHeld, Doc, Meta, TakesExperiment
<1>. QED BY <1>2, <1>3

\* The publication ends part way ...
LEMMA RetryEnds ==
    ASSUME RetryInv, Over, answer' = [is |-> "partial", request |-> publisher.request],
           publisher.at \notin {"idle", "topology", "experiment", "superseded"},
           UNCHANGED <<work, documents, topology, alone>>,
           alone => experiment' = experiment \/ TakesExperiment(publisher.request, Meta, experiment')
    PROVE  RetryInv'
<1>1. publisher'.at = "idle" /\ answer'.request = publisher.request
    BY IdleIs DEF Over
<1>2. alone =>
        LET q == publisher.request
            w == work[q.draft]
        IN  w.rev = q.rev /\ TakesTopology(q, w, topology, documents) /\ TakesExperiment(q, w, experiment')
    BY DEF RetryInv
<1>. QED BY <1>1, <1>2 DEF RetryInv

\* ... or goes on beyond preflight.
LEMMA RetryGoes ==
    ASSUME RetryInv, publisher.at \notin {"idle", "topology", "experiment", "superseded"},
           publisher'.at \notin {"idle", "topology", "experiment", "superseded"},
           publisher'.request = publisher.request, publisher'.meta = publisher.meta,
           UNCHANGED <<work, alone>>,
           alone => TakesTopology(publisher.request, Meta, topology', documents'),
           alone => TakesExperiment(publisher.request, Meta, experiment'),
           alone /\ publisher'.at \in {"update", "configure", "restore"} =>
                TakesExperiment(publisher.request, Meta, publisher'.spec)
    PROVE  RetryInv'
BY DEF RetryInv, Meta

\* Nobody is concerned.
LEMMA RetryStays ==
    ASSUME RetryInv, UNCHANGED <<publisher, answer, work, topology, experiment, alone>>,
           topology # Nothing => documents'[topology.ref] # Nothing /\ documents'[topology.ref].draft = documents[topology.ref].draft
    PROVE  RetryInv'
<1>1. \A q, m : TakesTopology(q, m, topology, documents) => TakesTopology(q, m, topology, documents')
    BY TopologyKept
<1>. QED BY <1>1 DEF RetryInv, Meta, Repeats

RetryStep == (answer.is = "partial" /\ alone' /\ answer'.is = "refused") => answer'.request # answer.request

LEMMA RetryPublishDraft ==
    ASSUME PublicationInv, RetryInv, NEW q \in Requests, PublishDraft(q)
    PROVE  RetryInv' /\ RetryStep
<1>1. /\ publisher.at = "idle" /\ alone' = (answer.request = q => alone)
      /\ UNCHANGED <<work, documents, topology, experiment>>
    BY DEF PublishDraft, At
<1>2. CASE work[q.draft].rev = q.rev
    <2> DEFINE p == [at |-> "topology", request |-> q, meta |-> work[q.draft], applied |-> FALSE, done |-> FALSE, spec |-> Nothing]
    <2>1. publisher' = p /\ answer' = answer
        BY <1>2 DEF PublishDraft
    <2>2. p.at = "topology" /\ p.request = q /\ p.meta = work[q.draft]
        OBVIOUS
    <2> HIDE DEF p
    <2>3. publisher'.at = "topology" /\ publisher'.request = q /\ publisher'.meta = work[q.draft]
        BY <2>1, <2>2
    <2>4. Repeats(q) /\ alone' =>
            TakesTopology(q, work[q.draft], topology, documents) /\ TakesExperiment(q, work[q.draft], experiment)
        BY <1>1, <1>2 DEF RetryInv, Repeats, Finished
    <2>5. RetryInv'
        BY <1>1, <1>2, <2>1, <2>3, <2>4 DEF RetryInv, Meta, Repeats
    <2>. QED BY <2>1, <2>5 DEF RetryStep
<1>3. CASE work[q.draft].rev # q.rev
    <2> DEFINE a == [is |-> IF PublishRetry(q) THEN "succeeded" ELSE "refused", request |-> q]
    <2>1. answer' = a /\ publisher' = publisher
        BY <1>3 DEF PublishDraft
    <2>2. a.is \in {"succeeded", "refused"} /\ a.request = q /\ (a.is = "refused" => ~PublishRetry(q))
        OBVIOUS
    <2> HIDE DEF a
    <2>3. RetryInv'
        BY <1>1, <2>1, <2>2 DEF RetryInv
    <2>4. RetryStep
        BY <1>1, <1>3, <2>1, <2>2 DEF RetryStep, RetryInv, Finished, PublishRetry
    <2>. QED BY <2>3, <2>4
<1>. QED BY <1>2, <1>3

\* A refusal of preflight.
LEMMA Refuses ==
    ASSUME Answers("refused")
    PROVE  publisher'.at = "idle" /\ answer'.is = "refused" /\ answer'.request = publisher.request
BY IdleIs DEF Answers

LEMMA RetryPreflight ==
    ASSUME PublicationInv, RetryInv, PreflightTopology \/ PreflightExperiment
    PROVE  RetryInv' /\ RetryStep
<1>1. UNCHANGED <<work, documents, topology, experiment, alone>> /\ publisher.at \in {"topology", "experiment"}
    BY DEF PreflightTopology, PreflightExperiment, At
<1>2. CASE Answers("refused") /\ ((PreflightTopology /\ ~TopologyAllowed) \/ (PreflightExperiment /\ ~ExperimentAllowed))
    <2>1. alone => ~Repeats(publisher.request)
        BY <1>1, <1>2, Allows DEF RetryInv
    <2>2. RetryInv'
        BY <1>2, Refuses DEF RetryInv
    <2>3. RetryStep
        BY <1>1, <1>2, <2>1, Refuses DEF RetryStep, Repeats
    <2>. QED BY <2>2, <2>3
<1>3. CASE PreflightTopology /\ TopologyAllowed
    <2>1. answer' = answer /\ publisher.at = "topology"
          /\ publisher' = [publisher EXCEPT !.at = "experiment", !.applied = TopologyApplied]
        BY <1>3 DEF PreflightTopology, At
    <2>2. publisher \in Publishing /\ TopologyApplied \in BOOLEAN
        BY <2>1, DocIs DEF PublicationInv, TopologyApplied
    <2>3. GoesOn("experiment")
        BY <2>1, <2>2, LearnsApplied
    <2>4. TakesTopology(publisher.request, Meta, topology, documents)
        BY <1>3, <2>1, Allows
    <2>. QED BY <1>1, <2>1, <2>3, <2>4 DEF GoesOn, RetryInv, RetryStep, Repeats, Meta
<1>4. CASE PreflightExperiment /\ ExperimentAllowed
    <2>1. answer' = answer /\ publisher.at = "experiment"
          /\ publisher' = [publisher EXCEPT !.at = "document",
                                !.done = publisher.request.experiment = "none" \/ ExperimentApplied]
        BY <1>4 DEF PreflightExperiment, At
    <2>2. publisher \in Publishing /\ (publisher.request.experiment = "none" \/ ExperimentApplied) \in BOOLEAN
        BY <2>1, DocIs DEF PublicationInv
    <2>3. GoesOn("document")
        BY <2>1, <2>2, LearnsDone
    <2>4. TakesExperiment(publisher.request, Meta, experiment)
        BY <1>4, <2>1, Allows
    <2>. QED BY <1>1, <2>1, <2>3, <2>4 DEF GoesOn, RetryInv, RetryStep, Meta
<1>. QED BY <1>2, <1>3, <1>4 DEF PreflightTopology, PreflightExperiment

\* The answer of a publication that ends part way.
LEMMA Partial ==
    ASSUME Answers("partial")
    PROVE  Over /\ answer' = [is |-> "partial", request |-> publisher.request] /\ answer'.is = "partial"
BY DEF Answers, Over

\* What a request of another kind or of preflight needs does not go.
LEMMA Taken ==
    ASSUME RetryInv, alone, publisher.at \notin {"idle", "topology", "experiment", "superseded"}
    PROVE  /\ TakesTopology(publisher.request, Meta, topology, documents)
           /\ TakesExperiment(publisher.request, Meta, experiment)
BY DEF RetryInv

LEMMA RetryDocuments ==
    ASSUME PublicationInv, RetryInv, PutPublishedDocument \/ PublishTopology \/ WriteRefused \/ PublishScenario
    PROVE  RetryInv' /\ RetryStep
<1>1. CASE PutPublishedDocument
    <2> DEFINE r == [rev |-> budget.publishes,
                     draft |-> IF documents[Doc] # Nothing THEN documents[Doc].draft ELSE publisher.request.draft,
                     young |-> TRUE, since |-> TRUE]
    <2>1. UNCHANGED <<work, topology, experiment, answer, alone>> /\ publisher.at = "document"
          /\ documents' = [documents EXCEPT ![Doc] = r] /\ publisher' = [publisher EXCEPT !.at = "write"]
        BY <1>1 DEF PutPublishedDocument, At
    <2>2. GoesOn("write") /\ Doc \in Documents
        BY <2>1, GoesOnIs, DocIs DEF PublicationInv, AfterIdle, Stages
    <2>3. documents[Doc] # Nothing => r.draft = documents[Doc].draft
        OBVIOUS
    <2>4. r # Nothing
        <3>1. budget.publishes \in Nat /\ publisher.request.draft \in PublishDrafts
            BY <2>1, DocIs DEF PublicationInv, Acting
        <3>2. documents[Doc] # Nothing => documents[Doc].draft \in PublishDrafts
            BY <2>2 DEF PublicationInv, Stored, StoredDocument
        <3>3. r \in StoredDocument
            BY <3>1, <3>2 DEF StoredDocument
        <3> HIDE DEF r
        <3>. QED BY <3>3, NothingDistinct
    <2> HIDE DEF r
    <2>5. topology # Nothing => documents'[topology.ref] # Nothing /\ documents'[topology.ref].draft = documents[topology.ref].draft
        <3>1. topology # Nothing => topology.ref \in Documents /\ documents[topology.ref] # Nothing
            BY DEF PublicationInv, Stored, StoredTopology, DocumentsSafe, Safe
        <3>. QED BY <2>1, <2>2, <2>3, <2>4, <3>1 DEF PublicationInv, Stored
    <2>6. alone => TakesTopology(publisher.request, Meta, topology', documents')
        BY <2>1, <2>5, Taken, TopologyKept
    <2>. QED BY <2>1, <2>2, <2>6, Taken, RetryGoes DEF GoesOn, RetryStep
<1>2. CASE PublishTopology
    <2>1. UNCHANGED <<work, experiment, answer, alone>> /\ publisher.at = "write" /\ publisher' = [publisher EXCEPT !.at = "scenario"]
        BY <1>2 DEF PublishTopology, At
    <2>2. GoesOn("scenario")
        BY <2>1, GoesOnIs DEF PublicationInv, AfterIdle, Stages
    <2>3. CASE UNCHANGED <<topology, documents>>
        BY <2>1, <2>2, <2>3, Taken, RetryGoes DEF GoesOn, RetryStep
    <2>4. CASE topology' = [ref |-> Doc, spec |-> Doc]
        <3>1. topology' # Nothing /\ topology'.ref = Meta.doc
            <4>1. Doc \in Documents
                BY <2>1, DocIs DEF PublicationInv
            <4>2. topology' \in StoredTopology
                BY <2>4, <4>1 DEF StoredTopology, Specs
            <4>. QED BY <2>4, <4>2, NothingDistinct DEF Doc, Meta
        <3>2. TakesTopology(publisher.request, Meta, topology', documents')
            BY <3>1 DEF TakesTopology
        <3>. QED BY <2>1, <2>2, <3>2, Taken, RetryGoes DEF GoesOn, RetryStep
    <2>. QED BY <1>2, <2>3, <2>4 DEF PublishTopology
<1>3. CASE WriteRefused
    BY <1>3, Partial, RetryEnds DEF WriteRefused, At, RetryStep
<1>4. CASE PublishScenario
    <2>1. UNCHANGED <<work, topology, documents, experiment, answer, alone>> /\ publisher.at = "scenario"
        BY <1>4 DEF PublishScenario, At
    <2>2. PICK label \in {"mark", "lock"} : publisher' = [publisher EXCEPT !.at = label]
        BY <1>4 DEF PublishScenario
    <2>3. GoesOn(label)
        BY <2>1, <2>2, GoesOnIs DEF PublicationInv, AfterIdle, Stages
    <2>. QED BY <2>1, <2>3, Taken, RetryGoes DEF GoesOn, RetryStep
<1>. QED BY <1>1, <1>2, <1>3, <1>4

LEMMA RetryLocks ==
    ASSUME PublicationInv, RetryInv, LockExperiment \/ RereadExperiment
    PROVE  RetryInv' /\ RetryStep
<1>1. UNCHANGED <<work, topology, documents, experiment, alone>> /\ publisher.at \in {"lock", "reread"}
    BY DEF LockExperiment, RereadExperiment, At
<1>2. CASE Answers("partial")
    BY <1>1, <1>2, Partial, RetryEnds DEF RetryStep
<1>3. CASE publisher' = [publisher EXCEPT !.at = "reread"] /\ answer' = answer
    <2>1. GoesOn("reread")
        BY <1>1, <1>3, GoesOnIs DEF PublicationInv, AfterIdle, Stages
    <2>. QED BY <1>1, <1>3, <2>1, Taken, RetryGoes DEF GoesOn, RetryStep
<1>4. CASE publisher' = [publisher EXCEPT !.at = "update", !.spec = experiment] /\ answer' = answer
    <2>1. publisher \in Publishing
        BY <1>1, DocIs DEF PublicationInv
    <2>2. publisher'.at = "update" /\ publisher'.spec = experiment
          /\ publisher'.request = publisher.request /\ publisher'.meta = publisher.meta
        BY <1>4, <2>1 DEF Publishing
    <2>. QED BY <1>1, <1>4, <2>2, Taken, RetryGoes DEF RetryStep
<1>. QED BY <1>2, <1>3, <1>4 DEF LockExperiment, RereadExperiment

LEMMA RetryWrites ==
    ASSUME PublicationInv, RetryInv, WriteExperiment \/ ReconfigureExperiment \/ ConfigureFails \/ RestoreExperiment
    PROVE  RetryInv' /\ RetryStep
<1>1. UNCHANGED <<work, topology, documents, alone>> /\ publisher.at \in {"update", "configure", "restore"}
    BY DEF WriteExperiment, ReconfigureExperiment, ConfigureFails, RestoreExperiment, At
<1>2. alone => TakesExperiment(publisher.request, Meta, publisher.spec)
    BY <1>1 DEF RetryInv
<1>3. publisher \in Publishing /\ Doc \in Specs /\ Doc = Meta.doc
    BY <1>1, DocIs DEF PublicationInv, Specs, Doc, Meta
<1>4. CASE WriteExperiment
    <2>1. answer' = answer /\ publisher.at = "update"
        BY <1>4 DEF WriteExperiment, At
    <2>2. PICK label \in {"record", "configure"} : publisher' = [publisher EXCEPT !.at = label]
        BY <1>4 DEF WriteExperiment
    <2>3. GoesOn(label) /\ publisher'.spec = publisher.spec
        BY <2>1, <2>2, GoesOnIs DEF PublicationInv, AfterIdle, Stages
    <2>4. experiment' \in StoredExperiment /\ experiment'.spec = Doc
        <3>1. CASE publisher.request.experiment = "create"
            <4>1. experiment' = [spec |-> Doc, running |-> FALSE, configured |-> TRUE, record |-> Nothing]
                BY <1>4, <3>1 DEF WriteExperiment
            <4>2. experiment' \in StoredExperiment
                BY <1>3, <4>1 DEF StoredExperiment
            <4>. QED BY <4>1, <4>2
        <3>2. CASE publisher.request.experiment # "create"
            <4>1. publisher.spec \in StoredExperiment /\ experiment' = [publisher.spec EXCEPT !.spec = Doc, !.configured = FALSE]
                BY <1>4, <2>1, <3>2 DEF WriteExperiment, PublicationInv, Prepared
            <4>. QED BY <1>3, <4>1 DEF StoredExperiment
        <3>. QED BY <3>1, <3>2
    <2>5. TakesExperiment(publisher.request, Meta, experiment')
        BY <1>3, <2>4, NothingDistinct DEF TakesExperiment
    <2>. QED BY <1>1, <1>2, <2>1, <2>3, <2>5, Taken, RetryGoes DEF GoesOn, RetryStep
<1>5. CASE ReconfigureExperiment
    <2>1. /\ answer' = answer /\ experiment \in StoredExperiment
          /\ publisher' = [publisher EXCEPT !.at = "record"] /\ experiment' = [experiment EXCEPT !.configured = TRUE]
        BY <1>5 DEF ReconfigureExperiment, PublicationInv, Stored, MaybeExperiment
    <2>2. GoesOn("record")
        BY <1>1, <2>1, GoesOnIs DEF PublicationInv, AfterIdle, Stages
    <2>3. experiment' \in StoredExperiment /\ experiment'.spec = experiment.spec
          /\ experiment'.record = experiment.record /\ experiment'.running = experiment.running
        BY <2>1 DEF StoredExperiment
    <2>4. alone => TakesExperiment(publisher.request, Meta, experiment')
        BY <1>1, <2>1, <2>3, Taken, ExperimentKept
    <2>. QED BY <1>1, <2>1, <2>2, <2>4, Taken, RetryGoes DEF GoesOn, RetryStep
<1>6. CASE ConfigureFails
    <2>1. answer' = answer /\ experiment' = experiment /\ publisher' = [publisher EXCEPT !.at = "restore"]
        BY <1>6 DEF ConfigureFails
    <2>2. GoesOn("restore") /\ publisher'.spec = publisher.spec
        BY <1>1, <2>1, GoesOnIs DEF PublicationInv, AfterIdle, Stages
    <2>. QED BY <1>1, <1>2, <2>1, <2>2, Taken, RetryGoes DEF GoesOn, RetryStep
<1>7. CASE RestoreExperiment
    <2>1. publisher.spec \in StoredExperiment /\ experiment \in StoredExperiment /\ ~experiment.running
        BY <1>7 DEF RestoreExperiment, At, PublicationInv, Prepared, Stored, MaybeExperiment
    <2>2. Answers("partial") /\ experiment' = [publisher.spec EXCEPT !.running = experiment.running]
        BY <1>7, <2>1, NothingDistinct DEF RestoreExperiment
    <2>3. experiment.running \in BOOLEAN
        BY <2>1 DEF StoredExperiment
    <2>4. experiment' \in StoredExperiment /\ experiment'.spec = publisher.spec.spec
          /\ experiment'.record = publisher.spec.record /\ experiment'.running = experiment.running
        BY <2>1, <2>2, <2>3 DEF StoredExperiment
    <2>5. alone => TakesExperiment(publisher.request, Meta, experiment')
        BY <1>2, <2>1, <2>4, ExperimentKept
    <2>. QED BY <1>1, <2>2, <2>5, Partial, RetryEnds DEF RetryStep
<1>. QED BY <1>4, <1>5, <1>6, <1>7

LEMMA RetryRecords ==
    ASSUME PublicationInv, RetryInv, RecordPublication
    PROVE  RetryInv' /\ RetryStep
<1> DEFINE r == [draft |-> publisher.request.draft, doc |-> Doc, spec |-> experiment.spec]
<1>1. UNCHANGED <<work, topology, documents, answer, alone>> /\ publisher.at = "record"
      /\ publisher' = [publisher EXCEPT !.at = "mark"]
    BY DEF RecordPublication, At
<1>2. GoesOn("mark")
    BY <1>1, GoesOnIs DEF PublicationInv, AfterIdle, Stages
<1>3. CASE experiment' = experiment
    BY <1>1, <1>2, <1>3, Taken, RetryGoes DEF GoesOn, RetryStep
<1>4. CASE experiment # Nothing /\ experiment' = [experiment EXCEPT !.record = r]
    <2>1. experiment \in StoredExperiment /\ r.draft = publisher.request.draft /\ r.spec = experiment.spec
        BY <1>4 DEF PublicationInv, Stored, MaybeExperiment
    <2>2. r \in PublicationRecord
        <3>1. experiment.spec \in Specs
            BY <2>1 DEF StoredExperiment
        <3>. QED BY <1>1, <3>1, DocIs DEF PublicationInv, PublicationRecord
    <2> HIDE DEF r
    <2>3. experiment' \in StoredExperiment
        BY <1>4, <2>1, <2>2 DEF StoredExperiment
    <2>4. experiment'.spec = experiment.spec /\ experiment'.running = experiment.running /\ experiment'.record = r
        BY <1>4, <2>1 DEF StoredExperiment
    <2>5. alone => TakesExperiment(publisher.request, Meta, experiment')
        BY <1>1, <1>4, <2>1, <2>2, <2>3, <2>4, Taken, NothingDistinct DEF TakesExperiment
    <2>. QED BY <1>1, <1>2, <2>5, Taken, RetryGoes DEF GoesOn, RetryStep
<1>. QED BY <1>3, <1>4 DEF RecordPublication

LEMMA RetryMarks ==
    ASSUME PublicationInv, RetryInv, MarkPublished
    PROVE  RetryInv' /\ RetryStep
<1> DEFINE b == publisher.request.draft
           w == work[b]
           x == [doc |-> Doc, request |-> publisher.request, snap |-> w.snap]
           marked == [w EXCEPT !.rev = w.rev + 1, !.last = x]
<1>1. UNCHANGED <<topology, documents, experiment, alone>> /\ publisher.at = "mark"
    BY DEF MarkPublished, At
<1>2. CASE Answers("partial") /\ work' = work
    BY <1>1, <1>2, Partial, RetryEnds DEF RetryStep
<1>3. CASE w.rev = Meta.rev
    <2>1. work' = [work EXCEPT ![b] = marked] /\ publisher' = [publisher EXCEPT !.at = "superseded"] /\ answer' = answer
        <3>1. work' = [work EXCEPT ![b] = marked]
            BY <1>3, Zenon DEF MarkPublished
        <3>2. publisher' = [publisher EXCEPT !.at = "superseded"] /\ answer' = answer
            BY <1>3 DEF MarkPublished
        <3>. QED BY <3>1, <3>2
    <2>2. GoesOn("superseded")
        BY <1>1, <2>1, GoesOnIs DEF PublicationInv, AfterIdle, Stages
    <2>3. w \in Draft /\ b \in PublishDrafts /\ Doc \in Documents /\ publisher.request \in Requests
        BY <1>1, DocIs DEF PublicationInv, Stored
    <2>4. w.rev \in Nat /\ w.snap \in Nat
        BY <2>3 DEF Draft
    <2>5. x \in PublishedTo /\ x # Nothing
        <3>1. publisher.request \in Requests /\ Doc \in Documents /\ w.snap \in Nat
            BY <2>3, <2>4
        <3>2. x \in PublishedTo
            BY <3>1 DEF PublishedTo
        <3> HIDE DEF x
        <3>. QED BY <3>2, NothingDistinct
    <2>6. x.request = publisher.request /\ x.snap = w.snap
        OBVIOUS
    <2> HIDE DEF x, w
    <2>7. marked.rev = w.rev + 1 /\ marked.last = x /\ marked.snap = w.snap
        BY <2>3 DEF Draft
    <2> HIDE DEF marked
    <2>8. work'[b] = marked
        BY <2>1, <2>3 DEF PublicationInv, Stored
    <2>9. alone => w.rev = publisher.request.rev
        BY <1>1, <1>3 DEF RetryInv
    <2>10. alone => (Finished(publisher.request, work'[b]))
        BY <2>4, <2>5, <2>6, <2>7, <2>8, <2>9 DEF Finished
    <2>. QED BY <1>1, <2>1, <2>2, <2>10 DEF GoesOn, RetryInv, RetryStep, b
<1>. QED BY <1>2, <1>3 DEF MarkPublished

LEMMA RetryOver ==
    ASSUME PublicationInv, RetryInv, DeleteSuperseded \/ StageFails \/ PublishCrash
    PROVE  RetryInv' /\ RetryStep
<1>1. CASE DeleteSuperseded
    <2>1. publisher'.at = "idle" /\ answer'.is = "succeeded"
        BY <1>1, IdleIs DEF DeleteSuperseded, Answers
    <2>. QED BY <2>1 DEF RetryInv, RetryStep
<1>2. CASE StageFails
    <2>1. UNCHANGED <<work, topology, documents, experiment, alone>> /\ Answers("partial")
          /\ publisher.at \notin {"idle", "topology", "experiment", "superseded"}
        BY <1>2 DEF StageFails
    <2>. QED BY <2>1, Partial, RetryEnds DEF RetryStep
<1>3. CASE PublishCrash
    <2>1. UNCHANGED <<work, topology, documents, experiment, alone>> /\ Over /\ publisher'.at = "idle"
        BY <1>3, IdleIs DEF PublishCrash, Over
    <2>2. CASE publisher.at = "idle"
        <3>1. answer' = answer
            BY <1>3, <2>2 DEF PublishCrash, At
        <3>. QED BY <2>1, <2>2, <3>1 DEF RetryInv, RetryStep
    <2>3. CASE publisher.at \in {"topology", "experiment"}
        <3>1. answer'.is = "none"
            BY <1>3, <2>3 DEF PublishCrash, At, NoAnswer
        <3>. QED BY <2>1, <3>1 DEF RetryInv, RetryStep
    <2>4. CASE publisher.at \notin {"idle", "topology", "experiment"}
        <3>1. answer' = [is |-> "partial", request |-> publisher.request]
            BY <1>3, <2>4 DEF PublishCrash, At
        <3>2. CASE publisher.at = "superseded"
            BY <2>1, <3>1, <3>2 DEF RetryInv, RetryStep
        <3>3. CASE publisher.at # "superseded"
            BY <2>1, <2>4, <3>1, <3>3, RetryEnds DEF RetryStep
        <3>. QED BY <3>2, <3>3
    <2>. QED BY <2>2, <2>3, <2>4
<1>. QED BY <1>1, <1>2, <1>3

\* What others do ends what a retry may rely on, but for the sweep, which
\* leaves the document of the topology and its publisher alone.
LEMMA RetryOthers ==
    ASSUME PublicationInv, RetryInv,
           \/ \E b \in PublishDrafts, d \in Documents : SaveDraft(b, d)
           \/ EditTopology \/ DeleteTopology \/ HookRemoves \/ StartedStopped \/ EditExperiment
           \/ \E v \in {"start", "stop"} : StartStop(v)
    PROVE  RetryInv' /\ RetryStep
<1>1. alone' = FALSE
    BY DEF SaveDraft, EditTopology, DeleteTopology, HookRemoves, StartStop, StartedStopped, EditExperiment, Other
<1>. QED BY <1>1 DEF RetryInv, RetryStep

LEMMA RetrySweeps ==
    ASSUME PublicationInv, RetryInv,
           SweepLive \/ SweepListsOrphans \/ SweepOrphans \/ \E d \in Documents : DocumentAges(d)
    PROVE  RetryInv' /\ RetryStep
<1>1. UNCHANGED <<publisher, answer, work, topology, experiment, alone>>
    BY DEF SweepLive, SweepListsOrphans, SweepOrphans, DocumentAges
<1>2. topology # Nothing =>
        topology.ref \in Documents /\ documents[topology.ref] # Nothing
        /\ <<topology.ref, documents[topology.ref].rev>> \notin orphans.listed
    BY DEF PublicationInv, Stored, StoredTopology, DocumentsSafe, Safe
<1>3. topology # Nothing => documents'[topology.ref] # Nothing /\ documents'[topology.ref].draft = documents[topology.ref].draft
    <2>1. CASE SweepLive \/ SweepListsOrphans
        BY <1>2, <2>1 DEF SweepLive, SweepListsOrphans
    <2>2. CASE SweepOrphans
        BY <1>2, <2>2, RemovedIs DEF SweepOrphans, PublicationInv
    <2>3. ASSUME NEW d \in Documents, DocumentAges(d)
          PROVE  topology # Nothing =>
                    documents'[topology.ref] # Nothing /\ documents'[topology.ref].draft = documents[topology.ref].draft
        <3> DEFINE aged == [documents[d] EXCEPT !.young = FALSE]
        <3>1. documents' = [documents EXCEPT ![d] = aged] /\ documents[d] # Nothing
            BY <2>3 DEF DocumentAges
        <3>2. aged \in StoredDocument /\ aged.draft = documents[d].draft
            BY <3>1 DEF PublicationInv, Stored, StoredDocument
        <3> HIDE DEF aged
        <3>. QED BY <1>2, <3>1, <3>2, NothingDistinct DEF PublicationInv, Stored
    <2>. QED BY <2>1, <2>2, <2>3
<1>. QED BY <1>1, <1>3, RetryStays DEF RetryStep

LEMMA RetryInitInv == PublicationInit => RetryInv
BY IdleIs DEF PublicationInit, RetryInv, NoAnswer

LEMMA RetryNextInv == PublicationInv /\ RetryInv /\ [PublicationNext]_publishVars => RetryInv' /\ [RetryStep]_publishVars
<1>. SUFFICES ASSUME PublicationInv, RetryInv, [PublicationNext]_publishVars PROVE RetryInv' /\ [RetryStep]_publishVars
    OBVIOUS
<1>1. ASSUME NEW b \in PublishDrafts, NEW t \in Actions, NEW e \in Actions \cup {"none"},
             PublishDraft([draft |-> b, rev |-> work[b].rev, topology |-> t, experiment |-> e])
      PROVE  RetryInv' /\ RetryStep
    BY <1>1, RequestsAre, RetryPublishDraft
<1>2. CASE answer.is # "none" /\ PublishDraft(answer.request)
    BY <1>2, RequestsAre, RetryPublishDraft
<1>3. CASE PublishStage
    BY <1>3, RetryPreflight, RetryDocuments, RetryLocks, RetryWrites, RetryRecords, RetryMarks, RetryOver DEF PublishStage
<1>4. CASE ConfigureFails \/ StageFails \/ PublishCrash
    BY <1>4, RetryWrites, RetryOver
<1>5. CASE \/ \E b \in PublishDrafts, d \in Documents : SaveDraft(b, d)
           \/ EditTopology \/ DeleteTopology \/ HookRemoves \/ StartedStopped \/ EditExperiment
           \/ \E v \in {"start", "stop"} : StartStop(v)
    BY <1>5, RetryOthers
<1>6. CASE SweepLive \/ SweepListsOrphans \/ SweepOrphans \/ \E d \in Documents : DocumentAges(d)
    BY <1>6, RetrySweeps
<1>7. CASE UNCHANGED publishVars
    <2>1. UNCHANGED <<work, documents, topology, scenario, experiment, expLock, publisher, answer, alone, orphans, hook, budget>>
        BY <1>7 DEF publishVars
    <2>2. topology # Nothing => documents[topology.ref] # Nothing
        BY DEF PublicationInv, DocumentsSafe, Safe
    <2>3. RetryInv'
        BY <2>1, <2>2, RetryStays
    <2>. QED BY <1>7, <2>3
<1>. QED BY <1>1, <1>2, <1>3, <1>4, <1>5, <1>6, <1>7 DEF PublicationNext

\* A request that did not finish and is sent again is not refused, unless
\* somebody else acted in between (topologyPublicationApplied,
\* experimentAlreadyApplied, restoreExperiment): what it had written is found
\* to be applied, and what it had not is as it was.
THEOREM RetriesFinish == PublicationSpec => RetryNotRefused
<1>1. PublicationInv /\ RetryInv /\ [PublicationNext]_publishVars =>
        [(answer.is = "partial" /\ alone' /\ answer'.is = "refused") => answer'.request # answer.request]_publishVars
    BY RetryNextInv DEF RetryStep
<1>2. PublicationInv /\ RetryInv /\ [PublicationNext]_publishVars => PublicationInv' /\ RetryInv'
    BY PublicationStepInv, RetryNextInv
<1>. QED BY <1>1, <1>2, PublicationInitInv, RetryInitInv, PTL DEF PublicationSpec, RetryNotRefused

----------------------------------------------------------------------------
(* Induction over a set of numbers, from the order on them.                *)

LessThan == {p \in Nat \X Nat : p[1] < p[2]}

LEMMA LeastNumber ==
    ASSUME NEW T, T \subseteq Nat, T # {}
    PROVE  \E x \in T : \A y \in T : x <= y
<1>1. IsWellFoundedOn(LessThan, Nat)
    BY NatLessThanWellFounded, Zenon DEF OpToRel, LessThan
<1>2. PICK x \in T : \A y \in T : ~(<<y, x>> \in LessThan)
    BY <1>1, WFMin, Zenon
<1>3. \A y \in T : ~(y < x)
    BY <1>2 DEF LessThan
<1>. QED BY <1>3

LEMMA NumbersInduct ==
    ASSUME NEW S, 0 \in S, \A i \in Nat : i \in S => i + 1 \in S
    PROVE  Nat \subseteq S
<1>. SUFFICES ASSUME Nat \ S # {} PROVE FALSE
    OBVIOUS
<1>1. PICK x \in Nat \ S : \A y \in Nat \ S : x <= y
    BY LeastNumber
<1>2. x # 0 /\ x - 1 \in Nat /\ x - 1 \notin Nat \ S
    BY <1>1
<1>. QED BY <1>1, <1>2

----------------------------------------------------------------------------
(* The icons. An alias is one hop from its icon and the icon lists it, and *)
(* what an icon lists are its aliases. So a rename, which changes what its *)
(* icon lists, and a delete, which removes what it found to lead there,    *)
(* leave no alias behind if the icon is as they read it.                   *)

IconsTyped ==
    /\ icons = [n \in IconNames |-> icons[n]]
    /\ \A n \in IconNames : icons[n] \in IconRecords \cup AliasRecords \cup {NoIcon}
    /\ \A n \in IconNames : icons[n] # NoIcon => icons[n].rev <= iconRev
    /\ \A n \in IconNames : IsIcon(icons[n]) => icons[n].id <= iconRev
    /\ iconRev \in Nat
    /\ iconOp = [u \in IconUsers |-> iconOp[u]]

IdsApart ==
    \A n, m \in IconNames : IsIcon(icons[n]) /\ IsIcon(icons[m]) /\ icons[n].id = icons[m].id => n = m

ListedLead ==
    \A n \in IconNames : IsIcon(icons[n]) =>
        \A a \in icons[n].aliases : IsAlias(icons[a]) /\ icons[a].target = n

\* What requests have read of their icon, and of the name that a rename takes.
ReadIcon(o) == o.home \in IconNames /\ o.icon \in IconRecords /\ o.icon.rev <= iconRev
RequestsRead ==
    \A u \in IconUsers :
        /\ iconOp[u].is \in {"none", "add", "rename", "move", "delete", "remove"}
        /\ iconOp[u].is = "add" => iconOp[u].name \in IconNames /\ iconOp[u].server \in BOOLEAN
        /\ iconOp[u].is \in {"rename", "move", "delete", "remove"} => ReadIcon(iconOp[u])
        /\ iconOp[u].is \in {"rename", "move"} => iconOp[u].new \in IconNames /\ iconOp[u].new # iconOp[u].home
        /\ iconOp[u].is = "move" =>
            \/ iconOp[u].taken = NoIcon
            \/ IsAlias(iconOp[u].taken) /\ iconOp[u].taken.target = iconOp[u].home

\* A delete removes aliases of its icon only, and all of them if the icon is
\* as it was.
RemovesAliases ==
    \A u \in IconUsers : iconOp[u].is = "remove" =>
        /\ \A p \in iconOp[u].records :
            /\ p[1] \in IconNames /\ p[2] \in 0 .. iconRev
            /\ icons[p[1]] # NoIcon /\ icons[p[1]].rev = p[2] =>
                IsAlias(icons[p[1]]) /\ icons[p[1]].target = iconOp[u].home
        /\ icons[iconOp[u].home] = iconOp[u].icon =>
            \A a \in iconOp[u].icon.aliases : <<a, icons[a].rev>> \in iconOp[u].records

IconsInv == IconsTyped /\ AliasesOneHop /\ IdsApart /\ ListedLead /\ RequestsRead /\ RemovesAliases

LEMMA IconFields ==
    /\ \A r \in IconRecords : IsIcon(r) /\ ~IsAlias(r) /\ r # NoIcon /\ r.rev \in Nat /\ r.id \in Nat /\ r.aliases \subseteq IconNames
    /\ \A r \in AliasRecords : IsAlias(r) /\ ~IsIcon(r) /\ r # NoIcon /\ r.rev \in Nat /\ r.target \in IconNames
    /\ ~IsIcon(NoIcon) /\ ~IsAlias(NoIcon)
BY IconsAssumption DEF IconRecords, AliasRecords, IsIcon, IsAlias

LEMMA IconOrAlias ==
    ASSUME NEW r \in IconRecords \cup AliasRecords \cup {NoIcon}
    PROVE  /\ IsIcon(r) <=> r \in IconRecords
           /\ IsAlias(r) <=> r \in AliasRecords
           /\ r # NoIcon <=> IsIcon(r) \/ IsAlias(r)
BY IconFields

\* Where a name leads.
Home(n) == IF IsAlias(icons[n]) THEN icons[n].target ELSE n

LEMMA HopsEnd ==
    ASSUME AliasesOneHop, NEW n \in IconNames, IsAlias(icons[n]), NEW hop,
           hop = [k \in 0 .. MaxAliases + 1 |->
                    IF k = 0 THEN n
                    ELSE IF IsAlias(icons[hop[k - 1]]) THEN icons[hop[k - 1]].target ELSE hop[k - 1]],
           NEW t, t = icons[n].target
    PROVE  hop[MaxAliases + 1] = t
<1>1. ~IsAlias(icons[t])
    BY DEF AliasesOneHop, IsAlias, IsIcon
<1>2. hop[0] = n /\ \A k \in 1 .. MaxAliases + 1 :
        hop[k] = IF IsAlias(icons[hop[k - 1]]) THEN icons[hop[k - 1]].target ELSE hop[k - 1]
    BY IconsAssumption
<1>. DEFINE S == {k \in Nat : k <= MaxAliases => hop[k + 1] = t}
<1>3. 0 \in S
    BY <1>2, IconsAssumption
<1>4. ASSUME NEW i \in Nat, i \in S
      PROVE  i + 1 \in S
  <2>1. CASE i + 1 <= MaxAliases
    <3>1. hop[i + 1] = t
        BY <1>4, <2>1, IconsAssumption
    <3>2. i + 2 \in 1 .. MaxAliases + 1 /\ (i + 2) - 1 = i + 1 /\ (i + 1) + 1 = i + 2
        BY <2>1, IconsAssumption
    <3>3. hop[i + 2] = t
        BY <1>1, <1>2, <3>1, <3>2
    <3>. QED BY <3>2, <3>3
  <2>. QED BY <2>1, IconsAssumption
<1>5. Nat \subseteq S
  <2>. HIDE DEF S
  <2>. QED BY <1>3, <1>4, NumbersInduct
<1>. QED BY <1>5, IconsAssumption

LEMMA LeadsHome ==
    ASSUME AliasesOneHop, NEW n \in IconNames
    PROVE  Leads(n) = Home(n)
<1>1. CASE ~IsAlias(icons[n])
    BY <1>1 DEF Leads, Home
<1>2. CASE IsAlias(icons[n])
  <2>. DEFINE Is(h) == h = [k \in 0 .. MaxAliases + 1 |->
                    IF k = 0 THEN n
                    ELSE IF IsAlias(icons[h[k - 1]]) THEN icons[h[k - 1]].target ELSE h[k - 1]]
  <2>1. PICK t : t = icons[n].target
      OBVIOUS
  <2>2. ~IsAlias(icons[t])
      BY <1>2, <2>1 DEF AliasesOneHop, IsAlias, IsIcon
  <2>3. PICK w : w = [k \in 0 .. MaxAliases + 1 |-> IF k = 0 THEN n ELSE t]
      OBVIOUS
  <2>4. Is(w)
      BY <1>2, <2>1, <2>2, <2>3, IconsAssumption
  <2>5. PICK hop : hop = CHOOSE h : Is(h)
      OBVIOUS
  <2>6. Is(hop)
      BY <2>4, <2>5
  <2>7. hop[MaxAliases + 1] = t
      BY <1>2, <2>1, <2>6, HopsEnd
  <2>8. Leads(n) = hop[MaxAliases + 1]
      BY <1>2, <2>5 DEF Leads
  <2>. QED BY <1>2, <2>1, <2>7, <2>8 DEF Home
<1>. QED BY <1>1, <1>2
LEMMA ResolvesHome ==
    ASSUME IconsTyped, AliasesOneHop, NEW n \in IconNames
    PROVE  /\ ResolveIcon(n) = (IF icons[n] = NoIcon THEN NoIcon ELSE Home(n))
           /\ icons[n] # NoIcon => Home(n) \in IconNames /\ IsIcon(icons[Home(n)])
           /\ IconOf(n) = (IF icons[n] = NoIcon THEN NoIcon ELSE icons[Home(n)].id)
<1>1. icons[n] \in IconRecords \cup AliasRecords \cup {NoIcon}
    BY DEF IconsTyped
<1>2. icons[n] # NoIcon => Home(n) \in IconNames /\ IsIcon(icons[Home(n)])
    BY <1>1, IconOrAlias, IconFields DEF Home, AliasesOneHop
<1>3. icons[n] = NoIcon => Home(n) = n /\ ~IsIcon(icons[n])
    BY IconFields DEF Home
<1>4. ResolveIcon(n) = (IF icons[n] = NoIcon THEN NoIcon ELSE Home(n))
    BY <1>2, <1>3, LeadsHome DEF ResolveIcon
<1>5. Home(n) # NoIcon
    BY <1>1, <1>2, <1>3, IconsAssumption DEF IconsTyped
<1>. QED BY <1>2, <1>4, <1>5 DEF IconOf

\* A step of a request that changes no icon.
LEMMA RequestGoes ==
    ASSUME IconsInv, NEW u \in IconUsers, NEW q, IconRequest(u, q), UNCHANGED <<icons, iconRev>>,
           q.is \in {"none", "add", "rename", "move", "delete", "remove"},
           q.is = "add" => q.name \in IconNames /\ q.server \in BOOLEAN,
           q.is \in {"rename", "move", "delete", "remove"} => ReadIcon(q),
           q.is \in {"rename", "move"} => q.new \in IconNames /\ q.new # q.home,
           q.is = "move" => q.taken = NoIcon \/ (IsAlias(q.taken) /\ q.taken.target = q.home),
           q.is = "remove" =>
             /\ \A p \in q.records :
                /\ p[1] \in IconNames /\ p[2] \in 0 .. iconRev
                /\ icons[p[1]] # NoIcon /\ icons[p[1]].rev = p[2] =>
                    IsAlias(icons[p[1]]) /\ icons[p[1]].target = q.home
             /\ icons[q.home] = q.icon => \A a \in q.icon.aliases : <<a, icons[a].rev>> \in q.records
    PROVE  IconsInv'
<1>1. /\ iconOp' = [w \in IconUsers |-> iconOp'[w]] /\ iconOp'[u] = q
      /\ \A w \in IconUsers : w # u => iconOp'[w] = iconOp[w]
    BY DEF IconsInv, IconsTyped, IconRequest
<1>2. IconsTyped'
    BY <1>1 DEF IconsInv, IconsTyped
<1>3. AliasesOneHop' /\ IdsApart' /\ ListedLead'
    BY DEF IconsInv, AliasesOneHop, IdsApart, ListedLead
<1>4. RequestsRead'
  <2>. SUFFICES ASSUME NEW w \in IconUsers
       PROVE  (/\ iconOp[w].is \in {"none", "add", "rename", "move", "delete", "remove"}
               /\ iconOp[w].is = "add" => iconOp[w].name \in IconNames /\ iconOp[w].server \in BOOLEAN
               /\ iconOp[w].is \in {"rename", "move", "delete", "remove"} => ReadIcon(iconOp[w])
               /\ iconOp[w].is \in {"rename", "move"} => iconOp[w].new \in IconNames /\ iconOp[w].new # iconOp[w].home
               /\ iconOp[w].is = "move" =>
                  \/ iconOp[w].taken = NoIcon
                  \/ IsAlias(iconOp[w].taken) /\ iconOp[w].taken.target = iconOp[w].home)'
      BY DEF RequestsRead
  <2>1. CASE w = u
      BY <1>1, <2>1 DEF ReadIcon
  <2>2. CASE w # u
      BY <1>1, <2>2 DEF IconsInv, RequestsRead, ReadIcon
  <2>. QED BY <2>1, <2>2
<1>5. RemovesAliases'
  <2>. SUFFICES ASSUME NEW w \in IconUsers, iconOp'[w].is = "remove"
       PROVE  (/\ \A p \in iconOp[w].records :
                    /\ p[1] \in IconNames /\ p[2] \in 0 .. iconRev
                    /\ icons[p[1]] # NoIcon /\ icons[p[1]].rev = p[2] =>
                        IsAlias(icons[p[1]]) /\ icons[p[1]].target = iconOp[w].home
               /\ icons[iconOp[w].home] = iconOp[w].icon =>
                    \A a \in iconOp[w].icon.aliases : <<a, icons[a].rev>> \in iconOp[w].records)'
      BY DEF RemovesAliases
  <2>1. CASE w = u
      BY <1>1, <2>1
  <2>2. CASE w # u
      BY <1>1, <2>2 DEF IconsInv, RemovesAliases
  <2>. QED BY <2>1, <2>2
<1>. QED BY <1>2, <1>3, <1>4, <1>5 DEF IconsInv

LEMMA AddIconStep ==
    ASSUME IconsInv, NEW u \in IconUsers, NEW n \in IconNames, NEW s \in BOOLEAN, AddIcon(u, n, s)
    PROVE  IconsInv'
BY RequestGoes DEF AddIcon

LEMMA RenameIconStep ==
    ASSUME IconsInv, NEW u \in IconUsers, NEW n \in IconNames, NEW new \in IconNames, RenameIcon(u, n, new)
    PROVE  IconsInv'
<1>1. PICK home : home = ResolveIcon(n)
    OBVIOUS
<1>2. home \in IconNames /\ IsIcon(icons[home]) /\ new # home
    BY <1>1, ResolvesHome DEF RenameIcon, IconsInv
<1>3. icons[home] \in IconRecords /\ icons[home].rev <= iconRev
    BY <1>2, IconOrAlias DEF IconsInv, IconsTyped
<1>4. PICK q : q = [is |-> "rename", home |-> home, icon |-> icons[home], new |-> new]
    OBVIOUS
<1>5. IconRequest(u, q) /\ UNCHANGED <<icons, iconRev>>
    BY <1>1, <1>4 DEF RenameIcon
<1>6. q.is = "rename" /\ ReadIcon(q) /\ q.new = new /\ q.home = home
    BY <1>2, <1>3, <1>4 DEF ReadIcon
<1>. QED BY <1>2, <1>5, <1>6, RequestGoes

LEMMA DeleteIconStep ==
    ASSUME IconsInv, NEW u \in IconUsers, NEW n \in IconNames, DeleteIcon(u, n)
    PROVE  IconsInv'
<1>1. PICK home : home = ResolveIcon(n)
    OBVIOUS
<1>2. home \in IconNames /\ IsIcon(icons[home])
    BY <1>1, ResolvesHome DEF DeleteIcon, IconsInv
<1>3. icons[home] \in IconRecords /\ icons[home].rev <= iconRev
    BY <1>2, IconOrAlias DEF IconsInv, IconsTyped
<1>4. PICK q : q = [is |-> "delete", home |-> home, icon |-> icons[home]]
    OBVIOUS
<1>5. IconRequest(u, q) /\ UNCHANGED <<icons, iconRev>>
    BY <1>1, <1>4 DEF DeleteIcon
<1>6. q.is = "delete" /\ ReadIcon(q)
    BY <1>2, <1>3, <1>4 DEF ReadIcon
<1>. QED BY <1>2, <1>5, <1>6, RequestGoes

LEMMA IconDoneStep ==
    ASSUME IconsInv, NEW u \in IconUsers, IconDone(u), UNCHANGED <<icons, iconRev>>
    PROVE  IconsInv'
<1>1. NoRequest.is = "none"
    BY DEF NoRequest
<1>. QED BY <1>1, RequestGoes DEF IconDone

LEMMA ReclaimStep ==
    ASSUME IconsInv, NEW u \in IconUsers, ReclaimableRecord(u)
    PROVE  IconsInv'
<1>1. UNCHANGED <<icons, iconRev>> /\ iconOp[u].is = "rename"
    BY DEF ReclaimableRecord
<1>2. CASE IconDone(u)
    BY <1>1, <1>2, IconDoneStep
<1>3. CASE (icons[iconOp[u].new] = NoIcon \/ ResolveIcon(iconOp[u].new) \in {NoIcon, iconOp[u].home}) /\ MovesOn(u)
  <2>1. PICK o : o = iconOp[u]
      OBVIOUS
  <2>2. ReadIcon(o) /\ o.new \in IconNames /\ o.new # o.home
      BY <1>1, <2>1 DEF IconsInv, RequestsRead
  <2>3. icons[o.new] = NoIcon \/ (IsAlias(icons[o.new]) /\ icons[o.new].target = o.home)
      BY <1>3, <2>1, <2>2, ResolvesHome, IconsAssumption DEF IconsInv, Home
  <2>4. PICK q : q = [is |-> "move", home |-> o.home, icon |-> o.icon, new |-> o.new, taken |-> icons[o.new]]
      OBVIOUS
  <2>5. q.is = "move" /\ q.home = o.home /\ q.icon = o.icon /\ q.new = o.new /\ q.taken = icons[o.new]
      BY <2>4
  <2>6. IconRequest(u, q)
      BY <1>3, <2>1, <2>4 DEF MovesOn
  <2>. QED BY <1>1, <2>2, <2>3, <2>5, <2>6, RequestGoes DEF ReadIcon
<1>. QED BY <1>2, <1>3 DEF ReclaimableRecord

LEMMA AliasesOfStep ==
    ASSUME IconsInv, NEW u \in IconUsers, AliasesOf(u)
    PROVE  IconsInv'
<1>1. PICK o : o = iconOp[u]
    OBVIOUS
<1>2. ReadIcon(o)
    BY <1>1 DEF AliasesOf, IconsInv, RequestsRead
<1>3. PICK A : A = {x \in IconNames : IsAlias(icons[x])
                    /\ (Leads(x) = o.home \/ (x \in o.icon.aliases /\ ~IsIcon(icons[Leads(x)])))}
    OBVIOUS
<1>4. A = {x \in IconNames : IsAlias(icons[x]) /\ icons[x].target = o.home}
    BY <1>3, LeadsHome DEF IconsInv, Home, AliasesOneHop
<1>5. PICK R : R = {<<x, icons[x].rev>> : x \in A}
    OBVIOUS
<1>6. PICK q : q = [is |-> "remove", home |-> o.home, icon |-> o.icon, records |-> R]
    OBVIOUS
<1>7. q.is = "remove" /\ q.home = o.home /\ q.icon = o.icon /\ q.records = R
    BY <1>6
<1>8. IconRequest(u, q) /\ UNCHANGED <<icons, iconRev>>
    BY <1>1, <1>3, <1>5, <1>6 DEF AliasesOf
<1>9. ASSUME NEW p \in R
      PROVE  /\ p[1] \in IconNames /\ p[2] \in 0 .. iconRev
             /\ IsAlias(icons[p[1]]) /\ icons[p[1]].target = o.home
    BY <1>4, <1>5, <1>9, IconFields DEF IconsInv, IconsTyped, IsAlias
<1>10. icons[o.home] = o.icon => \A a \in o.icon.aliases : <<a, icons[a].rev>> \in R
    BY <1>2, <1>4, <1>5, IconFields DEF ReadIcon, IconsInv, ListedLead
<1>. QED BY <1>2, <1>7, <1>8, <1>9, <1>10, RequestGoes DEF ReadIcon
\* What a write of the records keeps, when the requests have read and when the
\* icons it leaves keep their aliases.
LEMMA RequestsKeep ==
    ASSUME IconsInv, iconRev' \in Nat, iconRev' >= iconRev,
           iconOp' = [w \in IconUsers |-> iconOp'[w]],
           \A w \in IconUsers : iconOp'[w] = iconOp[w] \/ iconOp'[w] = NoRequest,
           \A n \in IconNames :
                icons'[n] = icons[n] \/ icons'[n] = NoIcon \/ (iconRev' > iconRev /\ icons'[n].rev = iconRev'),
           \A n \in IconNames : IsIcon(icons[n]) /\ icons'[n] = icons[n] =>
                \A a \in icons[n].aliases : icons'[a] = icons[a]
    PROVE  RequestsRead' /\ RemovesAliases'
<1>1. NoRequest.is = "none"
    BY DEF NoRequest
<1>2. RequestsRead'
  <2>1. ASSUME NEW w \in IconUsers, iconOp'[w] = iconOp[w], ReadIcon(iconOp[w])
        PROVE  ReadIcon(iconOp[w])'
      BY <2>1, IconFields DEF IconsInv, IconsTyped, ReadIcon
  <2>2. ASSUME NEW w \in IconUsers, iconOp'[w] = iconOp[w]
        PROVE  (/\ iconOp[w].is \in {"none", "add", "rename", "move", "delete", "remove"}
                /\ iconOp[w].is = "add" => iconOp[w].name \in IconNames /\ iconOp[w].server \in BOOLEAN
                /\ iconOp[w].is \in {"rename", "move", "delete", "remove"} => ReadIcon(iconOp[w])
                /\ iconOp[w].is \in {"rename", "move"} => iconOp[w].new \in IconNames /\ iconOp[w].new # iconOp[w].home
                /\ iconOp[w].is = "move" =>
                   \/ iconOp[w].taken = NoIcon
                   \/ IsAlias(iconOp[w].taken) /\ iconOp[w].taken.target = iconOp[w].home)'
      BY <2>1, <2>2 DEF IconsInv, RequestsRead
  <2>. QED BY <1>1, <2>2 DEF RequestsRead
<1>3. ASSUME NEW w \in IconUsers, iconOp'[w].is = "remove"
      PROVE  (/\ \A p \in iconOp[w].records :
                    /\ p[1] \in IconNames /\ p[2] \in 0 .. iconRev
                    /\ icons[p[1]] # NoIcon /\ icons[p[1]].rev = p[2] =>
                        IsAlias(icons[p[1]]) /\ icons[p[1]].target = iconOp[w].home
              /\ icons[iconOp[w].home] = iconOp[w].icon =>
                    \A a \in iconOp[w].icon.aliases : <<a, icons[a].rev>> \in iconOp[w].records)'
  <2>1. PICK o : o = iconOp[w]
      OBVIOUS
  <2>2. iconOp'[w] = o /\ o.is = "remove"
      BY <1>1, <1>3, <2>1
  <2>3. ReadIcon(o)
      BY <2>1, <2>2 DEF IconsInv, RequestsRead
  <2>4. ASSUME NEW p \in o.records
        PROVE  /\ p[1] \in IconNames /\ p[2] \in 0 .. iconRev'
               /\ icons'[p[1]] # NoIcon /\ icons'[p[1]].rev = p[2] =>
                        IsAlias(icons'[p[1]]) /\ icons'[p[1]].target = o.home
    <3>1. /\ p[1] \in IconNames /\ p[2] \in 0 .. iconRev
          /\ icons[p[1]] # NoIcon /\ icons[p[1]].rev = p[2] => IsAlias(icons[p[1]]) /\ icons[p[1]].target = o.home
        BY <2>1, <2>2, <2>4 DEF IconsInv, RemovesAliases
    <3>2. CASE icons'[p[1]] = icons[p[1]]
        BY <3>1, <3>2, <2>4 DEF IconsInv, IconsTyped
    <3>3. CASE icons'[p[1]] = NoIcon
        BY <3>1, <3>3 DEF IconsInv, IconsTyped
    <3>4. CASE iconRev' > iconRev /\ icons'[p[1]].rev = iconRev'
        BY <3>1, <3>4 DEF IconsInv, IconsTyped
    <3>. QED BY <3>1, <3>2, <3>3, <3>4
  <2>5. ASSUME icons'[o.home] = o.icon, NEW a \in o.icon.aliases
        PROVE  <<a, icons'[a].rev>> \in o.records
    <3>1. icons'[o.home] = icons[o.home] /\ IsIcon(icons[o.home])
        BY <2>3, <2>5, IconFields DEF ReadIcon, IconsInv, IconsTyped
    <3>2. icons'[a] = icons[a]
        BY <2>3, <2>5, <3>1 DEF ReadIcon
    <3>. QED BY <2>1, <2>2, <2>5, <3>1, <3>2 DEF IconsInv, RemovesAliases
  <2>. QED BY <2>2, <2>4, <2>5
<1>4. RemovesAliases'
    BY <1>3 DEF RemovesAliases
<1>. QED BY <1>2, <1>4

\* What NamesKept says of a step.
NamesStay ==
    \A n \in IconNames :
        (IconOf(n) # NoIcon /\ \E x \in IconNames : IsIcon(icons'[x]) /\ icons'[x].id = IconOf(n))
            => IconOf(n)' = IconOf(n)

LEMMA IconOfIs ==
    IconsInv => \A n \in IconNames : IconOf(n) = (IF icons[n] = NoIcon THEN NoIcon ELSE icons[Home(n)].id)
BY ResolvesHome DEF IconsInv

LEMMA IconOfWillBe ==
    (IconsInv => \A n \in IconNames : IconOf(n) = (IF icons[n] = NoIcon THEN NoIcon ELSE icons[Home(n)].id))'
BY IconOfIs, PTL

\* From where names lead before and after.
LEMMA NamesStayIf ==
    ASSUME IconsInv, IconsInv',
           \A n \in IconNames : icons[n] # NoIcon =>
             \/ \A x \in IconNames : IsIcon(icons'[x]) => icons'[x].id # icons[Home(n)].id
             \/ icons'[n] # NoIcon /\ icons'[Home(n)'].id = icons[Home(n)].id
    PROVE  NamesStay
<1>. QED BY IconOfIs, IconOfWillBe DEF NamesStay

LEMMA CreateIconStep ==
    ASSUME IconsInv, NEW u \in IconUsers, CreateIcon(u)
    PROVE  IconsInv' /\ (icons' # icons => NamesStay)
<1>1. CASE UNCHANGED <<icons, iconRev>>
    BY <1>1, IconDoneStep DEF CreateIcon
<1>2. CASE ResolveIcon(iconOp[u].name) = NoIcon /\ ~UNCHANGED <<icons, iconRev>>
  <2>1. PICK n, r : n = iconOp[u].name /\ r = [kind |-> "icon", id |-> iconRev + 1, aliases |-> {},
                                                  rev |-> iconRev + 1, server |-> iconOp[u].server]
      OBVIOUS
  <2>2. n \in IconNames /\ icons' = [icons EXCEPT ![n] = r] /\ iconRev' = iconRev + 1 /\ iconRev \in Nat
      BY <1>2, <2>1 DEF CreateIcon, IconWrites, IconsInv, RequestsRead, IconsTyped
  <2>3. icons[n] = NoIcon
      BY <1>2, <2>1, <2>2, ResolvesHome, IconsAssumption DEF IconsInv
  <2>4. r \in IconRecords /\ r.id = iconRev + 1 /\ r.rev = iconRev + 1 /\ r.aliases = {} /\ IsIcon(r)
      BY <2>1, <2>2, <1>2, IconFields DEF CreateIcon, IconsInv, RequestsRead, IconRecords
  <2>5. /\ icons' = [x \in IconNames |-> icons'[x]] /\ icons'[n] = r
        /\ \A x \in IconNames : x # n => icons'[x] = icons[x]
      BY <2>2 DEF IconsInv, IconsTyped
  <2>6. /\ iconOp' = [w \in IconUsers |-> iconOp'[w]]
        /\ \A w \in IconUsers : iconOp'[w] = iconOp[w] \/ iconOp'[w] = NoRequest
      BY DEF CreateIcon, IconDone, IconRequest, IconsInv, IconsTyped
  <2>7. IconsTyped'
    <3>1. ASSUME NEW x \in IconNames
          PROVE  /\ icons'[x] \in IconRecords \cup AliasRecords \cup {NoIcon}
                 /\ icons'[x] # NoIcon => icons'[x].rev <= iconRev'
                 /\ IsIcon(icons'[x]) => icons'[x].id <= iconRev'
        BY <2>2, <2>4, <2>5, IconOrAlias, IconFields DEF IconsInv, IconsTyped
    <3>. QED BY <2>2, <2>5, <2>6, <3>1 DEF IconsTyped
  <2>8. \A x \in IconNames : IsIcon(icons[x]) \/ IsAlias(icons[x]) => x # n
      BY <2>3, IconFields
  <2>9. AliasesOneHop'
      BY <2>2, <2>4, <2>5, <2>8, IconFields DEF IconsInv, AliasesOneHop, IsIcon, IsAlias
  <2>10. \A x \in IconNames : IsIcon(icons'[x]) =>
            \/ x = n /\ icons'[x] = r
            \/ x # n /\ icons'[x] = icons[x] /\ IsIcon(icons[x]) /\ icons[x].id <= iconRev
      BY <2>5 DEF IconsInv, IconsTyped
  <2>11. IdsApart'
      BY <2>2, <2>4, <2>10, IconFields, IconOrAlias DEF IconsInv, IdsApart, IconsTyped
  <2>12. \A x \in IconNames : IsIcon(icons[x]) => \A a \in icons[x].aliases : a \in IconNames /\ icons'[a] = icons[a]
      BY <2>5, <2>8, IconFields, IconOrAlias DEF IconsInv, ListedLead, IconsTyped
  <2>13. ListedLead'
      BY <2>4, <2>10, <2>12 DEF IconsInv, ListedLead
  <2>14. RequestsRead' /\ RemovesAliases'
      BY <2>2, <2>4, <2>5, <2>6, <2>12, RequestsKeep
  <2>15. IconsInv'
      BY <2>7, <2>9, <2>11, <2>13, <2>14 DEF IconsInv
  <2>16. \A x \in IconNames : icons[x] # NoIcon => icons'[x] = icons[x] /\ Home(x)' = Home(x) /\ icons'[Home(x)] = icons[Home(x)]
      BY <2>3, <2>5, <2>8, ResolvesHome DEF Home, IconsInv
  <2>17. NamesStay
      BY <2>15, <2>16, NamesStayIf
  <2>. QED BY <2>15, <2>17
<1>. QED BY <1>1, <1>2 DEF CreateIcon

LEMMA RenameCaseStep ==
    ASSUME IconsInv, NEW n \in IconNames, RenameCase(n)
    PROVE  IconsInv' /\ NamesStay
<1>1. icons[n] \in IconRecords /\ iconRev \in Nat
    BY IconOrAlias DEF RenameCase, IconsInv, IconsTyped
<1>2. PICK r : r = [icons[n] EXCEPT !.rev = iconRev + 1]
    OBVIOUS
<1>3. /\ r \in IconRecords /\ r.id = icons[n].id /\ r.rev = iconRev + 1 /\ r.aliases = icons[n].aliases
    BY <1>1, <1>2 DEF IconRecords
<1>4. IsIcon(r) /\ ~IsAlias(r) /\ IsIcon(icons[n])
    BY <1>1, <1>3, IconFields
<1>5. /\ icons' = [x \in IconNames |-> icons'[x]] /\ icons'[n] = r /\ iconRev' = iconRev + 1
      /\ \A x \in IconNames : x # n => icons'[x] = icons[x]
    BY <1>2 DEF RenameCase, IconWrites, IconsInv, IconsTyped
<1>6. \A x \in IconNames :
        /\ IsIcon(icons'[x]) <=> IsIcon(icons[x])
        /\ IsAlias(icons'[x]) <=> IsAlias(icons[x])
        /\ IsAlias(icons[x]) => icons'[x] = icons[x] /\ icons'[x].target = icons[x].target
        /\ IsIcon(icons[x]) => icons'[x].aliases = icons[x].aliases /\ icons'[x].id = icons[x].id
    BY <1>3, <1>4, <1>5, IconFields, <1>1
<1>7. IconsTyped'
  <2>1. ASSUME NEW x \in IconNames
        PROVE  /\ icons'[x] \in IconRecords \cup AliasRecords \cup {NoIcon}
               /\ icons'[x] # NoIcon => icons'[x].rev <= iconRev'
               /\ IsIcon(icons'[x]) => icons'[x].id <= iconRev'
      BY <1>1, <1>3, <1>4, <1>5, IconOrAlias, IconFields DEF IconsInv, IconsTyped
  <2>. QED BY <1>1, <1>5, <2>1 DEF IconsInv, IconsTyped, RenameCase
<1>8. AliasesOneHop'
    BY <1>6, IconFields, IconOrAlias DEF IconsInv, AliasesOneHop, IconsTyped
<1>9. IdsApart'
    BY <1>6 DEF IconsInv, IdsApart
<1>10. ListedLead'
    BY <1>6, IconFields, IconOrAlias DEF IconsInv, ListedLead, IconsTyped
<1>11. \A x \in IconNames : IsIcon(icons[x]) => \A a \in icons[x].aliases : icons'[a] = icons[a]
    BY <1>6, IconFields, IconOrAlias DEF IconsInv, ListedLead, IconsTyped
<1>12. RequestsRead' /\ RemovesAliases'
    BY <1>1, <1>3, <1>5, <1>11, RequestsKeep DEF RenameCase, IconsInv, IconsTyped
<1>13. IconsInv'
    BY <1>7, <1>8, <1>9, <1>10, <1>12 DEF IconsInv
<1>14. \A x \in IconNames : icons[x] # NoIcon => icons'[x] # NoIcon /\ Home(x)' = Home(x) /\ icons'[Home(x)].id = icons[Home(x)].id
    BY <1>4, <1>5, <1>6, ResolvesHome DEF Home, IconsInv, IsIcon
<1>. QED BY <1>13, <1>14, NamesStayIf

LEMMA RemoveIconStep ==
    ASSUME IconsInv, NEW u \in IconUsers, RemoveIcon(u)
    PROVE  IconsInv' /\ (icons' # icons => NamesStay)
<1>1. PICK o : o = iconOp[u]
    OBVIOUS
<1>2. ReadIcon(o) /\ o.is = "remove" /\ iconRev' = iconRev /\ iconRev \in Nat
    BY <1>1 DEF RemoveIcon, IconsInv, RequestsRead, IconsTyped
<1>3. CASE icons[o.home] # o.icon
    BY <1>1, <1>2, <1>3, IconDoneStep DEF RemoveIcon
<1>4. CASE icons[o.home] = o.icon
  <2>1. PICK gone : gone = {n \in IconNames : n = o.home \/ (icons[n] # NoIcon /\ <<n, icons[n].rev>> \in o.records)}
      OBVIOUS
  <2>2. icons' = [n \in IconNames |-> IF n \in gone THEN NoIcon ELSE icons[n]]
      BY <1>1, <1>4, <2>1 DEF RemoveIcon
  <2>3. o.home \in gone /\ IsIcon(icons[o.home]) /\ o.home \in IconNames
      BY <1>2, <1>4, <2>1, IconFields DEF ReadIcon
  <2>4. \A n \in gone : n # o.home => IsAlias(icons[n]) /\ icons[n].target = o.home
      BY <1>1, <1>2, <2>1 DEF IconsInv, RemovesAliases
  <2>5. \A a \in o.icon.aliases : a \in IconNames /\ a \in gone
      BY <1>1, <1>2, <1>4, <2>1, <2>3, IconFields DEF IconsInv, RemovesAliases, ListedLead, ReadIcon, IsAlias
  <2>6. \A n \in IconNames : IsAlias(icons[n]) => (n \in gone <=> icons[n].target = o.home)
      BY <1>4, <2>3, <2>4, <2>5, IconFields DEF IconsInv, AliasesOneHop, IsAlias, IsIcon
  <2>7. \A n \in IconNames : IsIcon(icons[n]) => (n \in gone <=> n = o.home)
      BY <2>3, <2>4, IconFields, IconOrAlias DEF IconsInv, IconsTyped, IsAlias, IsIcon
  <2>8. /\ iconOp' = [w \in IconUsers |-> iconOp'[w]]
        /\ \A w \in IconUsers : iconOp'[w] = iconOp[w] \/ iconOp'[w] = NoRequest
      BY DEF RemoveIcon, IconDone, IconRequest, IconsInv, IconsTyped
  <2>9. IconsTyped'
      BY <1>2, <2>2, <2>8, IconFields DEF IconsInv, IconsTyped
  <2>10. \A n \in IconNames :
            /\ n \notin gone => icons'[n] = icons[n]
            /\ IsIcon(icons'[n]) => n \notin gone /\ IsIcon(icons[n])
            /\ IsAlias(icons'[n]) => n \notin gone /\ IsAlias(icons[n])
      BY <2>2, IconFields
  <2>11. \A n \in IconNames : IsAlias(icons[n]) => icons[n].target \in IconNames
      BY IconFields, IconOrAlias DEF IconsInv, IconsTyped
  <2>12. AliasesOneHop'
      BY <2>6, <2>7, <2>10, <2>11 DEF IconsInv, AliasesOneHop
  <2>13. IdsApart'
      BY <2>10 DEF IconsInv, IdsApart
  <2>14. \A n \in IconNames : IsIcon(icons[n]) /\ n \notin gone => \A a \in icons[n].aliases : a \in IconNames /\ a \notin gone
      BY <2>3, <2>6, <2>7, IconFields, IconOrAlias DEF IconsInv, ListedLead, IconsTyped
  <2>15. ListedLead'
      BY <2>10, <2>14 DEF IconsInv, ListedLead
  <2>16. \A n \in IconNames : IsIcon(icons[n]) /\ icons'[n] = icons[n] => n \notin gone
      BY <2>2, IconFields
  <2>17. \A n \in IconNames : icons'[n] = icons[n] \/ icons'[n] = NoIcon
      BY <2>2
  <2>18. RequestsRead' /\ RemovesAliases'
      BY <1>2, <2>8, <2>10, <2>14, <2>16, <2>17, RequestsKeep
  <2>19. IconsInv'
      BY <2>9, <2>12, <2>13, <2>15, <2>18 DEF IconsInv
  <2>20. ASSUME NEW n \in IconNames, icons[n] # NoIcon
         PROVE  \/ \A x \in IconNames : IsIcon(icons'[x]) => icons'[x].id # icons[Home(n)].id
                \/ icons'[n] # NoIcon /\ icons'[Home(n)'].id = icons[Home(n)].id
    <3>1. Home(n) \in IconNames /\ IsIcon(icons[Home(n)])
        BY <2>20, ResolvesHome DEF IconsInv
    <3>2. CASE Home(n) = o.home
        BY <2>3, <2>7, <2>10, <3>2 DEF IconsInv, IdsApart
    <3>3. CASE Home(n) # o.home
      <4>1. n \notin gone /\ Home(n) \notin gone
        <5>1. Home(n) \notin gone
            BY <2>7, <3>1, <3>3
        <5>2. IsAlias(icons[n]) => n \notin gone
            BY <2>6, <3>3 DEF Home
        <5>3. ~IsAlias(icons[n]) => Home(n) = n
            BY DEF Home
        <5>. QED BY <5>1, <5>2, <5>3
      <4>. QED BY <2>10, <2>20, <3>1, <4>1 DEF Home
    <3>. QED BY <3>2, <3>3
  <2>. QED BY <2>19, <2>20, NamesStayIf
<1>. QED BY <1>3, <1>4

LEMMA MoveIconStep ==
    ASSUME IconsInv, NEW u \in IconUsers, MoveIcon(u)
    PROVE  IconsInv' /\ (icons' # icons => NamesStay)
<1>1. PICK o : o = iconOp[u]
    OBVIOUS
<1>2. ReadIcon(o) /\ iconRev \in Nat /\ o.new \in IconNames /\ o.new # o.home
      /\ (o.taken = NoIcon \/ (IsAlias(o.taken) /\ o.taken.target = o.home))
    BY <1>1 DEF MoveIcon, IconsInv, RequestsRead, IconsTyped
<1>3. CASE UNCHANGED <<icons, iconRev>>
    BY <1>3, IconDoneStep DEF MoveIcon
<1>4. CASE icons[o.home] = o.icon /\ icons[o.new] = o.taken /\ IconWrites /\ icons' = IconMoved(o, iconRev + 1)
  <2>1. PICK r, moved, shown :
            /\ r = iconRev + 1
            /\ moved = [o.icon EXCEPT !.aliases = (@ \ {o.new}) \cup {o.home}, !.rev = r]
            /\ shown = Alias(o.new, r)
      OBVIOUS
  <2>2. /\ moved \in IconRecords /\ moved.id = o.icon.id /\ moved.rev = r
        /\ moved.aliases = (o.icon.aliases \ {o.new}) \cup {o.home}
    <3>1. PICK c, A : c = o.icon /\ A = (o.icon.aliases \ {o.new}) \cup {o.home}
        OBVIOUS
    <3>2. c \in IconRecords /\ r \in Nat /\ A \in SUBSET IconNames
        BY <1>2, <2>1, <3>1, IconFields DEF ReadIcon
    <3>3. moved = [c EXCEPT !.aliases = A, !.rev = r]
        BY <2>1, <3>1
    <3>4. moved \in IconRecords /\ moved.id = c.id /\ moved.rev = r /\ moved.aliases = A
        BY <3>2, <3>3 DEF IconRecords
    <3>. QED BY <3>1, <3>4
  <2>3. shown \in AliasRecords /\ shown.target = o.new /\ shown.rev = r
      BY <1>2, <2>1 DEF AliasRecords, Alias
  <2>4. IsIcon(moved) /\ ~IsAlias(moved) /\ IsAlias(shown) /\ ~IsIcon(shown) /\ IsIcon(o.icon) /\ o.icon.aliases \subseteq IconNames
      BY <1>2, <2>2, <2>3, IconFields DEF ReadIcon
  <2>5. icons' = [n \in IconNames |->
            IF n = o.new THEN moved
            ELSE IF n = o.home \/ (n \in o.icon.aliases /\ IsAlias(icons[n])) THEN shown ELSE icons[n]]
      BY <1>4, <2>1 DEF IconMoved
  <2>6. \A a \in o.icon.aliases : IsAlias(icons[a]) /\ icons[a].target = o.home
      BY <1>2, <1>4, <2>4 DEF ReadIcon, IconsInv, ListedLead
  <2>7. \A n \in IconNames : IsAlias(icons[n]) => (n \in o.icon.aliases <=> icons[n].target = o.home)
      BY <1>4, <2>6 DEF IconsInv, AliasesOneHop
  <2>8. PICK was : was = {o.home} \cup (o.icon.aliases \ {o.new})
      OBVIOUS
  <2>9. /\ icons'[o.new] = moved
        /\ \A n \in was : n \in IconNames /\ n # o.new /\ icons'[n] = shown
        /\ \A n \in IconNames : n # o.new /\ n \notin was => icons'[n] = icons[n]
      BY <1>2, <2>4, <2>5, <2>6, <2>8 DEF ReadIcon
  <2>10. ~IsIcon(icons[o.new])
      BY <1>2, <1>4, IconFields DEF IsIcon, IsAlias
  <2>11. iconRev' = r /\ r = iconRev + 1
      BY <1>4, <2>1 DEF IconWrites
  <2>12. /\ iconOp' = [w \in IconUsers |-> iconOp'[w]]
         /\ \A w \in IconUsers : iconOp'[w] = iconOp[w] \/ iconOp'[w] = NoRequest
      BY DEF MoveIcon, IconDone, IconRequest, IconsInv, IconsTyped
  <2>13. icons' = [n \in IconNames |-> icons'[n]]
      BY <2>5
  <2>14. o.icon.id <= iconRev
      BY <1>2, <1>4, <2>4 DEF IconsInv, IconsTyped, ReadIcon
  <2>15. IconsTyped'
    <3>1. ASSUME NEW n \in IconNames
          PROVE  /\ icons'[n] \in IconRecords \cup AliasRecords \cup {NoIcon}
                 /\ icons'[n] # NoIcon => icons'[n].rev <= iconRev'
                 /\ IsIcon(icons'[n]) => icons'[n].id <= iconRev'
        BY <1>2, <2>2, <2>3, <2>4, <2>9, <2>11, <2>14, IconFields DEF IconsInv, IconsTyped
    <3>. QED BY <1>2, <2>11, <2>12, <2>13, <3>1 DEF IconsTyped
  <2>16. ASSUME NEW n \in IconNames
         PROVE  /\ IsIcon(icons'[n]) => (n = o.new \/ (n \notin was /\ n # o.home /\ IsIcon(icons[n]) /\ icons'[n] = icons[n]))
                /\ IsAlias(icons'[n]) => n # o.new /\ (n \in was \/ (IsAlias(icons[n]) /\ icons[n].target # o.home /\ icons'[n] = icons[n]))
      BY <2>4, <2>7, <2>8, <2>9
  <2>17. AliasesOneHop'
    <3>1. ASSUME NEW n \in IconNames, IsAlias(icons'[n])
          PROVE  IsIcon(icons'[icons'[n].target]) /\ n \in icons'[icons'[n].target].aliases
      <4>1. CASE n \in was
          BY <2>2, <2>3, <2>4, <2>8, <2>9, <4>1
      <4>2. CASE n \notin was
        <5>1. PICK t : t = icons[n].target
            OBVIOUS
        <5>2. t \in IconNames /\ IsIcon(icons[t]) /\ n \in icons[t].aliases /\ t # o.home
            BY <2>16, <3>1, <4>2, <5>1, IconFields, IconOrAlias DEF IconsInv, AliasesOneHop, IconsTyped
        <5>3. t # o.new /\ t \notin was
            BY <2>6, <2>8, <2>10, <5>2, IconOrAlias, IconFields DEF IconsInv, IconsTyped
        <5>. QED BY <2>9, <2>16, <3>1, <4>2, <5>1, <5>2, <5>3
      <4>. QED BY <4>1, <4>2
    <3>. QED BY <3>1 DEF AliasesOneHop
  <2>18. IdsApart'
      BY <1>2, <1>4, <2>2, <2>4, <2>9, <2>16 DEF IconsInv, IdsApart, ReadIcon
  <2>19. ASSUME NEW x \in IconNames, IsIcon(icons[x]), x # o.home, NEW a \in icons[x].aliases
         PROVE  a \in IconNames /\ a # o.new /\ a \notin was
    <3>1. a \in IconNames /\ IsAlias(icons[a]) /\ icons[a].target = x
        BY <2>19, IconFields, IconOrAlias DEF IconsInv, ListedLead, IconsTyped
    <3>2. a # o.new
        BY <1>2, <1>4, <2>19, <3>1, IconFields
    <3>3. a # o.home
        BY <1>4, <2>4, <3>1, IconFields DEF IsAlias, IsIcon
    <3>. QED BY <2>6, <2>8, <2>19, <3>1, <3>2, <3>3
  <2>20. ListedLead'
    <3>1. ASSUME NEW n \in IconNames, IsIcon(icons'[n]), NEW a \in icons'[n].aliases
          PROVE  IsAlias(icons'[a]) /\ icons'[a].target = n
      <4>1. CASE n = o.new
          BY <2>2, <2>3, <2>4, <2>8, <2>9, <3>1, <4>1
      <4>2. CASE n # o.new
          BY <2>9, <2>16, <2>19, <3>1, <4>2 DEF IconsInv, ListedLead
      <4>. QED BY <4>1, <4>2
    <3>. QED BY <3>1 DEF ListedLead
  <2>21. ASSUME NEW n \in IconNames
         PROVE  /\ icons'[n] = icons[n] \/ icons'[n] = NoIcon \/ (iconRev' > iconRev /\ icons'[n].rev = iconRev')
                /\ IsIcon(icons[n]) /\ icons'[n] = icons[n] => \A a \in icons[n].aliases : icons'[a] = icons[a]
    <3>1. icons'[o.home] # icons[o.home]
        BY <1>4, <2>4, <2>8, <2>9
    <3>. QED BY <1>2, <2>2, <2>3, <2>9, <2>11, <2>19, <3>1
  <2>22. RequestsRead' /\ RemovesAliases'
      BY <1>2, <2>11, <2>12, <2>21, RequestsKeep
  <2>23. IconsInv'
      BY <2>15, <2>17, <2>18, <2>20, <2>22 DEF IconsInv
  <2>24. ASSUME NEW n \in IconNames, icons[n] # NoIcon
         PROVE  icons'[n] # NoIcon /\ icons'[Home(n)'].id = icons[Home(n)].id
    <3>1. Home(n) \in IconNames /\ IsIcon(icons[Home(n)])
        BY <2>24, ResolvesHome DEF IconsInv
    <3>2. CASE Home(n) = o.home
      <4>1. n = o.new \/ n \in was
          BY <2>7, <2>8, <3>2 DEF Home
      <4>2. CASE n = o.new
          BY <1>4, <2>2, <2>4, <2>9, <3>2, <4>2, IconFields DEF Home
      <4>3. CASE n \in was
          BY <1>4, <2>2, <2>3, <2>4, <2>9, <3>2, <4>3, IconFields DEF Home
      <4>. QED BY <4>1, <4>2, <4>3
    <3>3. CASE Home(n) # o.home
      <4>1. Home(n) # o.new /\ Home(n) \notin was
          BY <2>6, <2>8, <2>10, <3>1, <3>3, IconOrAlias, IconFields DEF IconsInv, IconsTyped
      <4>2. n # o.new /\ n \notin was
        <5>1. CASE IsAlias(icons[n])
            BY <1>2, <1>4, <2>4, <2>7, <2>8, <2>24, <3>3, <5>1, IconFields DEF Home, IsAlias, IsIcon
        <5>2. CASE ~IsAlias(icons[n])
            BY <4>1, <5>2 DEF Home
        <5>. QED BY <5>1, <5>2
      <4>. QED BY <2>9, <2>24, <3>1, <4>1, <4>2 DEF Home
    <3>. QED BY <3>2, <3>3
  <2>. QED BY <2>23, <2>24, NamesStayIf
<1>. QED BY <1>1, <1>3, <1>4 DEF MoveIcon
LEMMA IconsBegin == IconsInit => IconsInv
BY IconFields, IconsAssumption DEF IconsInit, IconsInv, IconsTyped, AliasesOneHop, IdsApart, ListedLead,
    RequestsRead, RemovesAliases, NoRequest

LEMMA IconsStep ==
    ASSUME IconsInv, [IconsNext]_iconVars
    PROVE  IconsInv' /\ (icons' # icons => NamesStay)
<1>1. CASE UNCHANGED iconVars
    BY <1>1 DEF iconVars, IconsInv, IconsTyped, AliasesOneHop, IdsApart, ListedLead, RequestsRead, ReadIcon, RemovesAliases
<1>2. ASSUME NEW u \in IconUsers, NEW n \in IconNames, DeleteIcon(u, n) \/ RenameCase(n)
      PROVE  IconsInv' /\ (icons' # icons => NamesStay)
    BY <1>2, DeleteIconStep, RenameCaseStep DEF DeleteIcon
<1>3. ASSUME NEW u \in IconUsers, NEW n \in IconNames, NEW s \in BOOLEAN, AddIcon(u, n, s)
      PROVE  IconsInv' /\ icons' = icons
    BY <1>3, AddIconStep DEF AddIcon
<1>4. ASSUME NEW u \in IconUsers, NEW n \in IconNames, NEW new \in IconNames, RenameIcon(u, n, new)
      PROVE  IconsInv' /\ icons' = icons
    BY <1>4, RenameIconStep DEF RenameIcon
<1>5. ASSUME NEW u \in IconUsers, CreateIcon(u) \/ MoveIcon(u) \/ RemoveIcon(u)
      PROVE  IconsInv' /\ (icons' # icons => NamesStay)
    BY <1>5, CreateIconStep, MoveIconStep, RemoveIconStep
<1>6. ASSUME NEW u \in IconUsers, ReclaimableRecord(u) \/ AliasesOf(u)
      PROVE  IconsInv' /\ icons' = icons
    BY <1>6, ReclaimStep, AliasesOfStep DEF ReclaimableRecord, AliasesOf
<1>. QED BY <1>1, <1>2, <1>3, <1>4, <1>5, <1>6 DEF IconsNext

\* However many users add, rename and delete icons together: a name that
\* names an icon, old or new, names it as long as it is in the library, and
\* every alias is one hop from its icon (AddIcon, RenameIcon, moveIcon,
\* DeleteIcon).
THEOREM IconNamesAreKept == IconsSpec => NamesKept
<1>1. IconsInv /\ [IconsNext]_iconVars => [icons' # icons => AliasesOneHop' /\ NamesStay]_iconVars
    BY IconsStep DEF IconsInv
<1>2. [icons' # icons => AliasesOneHop' /\ NamesStay]_iconVars =>
        [icons' # icons => AliasesOneHop' /\ \A n \in IconNames :
            (IconOf(n) # NoIcon /\ \E x \in IconNames : IsIcon(icons'[x]) /\ icons'[x].id = IconOf(n))
                => IconOf(n)' = IconOf(n)]_iconVars
    BY DEF NamesStay
<1>3. IconsInv /\ [IconsNext]_iconVars => IconsInv'
    BY IconsStep
<1>. QED BY <1>1, <1>2, <1>3, IconsBegin, PTL DEF IconsSpec, NamesKept

=============================================================================
