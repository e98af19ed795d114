----------------------------- MODULE DbCatalog -----------------------------
(***************************************************************************)
(* The catalog of one connection (DbCatalog in libs/sqlengine): a tree of  *)
(* items that load their children when somebody asks.  The tree view asks  *)
(* through the model, which announces the new rows; completion, links and  *)
(* an index that looks for its table ask the items themselves, which       *)
(* announce nothing.  Details (DbDetailsWidget) keep pointers to items,    *)
(* and a refresh (DbManager) replaces the tree.                            *)
(*                                                                         *)
(* An item's place is its path: a category, an object, the category of the *)
(* indexes of a table, an index there.  Everything runs in the GUI thread. *)
(***************************************************************************)
EXTENDS Integers, FiniteSets, SequencesExt

CONSTANTS
  Tables, Indexes,
  TableOf,        \* of each index
  MaxRefreshes    \* bound: refreshes

ASSUME FiniteAssumption == IsFiniteSet(Tables) /\ IsFiniteSet(Indexes)
ASSUME TablesAssumption == TableOf \in [Indexes -> Tables]
ASSUME RefreshAssumption == MaxRefreshes \in Nat

TheTables  == <<"tables">>
TheIndexes == <<"indexes">>
Table(t)   == <<"tables", t>>
Index(i)   == <<"indexes", i>>
IndexesOf(t)  == <<"tables", t, "indexes">>
IndexOf(t, i) == <<"tables", t, "indexes", i>>

Categories  == {TheTables, TheIndexes}
Objects     == {Table(t) : t \in Tables} \union {Index(i) : i \in Indexes}
Subobjects  == {IndexOf(TableOf[i], i) : i \in Indexes}
Nodes == Categories \union Objects \union {IndexesOf(t) : t \in Tables} \union Subobjects

Below(n) == {c \in Nodes : Len(c) = Len(n) + 1 /\ IsPrefix(n, c)}
Failed   == {<<>>}                       \* no set of items: a query that failed
Unmapped == -1

VARIABLES
  tree,         \* m_childrens and m_childrenLoaded of each item, how often it was made
  root,         \* which tree the view shows
  m_rootItem,   \* the tree the connection asks
  viewRows,     \* of each item the filter model has mapped: its number of rows
  m_details,    \* the items with a tab
  failed        \* history: the items whose children the view could not get

catalogVars == <<tree, root, m_rootItem, viewRows, m_details, failed>>

-----------------------------------------------------------------------------
(* The items.                                                              *)

Present(t, n) == n \in Categories \/ n \in t.children[Front(n)]

HasChildrens(n) == n \notin Subobjects \union {Index(i) : i \in Indexes}

\* The table an object is, or is for.
Belongs(o, t) == o = Table(t) \/ \E i \in Indexes : o = Index(i) /\ TableOf[i] = t

\* The server lists any of the names, or the query fails, as all do in a
\* transaction that has failed.  It is not asked for what is loaded.
Answers(n) == IF n \in tree.loaded THEN {{}} ELSE (SUBSET Below(n)) \union {Failed}

ClearChildrens(t, n) ==
  LET gone == {c \in Nodes : IsPrefix(n, c)} IN
  [t EXCEPT !.children = [c \in Nodes |-> IF c \in gone THEN {} ELSE @[c]],
            !.loaded   = @ \ gone]

\* Mutant: objects load their categories when they are asked.
DoLoadLazily(t, n, answer) ==
  [children |-> [t.children EXCEPT ![n] = answer],
   loaded   |-> t.loaded \union {n},
   made     |-> [c \in Nodes |-> IF c \in answer THEN t.made[c] + 1 ELSE t.made[c]]]

\* Objects load their categories, without a query, as soon as they are made.
DoLoadChildrens(t, n, answer) ==
  LET objects == answer \intersect Objects
      made    == answer \union UNION {Below(o) : o \in objects} IN
  [children |-> [c \in Nodes |-> IF c = n THEN answer
                                 ELSE IF c \in objects THEN Below(c) ELSE t.children[c]],
   loaded   |-> t.loaded \union {n} \union objects,
   made     |-> [c \in Nodes |-> IF c \in made THEN t.made[c] + 1 ELSE t.made[c]]]

LoadChildrens(t, n, answer) ==
  IF n \in t.loaded THEN t
  ELSE IF answer = Failed THEN ClearChildrens(t, n)
  ELSE DoLoadChildrens(ClearChildrens(t, n), n, answer)

-----------------------------------------------------------------------------
(* The model and the view.                                                 *)

CanFetchMore(n) == HasChildrens(n) /\ n \notin tree.loaded

\* What the filter model takes over when it first looks at an item.
Mapped(t, r, n) == [r EXCEPT ![n] = IF @ = Unmapped THEN Cardinality(t.children[n]) ELSE @]

\* Mutant: the order that is commented out in fetchMore.
FetchLoaded(n, answer) ==
  LET loaded == LoadChildrens(tree, n, answer) IN
  IF ~CanFetchMore(n) THEN [tree |-> tree, rows |-> viewRows]
  ELSE [tree |-> loaded,
        rows |-> [Mapped(loaded, viewRows, n) EXCEPT ![n] = @ + Cardinality(loaded.children[n])]]

\* The children are loaded into the other list, the new rows announced while
\* the item still has the old one, and the lists exchanged.
FetchMore(n, answer) ==
  LET loaded == LoadChildrens(tree, n, answer)
      count  == Cardinality(loaded.children[n]) IN
  IF ~CanFetchMore(n) THEN [tree |-> tree, rows |-> viewRows]
  ELSE IF n \notin loaded.loaded \/ count = 0
  THEN [tree |-> [loaded EXCEPT !.children[n] = tree.children[n]], rows |-> viewRows]
  ELSE [tree |-> loaded, rows |-> [Mapped(tree, viewRows, n) EXCEPT ![n] = @ + count]]

\* Every item above has rows, and the item is among them.
Visible(n) ==
  \A k \in 1..(Len(n) - 1) :
    LET above == SubSeq(n, 1, k) IN
    viewRows[above] > 0 /\ SubSeq(n, 1, k + 1) \in tree.children[above]

\* The view opens an item, or asks whether it can be opened.
Expand(n, answer) ==
  LET fetched == FetchMore(n, answer) IN
  /\ Visible(n) /\ HasChildrens(n)
  /\ tree' = fetched.tree /\ viewRows' = Mapped(fetched.tree, fetched.rows, n)
  /\ failed' = IF answer = Failed THEN failed \union {n} ELSE failed
  /\ UNCHANGED <<root, m_rootItem, m_details>>

-----------------------------------------------------------------------------
(* Details.                                                                *)

\* An index stands for the index of its table, if the table is found; the
\* item is a set that may be empty.
ReferencedItem(t, n, a, b) ==
  IF n \notin {Index(i) : i \in Indexes} THEN [tree |-> t, item |-> {n}]
  ELSE
  LET table   == TableOf[n[2]]
      found   == LoadChildrens(t, TheTables, a)
      indexes == LoadChildrens(found, IndexesOf(table), b) IN
  IF Table(table) \notin found.children[TheTables] THEN [tree |-> found, item |-> {n}]
  ELSE [tree |-> indexes,
        item |-> {IndexOf(table, n[2])} \intersect indexes.children[IndexesOf(table)]]

DbDetailItem(n) == IF n \in Categories THEN {} ELSE {SubSeq(n, 1, 2)}

AddDbDetails(t, r, item) ==
  LET details == {[node |-> d, made |-> t.made[d], root |-> r] :
                    d \in UNION {DbDetailItem(n) : n \in item}} IN
  m_details' = m_details \o SetToSeq(details \ ToSet(m_details))

\* The item selected in the tree; it is fetched first.
OnDetails(n, answer, a, b) ==
  LET fetched    == FetchMore(n, answer)
      referenced == ReferencedItem(fetched.tree, n, a, b) IN
  /\ Visible(n)
  /\ tree' = referenced.tree /\ viewRows' = fetched.rows
  /\ AddDbDetails(referenced.tree, root, referenced.item)
  /\ UNCHANGED <<root, m_rootItem, failed>>

OnDetailsTabClose(k) ==
  /\ m_details' = RemoveAt(m_details, k)
  /\ UNCHANGED <<tree, root, m_rootItem, viewRows, failed>>

-----------------------------------------------------------------------------
(* The connection: completion and links.                                   *)

SchemaObjects(c, answer) ==
  /\ m_rootItem = root
  /\ tree' = LoadChildrens(tree, c, answer)
  /\ UNCHANGED <<root, m_rootItem, viewRows, m_details, failed>>

SchemaObjectObjects(t, a, b) ==
  LET tables == LoadChildrens(tree, TheTables, a) IN
  /\ m_rootItem = root
  /\ tree' = IF Table(t) \in tables.children[TheTables]
             THEN LoadChildrens(tables, IndexesOf(t), b) ELSE tables
  /\ UNCHANGED <<root, m_rootItem, viewRows, m_details, failed>>

\* A name in a statement is looked up and its details requested.
OpenLink(o, answer, a, b) ==
  LET listed     == LoadChildrens(tree, Front(o), answer)
      referenced == ReferencedItem(listed, o, a, b) IN
  /\ o \in listed.children[Front(o)]
  /\ tree' = referenced.tree
  /\ AddDbDetails(referenced.tree, m_rootItem, referenced.item)
  /\ UNCHANGED <<root, m_rootItem, viewRows, failed>>

-----------------------------------------------------------------------------
NewTree == [children |-> [n \in Nodes |-> {}], loaded |-> {}, made |-> [n \in Nodes |-> 0]]

CatalogInit ==
  /\ tree = NewTree /\ root = 0 /\ m_rootItem = 0
  /\ viewRows = [n \in Nodes |-> Unmapped] /\ m_details = <<>> /\ failed = {}

\* Mutant: the details stay.
RefreshTree ==
  /\ root < MaxRefreshes
  /\ tree' = NewTree /\ root' = root + 1 /\ m_rootItem' = root + 1
  /\ viewRows' = [n \in Nodes |-> Unmapped] /\ failed' = {} /\ UNCHANGED m_details

\* Without jobs; they are the connection's.
OnRefresh ==
  /\ root < MaxRefreshes
  /\ tree' = NewTree /\ root' = root + 1 /\ m_rootItem' = root + 1
  /\ viewRows' = [n \in Nodes |-> Unmapped] /\ failed' = {} /\ m_details' = <<>>

CatalogNext ==
  \/ OnRefresh
  \/ \E k \in DOMAIN m_details : OnDetailsTabClose(k)
  \/ \E n \in Nodes : \E answer \in Answers(n) : Expand(n, answer)
  \/ \E c \in Categories : \E answer \in Answers(c) : SchemaObjects(c, answer)
  \/ \E t \in Tables : \E a \in Answers(TheTables), b \in Answers(IndexesOf(t)) :
       SchemaObjectObjects(t, a, b)
  \/ \E t \in Tables : \E a \in Answers(TheTables), b \in Answers(IndexesOf(t)) :
       \/ \E n \in Nodes : (n \in Objects => Belongs(n, t)) /\
            \E answer \in Answers(n) : OnDetails(n, answer, a, b)
       \/ \E o \in Objects : Belongs(o, t) /\
            \E answer \in Answers(Front(o)) : OpenLink(o, answer, a, b)

CatalogSpec == CatalogInit /\ [][CatalogNext]_catalogVars

-----------------------------------------------------------------------------
(***************************************************************************)
(* Properties.                                                             *)
(***************************************************************************)

\* The types; in one tree every item is made once, since pointers to it are
\* kept, and an object that has been made has its categories.
CatalogTypeOK ==
  /\ \A n \in Nodes : tree.children[n] \subseteq Below(n)
  /\ tree.loaded \subseteq Nodes /\ tree.made \in [Nodes -> 0..1]
  /\ \A o \in Objects : Present(tree, o) => o \in tree.loaded /\ tree.children[o] = Below(o)
  /\ {root, m_rootItem} \subseteq 0..MaxRefreshes
  /\ \A n \in Nodes : viewRows[n] \in {Unmapped} \union 0..Cardinality(Below(n))
  /\ \A k \in DOMAIN m_details : m_details[k].node \in Objects
  /\ failed \subseteq Nodes

\* The pointers that details keep are to items of the tree that is shown: a
\* refresh deletes the others, and a new item may have their addresses.
DetailsAlive ==
  \A k \in DOMAIN m_details : LET d == m_details[k] IN
    d.root = root /\ Present(tree, d.node) /\ d.made = tree.made[d.node]

\* What completion, links and details load without an announcement is seen
\* in the tree as well: an item the view has looked at shows a row for each
\* of its children, or none if the view's own query for them has failed.
RowsMatch ==
  \A n \in Nodes : viewRows[n] # Unmapped =>
    \/ viewRows[n] = Cardinality(tree.children[n])
    \/ viewRows[n] = 0 /\ n \in failed
=============================================================================
