------------------------- MODULE DocumentPageProofs -------------------------
(***************************************************************************)
(* What holds of DocumentPage for every number of documents, workspaces,   *)
(* functions in flight, clicks and losses.                                 *)
(***************************************************************************)
EXTENDS DocumentPage, IdsProofs, FiniteSetTheorems

---------------------------------------------------------------------------
(***************************************************************************)
(* Types.                                                                  *)
(***************************************************************************)
Row == [workspace: Workspaces \cup {Null}, parent_id: Ids, title: Titles \cup {Null},
        status: {"absent", "active", "trashed", "deleted"}, bundle: Ids]

Changing == {"create", "rename", "move", "remove"}    \* the functions of useDocumentMutations
Emptying == {"restore", "purge"}                      \* and of useTrash
Fetching == {"fetch", "fetched"}
Relisting == {"list", "listed"}

Task == [op: {"none", "load", "list"} \cup Changing \cup Emptying, workspace: Workspaces \cup {Null},
         doc: Ids, to: Ids, beside: Ids, title: Titles \cup {Null},
         chain: {<<>>} \cup [1..Cardinality(Docs) -> Ids],
         stage: {"none", "call", "answer"} \cup Fetching \cup Relisting,
         done: BOOLEAN, ok: BOOLEAN, got: Nodes \cup Bundles]

\* A creation is done when its document is known.
Made(k) == k.op = "create" /\ (k.stage \in Fetching \/ (k.stage = "answer" /\ k.done))

\* What stage goes with what function, and what a function at a stage has.
Formed(k) ==
    /\ k.op = "none" <=> k.stage = "none"
    /\ k.op # "none" => k.workspace \in Workspaces
    /\ k.stage \in {"call", "answer"} => k.op \in Changing \cup Emptying
    /\ k.stage \in Fetching => k.op \in {"load", "create", "move", "remove", "restore"}
    /\ k.stage \in Relisting => k.op \in {"list"} \cup Emptying
    /\ k.op \in {"rename", "move", "remove", "restore", "purge"} \/ Made(k) => k.doc \in Docs
    /\ k.op \in {"create", "rename"} => k.title \in Titles
    /\ k.op = "restore" /\ k.stage \in Fetching => k.done
    /\ k.stage = "fetched" /\ k.ok => k.got \in Nodes
    /\ k.stage = "listed" /\ k.ok => k.got \in Bundles

\* The root of a bundle is one of its members.
Rooted(rows) ==
    \A d \in Docs : rows[d].status = "trashed" =>
        rows[d].bundle \in Docs /\ rows[rows[d].bundle].status = "trashed"
                                /\ rows[rows[d].bundle].bundle = rows[d].bundle

Rows ==
    /\ row \in [Docs -> Row] /\ Rooted(row)
    /\ \A d \in Docs : IF row[d].status = "absent" THEN row[d] = NoRow
                       ELSE row[d].workspace \in Workspaces /\ row[d].title \in Titles

TasksFormed == task \in [Tasks -> Task] /\ \A t \in Tasks : Formed(task[t])

TreeFormed ==
    /\ tree \in TreeState /\ DOMAIN tree.snap = DOMAIN tree.shown
    /\ tree.run # Null <=> tree.status = "loading"
    /\ tree.run # Null => task[tree.run].stage \in Fetching

PanelFormed ==
    /\ panel \in PanelState
    /\ panel.run # Null <=> panel.status = "loading"
    /\ panel.run # Null => task[panel.run].stage \in Relisting

PendingFormed == pending \in BOOLEAN /\ (pending => \E t \in Tasks : task[t].op \in Changing)

Typed ==
    /\ Rows /\ TasksFormed /\ TreeFormed /\ PanelFormed /\ PendingFormed
    /\ workspace \in Workspaces /\ remembered \in [Workspaces -> Ids] /\ disturbed \subseteq Causes

LEMMA TypedImplies == Typed => TypeOK /\ NoEndlessWait
<1> SUFFICES ASSUME Typed PROVE TypeOK /\ NoEndlessWait
  OBVIOUS
<1>1. \A t \in Tasks : task[t].doc \in Ids /\ task[t].to \in Ids /\ task[t].workspace \in Workspaces \cup {Null}
  BY DEF Typed, TasksFormed, Task
<1>2. TypeOK
  BY <1>1 DEF Typed, TypeOK, Rows, Row, TreeFormed, PanelFormed, PendingFormed
<1>3. NoEndlessWait
  BY DEF Typed, NoEndlessWait, TreeFormed, PanelFormed, PendingFormed, Fetching, Relisting, Changing
<1> QED  BY <1>2, <1>3

LEMMA EmptyNodes == <<>> \in Nodes /\ <<>> \in Bundles /\ DOMAIN <<>> = {}
<1>1. <<>> \in [{} -> Node] /\ <<>> \in [{} -> SUBSET Docs]
  OBVIOUS
<1>2. {} \in SUBSET Docs  OBVIOUS
<1> QED  BY <1>1, <1>2 DEF Nodes, Bundles

LEMMA NodesAre ==
    ASSUME NEW D \in SUBSET Docs, NEW f \in [D -> Node]
    PROVE  f \in Nodes /\ DOMAIN f = D
BY DEF Nodes

LEMMA NodesHave ==
    ASSUME NEW f \in Nodes
    PROVE  DOMAIN f \in SUBSET Docs /\ f \in [DOMAIN f -> Node]
BY DEF Nodes

LEMMA BundlesAre ==
    ASSUME NEW D \in SUBSET Docs, NEW f \in [D -> SUBSET Docs]
    PROVE  f \in Bundles /\ DOMAIN f = D
BY DEF Bundles

LEMMA BundlesHave ==
    ASSUME NEW f \in Bundles
    PROVE  DOMAIN f \in SUBSET Docs /\ f \in [DOMAIN f -> SUBSET Docs]
BY DEF Bundles

LEMMA ListingTyped ==
    ASSUME Rows, NEW w
    PROVE  /\ Listing(w) \in Nodes /\ TrashListing(w) \in Bundles
           /\ DOMAIN Listing(w) = {d \in Docs : row[d].status = "active" /\ row[d].workspace = w}
<1> DEFINE D == {e \in ActiveDocs : row[e].workspace = w}
<1>1. D \in SUBSET Docs /\ D = {d \in Docs : row[d].status = "active" /\ row[d].workspace = w}
  BY DEF ActiveDocs
<1>2. \A d \in D : row[d].parent_id \in Ids /\ row[d].title \in Titles
  BY DEF ActiveDocs, Rows, Row
<1>3. Listing(w) \in [D -> Node]
  BY <1>1, <1>2 DEF Listing, Node
<1>4. TrashListing(w) \in [{e \in Docs : row[e].workspace = w /\ Members(e) # {}} -> SUBSET Docs]
  BY DEF TrashListing, Members
<1> HIDE DEF D
<1> QED  BY <1>1, <1>3, <1>4, NodesAre, BundlesAre

LEMMA NoTaskFormed == NoTask \in Task /\ Formed(NoTask)
BY EmptyNodes DEF NoTask, Task, Formed, Made, Ids, Fetching, Relisting
---------------------------------------------------------------------------
(***************************************************************************)
(* The rows.                                                               *)
(***************************************************************************)
\* The rows are updated for k: rows of documents that exist keep their workspace,
\* and only k's own operation changes what it is about.
Updated(k, new) ==
    /\ \A d \in Docs : row[d].workspace # Null =>
          /\ row'[d].workspace = row[d].workspace
          /\ row'[d].status = "active" => row[d].status = "active" \/ k.op = "restore"
          /\ row[d].status = "active" => row'[d].status = "active" \/ k.op = "remove"
          /\ row'[d].parent_id = row[d].parent_id \/ k.op \in {"move", "restore"}
          /\ row'[d].title = IF k.op = "rename" /\ d = k.doc THEN k.title ELSE row[d].title
    /\ \A d \in Docs : row[d].workspace = Null =>
          row'[d] = row[d] \/ (k.op = "create" /\ d = new /\ row'[d].status = "active")
    /\ k.op = "create" => row'[new].status = "active" /\ row'[new].workspace = k.workspace
    /\ k.op = "restore" => row'[k.doc].status = "active"
    /\ k.op \in {"create", "rename", "move"} => TrashListing(workspace)' = TrashListing(workspace)

LEMMA RowFacts ==
    ASSUME Rows, NEW d \in Docs
    PROVE  /\ row[d] \in Row
           /\ row[d].workspace = Null <=> row[d].status = "absent"
           /\ row[d].workspace # Null => row[d].workspace \in Workspaces /\ row[d].title \in Titles
           /\ row[d].status = "absent" => row[d] = NoRow
           /\ row[d].status = "trashed" => row[row[d].bundle].status = "trashed" /\ row[d].bundle \in Docs
BY NullAssumption DEF Rows, Rooted, NoRow

\* Rows that keep status, bundle and workspace where it matters list the same trash.
LEMMA SameTrash ==
    ASSUME Rows, NEW w, UNCHANGED workspace,
           \A d \in Docs : /\ row'[d].status = "trashed" <=> row[d].status = "trashed"
                           /\ row[d].status = "trashed" => row'[d].bundle = row[d].bundle
                                                           /\ row'[d].workspace = row[d].workspace
    PROVE  TrashListing(w)' = TrashListing(w)
<1>1. \A b \in Docs : Members(b)' = Members(b)
  BY DEF Members
<1>2. \A b \in Docs : Members(b) # {} => row[b].status = "trashed"
  BY DEF Members, Rows, Rooted
<1>3. {e \in Docs : row'[e].workspace = w /\ Members(e)' # {}} = {e \in Docs : row[e].workspace = w /\ Members(e) # {}}
  BY <1>1, <1>2
<1> QED  BY <1>1, <1>3 DEF TrashListing

\* create
LEMMA EffectCreate ==
    ASSUME Rows, NEW k \in Task, Formed(k), k.op = "create", Legal(k), row' = Effect(k), UNCHANGED workspace
    PROVE  /\ Rows' /\ (CHOOSE d \in Fresh : TRUE) \in Docs
           /\ Updated(k, CHOOSE d \in Fresh : TRUE)
<1> DEFINE n == CHOOSE d \in Fresh : TRUE
           r == [workspace |-> k.workspace, parent_id |-> k.to, title |-> k.title,
                 status |-> "active", bundle |-> Null]
<1>1. n \in Docs /\ row[n].status = "absent" /\ row[n].workspace = Null
  <2>1. n \in Fresh  BY DEF Legal
  <2> QED  BY <2>1, RowFacts DEF Fresh
<1>2. row' = [row EXCEPT ![n] = r]  BY DEF Effect
<1> HIDE DEF n
<1>3. r \in Row /\ k.workspace \in Workspaces /\ k.title \in Titles
  BY DEF Task, Row, Formed, Ids
<1>4. row' \in [Docs -> Row] /\ row'[n] = r /\ \A d \in Docs \ {n} : row'[d] = row[d]
  BY <1>1, <1>2, <1>3 DEF Rows
<1>5. r.status = "active" /\ r.workspace = k.workspace /\ r.title = k.title  OBVIOUS
<1> HIDE DEF r
<1>6. Rooted(row')
  BY <1>1, <1>4, <1>5 DEF Rows, Rooted
<1>7. Rows'
  BY <1>1, <1>3, <1>4, <1>5, <1>6 DEF Rows
<1>8. TrashListing(workspace)' = TrashListing(workspace)
  <2>1. \A d \in Docs : /\ row'[d].status = "trashed" <=> row[d].status = "trashed"
                        /\ row[d].status = "trashed" => row'[d].bundle = row[d].bundle
                                                           /\ row'[d].workspace = row[d].workspace
    BY <1>1, <1>4, <1>5
  <2> QED  BY <2>1, SameTrash DEF TrashListing
<1>9. Updated(k, n)
  BY <1>1, <1>4, <1>5, <1>8 DEF Updated
<1> QED  BY <1>1, <1>7, <1>9 DEF n
\* rename, move
LEMMA EffectChange ==
    ASSUME Rows, NEW k \in Task, Formed(k), k.op \in {"rename", "move"}, Legal(k), row' = Effect(k),
           UNCHANGED workspace, NEW new
    PROVE  Rows' /\ Updated(k, new)
<1> DEFINE r == IF k.op = "rename" THEN [row[k.doc] EXCEPT !.title = k.title]
                ELSE [row[k.doc] EXCEPT !.parent_id = k.to]
<1>1. k.doc \in Docs /\ row[k.doc].status # "absent" /\ row[k.doc] \in Row
  BY RowFacts DEF Formed, Legal, ActiveDocs
<1>2. row' = [row EXCEPT ![k.doc] = r]
  BY DEF Effect
<1>3. /\ r \in Row /\ r.workspace = row[k.doc].workspace /\ r.status = row[k.doc].status
      /\ r.bundle = row[k.doc].bundle
      /\ r.title = IF k.op = "rename" THEN k.title ELSE row[k.doc].title
      /\ r.parent_id = row[k.doc].parent_id \/ k.op = "move"
  BY <1>1 DEF Row, Task, Ids
<1> HIDE DEF r
<1>4. row' \in [Docs -> Row] /\ row'[k.doc] = r /\ \A d \in Docs \ {k.doc} : row'[d] = row[d]
  BY <1>1, <1>2, <1>3 DEF Rows
<1>5. \A d \in Docs : /\ row'[d].status = row[d].status /\ row'[d].bundle = row[d].bundle
                      /\ row'[d].workspace = row[d].workspace
  BY <1>1, <1>3, <1>4
<1>6. Rooted(row')
  BY <1>5 DEF Rows, Rooted
<1>7. r.workspace \in Workspaces /\ r.title \in Titles
  BY <1>1, <1>3 DEF Rows, Formed
<1>8. Rows'
  BY <1>1, <1>3, <1>4, <1>6, <1>7 DEF Rows
<1>9. TrashListing(workspace)' = TrashListing(workspace)
  <2>1. \A d \in Docs : /\ row'[d].status = "trashed" <=> row[d].status = "trashed"
                        /\ row[d].status = "trashed" => row'[d].bundle = row[d].bundle
                                                           /\ row'[d].workspace = row[d].workspace
    BY <1>5
  <2> QED  BY <2>1, SameTrash DEF TrashListing
<1>10. ASSUME NEW d \in Docs
       PROVE  /\ row'[d].parent_id = row[d].parent_id \/ k.op = "move"
              /\ row'[d].title = IF k.op = "rename" /\ d = k.doc THEN k.title ELSE row[d].title
  BY <1>3, <1>4
<1>11. row[k.doc].workspace # Null
  BY <1>1, RowFacts
<1> QED  BY <1>4, <1>5, <1>8, <1>9, <1>10, <1>11 DEF Updated

\* remove, restore, purge: a set of documents, with its root, changes state.
LEMMA EffectState ==
    ASSUME Rows, NEW k \in Task, Formed(k), k.op \in {"remove", "restore", "purge"}, Legal(k),
           row' = Effect(k), UNCHANGED workspace, NEW new
    PROVE  Rows' /\ Updated(k, new)
<1> DEFINE D == IF k.op = "remove" THEN Subtree(k.doc) ELSE Members(k.doc)
           r(d) == CASE k.op = "remove" -> [row[d] EXCEPT !.status = "trashed", !.bundle = k.doc]
                     [] k.op = "restore" -> [row[d] EXCEPT !.status = "active", !.bundle = Null,
                                      !.parent_id = IF d = k.doc /\ @ \notin ActiveDocs THEN Null ELSE @]
                     [] k.op = "purge" -> [row[d] EXCEPT !.status = "deleted"]
<1>1. k.doc \in Docs  BY DEF Formed
<1>2. \A d \in Docs : row[d] \in Row  BY RowFacts
<1>3. k.doc \in D /\ D \subseteq Docs
      /\ \A d \in D : row[d].status = IF k.op = "remove" THEN "active" ELSE "trashed"
  <2>1. CASE k.op = "remove"
    <3>1. k.doc \in Subtree(k.doc)  BY <1>1 DEF Subtree
    <3>2. row[k.doc].status = "active"  BY <2>1 DEF Legal, ActiveDocs
    <3>3. \A d \in Subtree(k.doc) : d \in {k.doc} \cup ActiveDocs
      <4>1. {k.doc} \cup ActiveDocs \in SUBSET Docs  BY <1>1 DEF ActiveDocs
      <4>2. \A x \in ActiveDocs : x \in {k.doc} \cup ActiveDocs  OBVIOUS
      <4> QED  BY <4>1, <4>2 DEF Subtree
    <3>4. Subtree(k.doc) \subseteq Docs  BY DEF Subtree
    <3> QED  BY <2>1, <3>1, <3>2, <3>3, <3>4 DEF ActiveDocs
  <2>2. CASE k.op # "remove"
    <3>1. Members(k.doc) # {}  BY <2>2 DEF Legal
    <3>2. k.doc \in Members(k.doc)
      BY <1>1, <3>1 DEF Members, Rows, Rooted
    <3> QED  BY <2>2, <3>2 DEF Members
  <2> QED  BY <2>1, <2>2
<1>4. row' = [d \in Docs |-> IF d \in D THEN r(d) ELSE row[d]]
  BY DEF Effect
<1>5. ASSUME NEW d \in Docs
      PROVE  /\ r(d) \in Row /\ r(d).workspace = row[d].workspace /\ r(d).title = row[d].title
             /\ k.op # "restore" => r(d).parent_id = row[d].parent_id
             /\ r(d).status = CASE k.op = "remove" -> "trashed" [] k.op = "restore" -> "active"
                                [] k.op = "purge" -> "deleted"
             /\ k.op = "remove" => r(d).bundle = k.doc
  <2>1. CASE k.op = "remove"  BY <1>1, <1>2, <2>1 DEF Row, Ids
  <2>2. CASE k.op = "restore"  BY <1>1, <1>2, <2>2 DEF Row, Ids
  <2>3. CASE k.op = "purge"  BY <1>1, <1>2, <2>3 DEF Row, Ids
  <2> QED  BY <2>1, <2>2, <2>3
<1> HIDE DEF r
<1>6. \A d \in Docs : row'[d] = IF d \in D THEN r(d) ELSE row[d]
  BY <1>4
<1>7. row' \in [Docs -> Row]  BY <1>2, <1>4, <1>5
<1>8. \A d \in Docs : row'[d].workspace = row[d].workspace /\ row'[d].title = row[d].title
  BY <1>5, <1>6
<1>9. Rooted(row')
  <2> SUFFICES ASSUME NEW d \in Docs, row'[d].status = "trashed"
               PROVE  row'[d].bundle \in Docs /\ row'[row'[d].bundle].status = "trashed"
                                              /\ row'[row'[d].bundle].bundle = row'[d].bundle
    BY DEF Rooted
  <2>1. CASE k.op = "remove" /\ d \in D
    BY <1>1, <1>3, <1>5, <1>6, <2>1
  <2>2. CASE d \notin D
    <3>1. row'[d] = row[d]  BY <1>6, <2>2
    <3>2. row[d].bundle \in Docs /\ row[row[d].bundle].status = "trashed"
                                 /\ row[row[d].bundle].bundle = row[d].bundle
      BY <3>1 DEF Rows, Rooted
    <3>3. row[d].bundle \notin D
      <4>1. CASE k.op = "remove"  BY <1>3, <3>2, <4>1
      <4>2. CASE k.op # "remove"
        <5>1. row[d].bundle # k.doc  BY <2>2, <3>1, <4>2 DEF Members
        <5> QED  BY <3>2, <4>2, <5>1 DEF Members
      <4> QED  BY <4>1, <4>2
    <3>4. row'[row[d].bundle] = row[row[d].bundle]  BY <1>6, <3>2, <3>3
    <3> QED  BY <3>1, <3>2, <3>4
  <2>3. CASE k.op # "remove" /\ d \in D
    BY <1>5, <1>6, <2>3
  <2> QED  BY <2>1, <2>2, <2>3
<1>10. Rows'
  <2>1. ASSUME NEW d \in Docs
        PROVE  IF row'[d].status = "absent" THEN row'[d] = NoRow
               ELSE row'[d].workspace \in Workspaces /\ row'[d].title \in Titles
    <3>1. CASE d \in D
      BY <1>3, <1>5, <1>6, <1>8, <3>1, RowFacts DEF Rows
    <3>2. CASE d \notin D
      BY <1>6, <3>2 DEF Rows
    <3> QED  BY <3>1, <3>2
  <2> QED  BY <1>7, <1>9, <2>1 DEF Rows
<1>11. ASSUME NEW d \in Docs
       PROVE  /\ row'[d].status = "active" => row[d].status = "active" \/ k.op = "restore"
              /\ row[d].status = "active" => row'[d].status = "active" \/ k.op = "remove"
              /\ row'[d].parent_id = row[d].parent_id \/ k.op = "restore"
              /\ row[d].workspace = Null => row'[d] = row[d]
  <2>1. CASE d \in D
    BY <1>3, <1>5, <1>6, <2>1, RowFacts
  <2>2. CASE d \notin D
    BY <1>6, <2>2
  <2> QED  BY <2>1, <2>2
<1>12. k.op = "restore" => row'[k.doc].status = "active"
  BY <1>1, <1>3, <1>5, <1>6
<1> QED  BY <1>8, <1>10, <1>11, <1>12 DEF Updated

LEMMA EffectDoes ==
    ASSUME Rows, NEW k \in Task, Formed(k), k.stage = "call", Legal(k), row' = Effect(k),
           UNCHANGED workspace
    PROVE  /\ Rows' /\ Updated(k, CHOOSE d \in Fresh : TRUE)
           /\ k.op = "create" => (CHOOSE d \in Fresh : TRUE) \in Docs
<1>1. k.op \in Changing \cup Emptying  BY DEF Formed
<1> QED  BY <1>1, EffectCreate, EffectChange, EffectState DEF Changing, Emptying
---------------------------------------------------------------------------
(***************************************************************************)
(* What each step does.                                                    *)
(***************************************************************************)
Others(t) == \A u \in Tasks \ {t} : task'[u] = task[u]

\* j is k, further on.
Later(j, k) == j.op = k.op /\ j.workspace = k.workspace /\ j.title = k.title /\ j.chain = k.chain

Noted == disturbed \subseteq disturbed' /\ disturbed' \subseteq Causes

\* One slot is given a function, or one goes on.
LEMMA PutDoes ==
    ASSUME TasksFormed, NEW t \in Tasks, NEW k, k \in Task /\ Formed(k), Put(t, k)
    PROVE  TasksFormed' /\ task'[t] = k /\ Others(t)
BY DEF Put, TasksFormed, Others

LEMMA NoteDoes ==
    ASSUME disturbed \subseteq Causes, NEW causes, causes \subseteq Causes, Note(causes)
    PROVE  Noted /\ causes \subseteq disturbed'
BY DEF Note, Noted

LEMMA HandleDoes ==
    ASSUME Typed, NEW t \in Tasks, NEW answered \in BOOLEAN, Handle(t, answered)
    PROVE  /\ Rows' /\ TasksFormed' /\ Others(t) /\ Noted
           /\ UNCHANGED <<workspace, tree, remembered, pending, panel>>
           /\ task[t].stage = "call" /\ task'[t].stage = "answer" /\ task'[t].done = answered
           /\ Later(task'[t], task[t])
           /\ task[t].op # "create" => task'[t].doc = task[t].doc
           /\ Updated(task[t], task'[t].doc)
           /\ ~answered => "lost" \in disturbed'
           /\ task[t].op = "remove" /\ panel.mode = "trash" => "behind" \in disturbed'
           /\ task[t].op = "remove" /\ (\E u \in Tasks : task[u].op \in {"create", "restore"}) => "raced" \in disturbed'
<1> DEFINE k == task[t]
           new == CHOOSE d \in Fresh : TRUE
           j == [k EXCEPT !.stage = "answer", !.done = answered, !.doc = IF k.op = "create" THEN new ELSE @]
<1>1. k \in Task /\ Formed(k) /\ Rows  BY DEF Typed, TasksFormed
<1>2. /\ k.stage = "call" /\ Legal(k) /\ row' = Effect(k) /\ Put(t, j)
      /\ UNCHANGED <<workspace, tree, remembered, pending, panel>>
  BY DEF Handle, client
<1> HIDE DEF k
<1>3. Rows' /\ Updated(k, new) /\ (k.op = "create" => new \in Docs)
  BY <1>1, <1>2, EffectDoes
<1> HIDE DEF new
<1>4. /\ j \in Task /\ j.stage = "answer" /\ j.done = answered /\ j.op = k.op /\ j.workspace = k.workspace
      /\ j.title = k.title /\ j.chain = k.chain /\ j.doc = IF k.op = "create" THEN new ELSE k.doc
  <2> DEFINE n == IF k.op = "create" THEN new ELSE k.doc
  <2>1. n \in Ids /\ j = [k EXCEPT !.stage = "answer", !.done = answered, !.doc = n]
    BY <1>1, <1>3 DEF Task, Ids
  <2> HIDE DEF n, j
  <2>2. j \in Task  BY <1>1, <2>1 DEF Task
  <2>3. j.done = answered  BY <1>1, <2>1 DEF Task
  <2>4. /\ j.stage = "answer" /\ j.op = k.op /\ j.workspace = k.workspace
        /\ j.title = k.title /\ j.chain = k.chain /\ j.doc = n
    BY <1>1, <2>1 DEF Task
  <2> QED  BY <2>2, <2>3, <2>4 DEF n
<1> HIDE DEF j
<1>5. Formed(j)
  BY <1>1, <1>2, <1>3, <1>4 DEF Formed, Made, Fetching, Relisting
<1>6. TasksFormed' /\ task'[t] = j /\ Others(t)
  BY <1>2, <1>4, <1>5, PutDoes DEF Typed
<1>7. Updated(k, j.doc)
  BY <1>3, <1>4 DEF Updated
<1>8. /\ Noted /\ (~answered => "lost" \in disturbed')
      /\ k.op = "remove" /\ panel.mode = "trash" => "behind" \in disturbed'
      /\ k.op = "remove" /\ (\E u \in Tasks : task[u].op \in {"create", "restore"}) => "raced" \in disturbed'
  BY DEF Handle, Note, Noted, Typed, Causes, k
<1> QED  BY <1>2, <1>3, <1>4, <1>6, <1>7, <1>8 DEF Later, k

LEMMA FailDoes ==
    ASSUME Typed, NEW t \in Tasks, Fail(t)
    PROVE  /\ TasksFormed' /\ Others(t)
           /\ UNCHANGED <<row, workspace, tree, remembered, pending, panel, disturbed>>
           /\ task[t].stage = "call" /\ task'[t].stage = "answer" /\ task'[t].done = FALSE
           /\ Later(task'[t], task[t]) /\ task'[t].doc = task[t].doc
<1> DEFINE k == task[t]
           j == [k EXCEPT !.stage = "answer", !.done = FALSE]
<1>1. k \in Task /\ Formed(k)  BY DEF Typed, TasksFormed
<1>2. /\ k.stage = "call" /\ Put(t, j)
      /\ UNCHANGED <<row, workspace, tree, remembered, pending, panel, disturbed>>
  BY DEF Fail, client
<1> HIDE DEF k
<1>3. /\ j \in Task /\ j.stage = "answer" /\ j.done = FALSE /\ j.op = k.op /\ j.workspace = k.workspace
      /\ j.title = k.title /\ j.chain = k.chain /\ j.doc = k.doc
  BY <1>1 DEF Task
<1> HIDE DEF j
<1>4. Formed(j)
  BY <1>1, <1>2, <1>3 DEF Formed, Made, Fetching, Relisting
<1>5. TasksFormed' /\ task'[t] = j /\ Others(t)
  BY <1>3, <1>2, <1>4, PutDoes DEF Typed
<1> QED  BY <1>2, <1>3, <1>5 DEF Later, k

LEMMA ReadDoes ==
    ASSUME Typed, NEW t \in Tasks, NEW answered \in BOOLEAN, Read(t, answered)
    PROVE  /\ TasksFormed' /\ Others(t)
           /\ UNCHANGED <<row, workspace, tree, remembered, pending, panel, disturbed>>
           /\ \/ /\ task[t].stage = "fetch" /\ task'[t].stage = "fetched"
                 /\ answered => task'[t].got = Listing(task[t].workspace)
              \/ /\ task[t].stage = "list" /\ task'[t].stage = "listed"
                 /\ answered => task'[t].got = TrashListing(task[t].workspace)
           /\ task'[t].ok = answered /\ task'[t].done = task[t].done
           /\ Later(task'[t], task[t]) /\ task'[t].doc = task[t].doc
<1> DEFINE k == task[t]
           s == IF k.stage = "fetch" THEN "fetched" ELSE "listed"
           g == IF ~answered THEN <<>> ELSE IF k.stage = "fetch" THEN Listing(k.workspace)
                ELSE TrashListing(k.workspace)
           j == [k EXCEPT !.stage = s, !.ok = answered, !.got = g]
<1>1. k \in Task /\ Formed(k) /\ Rows  BY DEF Typed, TasksFormed
<1>2. /\ k.stage \in {"fetch", "list"} /\ Put(t, j)
      /\ UNCHANGED <<row, workspace, tree, remembered, pending, panel, disturbed>>
  BY DEF Read, client
<1> HIDE DEF k
<1>3. /\ g \in Nodes \cup Bundles
      /\ answered /\ k.stage = "fetch" => g = Listing(k.workspace) /\ g \in Nodes
      /\ answered /\ k.stage = "list" => g = TrashListing(k.workspace) /\ g \in Bundles
  BY <1>1, EmptyNodes, ListingTyped
<1>4. s = (IF k.stage = "fetch" THEN "fetched" ELSE "listed") /\ s \in {"fetched", "listed"}
  OBVIOUS
<1> HIDE DEF g, s
<1>5. /\ j \in Task /\ j.stage = s /\ j.done = k.done /\ j.op = k.op /\ j.workspace = k.workspace
      /\ j.title = k.title /\ j.chain = k.chain /\ j.doc = k.doc /\ j.ok = answered /\ j.got = g
  <2>1. j \in Task
    <3>1. s \in {"none", "call", "answer"} \cup Fetching \cup Relisting  BY <1>4 DEF Fetching, Relisting
    <3>2. answered \in BOOLEAN /\ g \in Nodes \cup Bundles  BY <1>3
    <3> DEFINE i == [k EXCEPT !.stage = s, !.got = g]
    <3>3. i \in Task  BY <1>1, <3>1, <3>2 DEF Task
    <3>4. j = [i EXCEPT !.ok = answered]  BY <1>1 DEF Task
    <3> HIDE DEF i, j
    <3> QED  BY <3>2, <3>3, <3>4 DEF Task
  <2>2. j.ok = answered  BY <1>1 DEF Task
  <2>3. j.done = k.done  BY <1>1 DEF Task
  <2>4. /\ j.stage = s /\ j.op = k.op /\ j.workspace = k.workspace
        /\ j.title = k.title /\ j.chain = k.chain /\ j.doc = k.doc /\ j.got = g
    BY <1>1 DEF Task
  <2> QED  BY <2>1, <2>2, <2>3, <2>4
<1> HIDE DEF j
<1>6. Formed(j)
  BY <1>1, <1>2, <1>3, <1>4, <1>5 DEF Formed, Made, Fetching, Relisting
<1>7. TasksFormed' /\ task'[t] = j /\ Others(t)
  BY <1>2, <1>5, <1>6, PutDoes DEF Typed
<1> QED  BY <1>2, <1>3, <1>4, <1>5, <1>7 DEF Later, k
LEMMA EndDoes ==
    ASSUME TasksFormed, NEW t \in Tasks, Put(t, NoTask)
    PROVE  /\ TasksFormed' /\ Others(t)
           /\ task'[t].op = "none" /\ task'[t].stage = "none" /\ task'[t].done = FALSE
<1>1. TasksFormed' /\ task'[t] = NoTask /\ Others(t)  BY NoTaskFormed, PutDoes
<1> QED  BY <1>1 DEF NoTask

LEMMA SurvivorIn ==
    ASSUME NEW chain, chain \in {<<>>} \cup [1..Cardinality(Docs) -> Ids], NEW nodes
    PROVE  \/ Survivor(chain, nodes) = Null
           \/ /\ Survivor(chain, nodes) \in DOMAIN nodes
              /\ \E n \in DOMAIN chain : chain[n] = Survivor(chain, nodes)
<1> DEFINE alive == {n \in DOMAIN chain : chain[n] \in DOMAIN nodes}
<1>1. DOMAIN chain \subseteq Nat
  <2>1. CASE chain = <<>>  BY <2>1
  <2>2. CASE chain \in [1..Cardinality(Docs) -> Ids]
    <3>1. DOMAIN chain = 1..Cardinality(Docs)  BY <2>2
    <3>2. Cardinality(Docs) \in Nat  BY IdsAssumption, FS_CardinalityType
    <3> QED  BY <3>1, <3>2
  <2> QED  BY <2>1, <2>2
<1>2. CASE alive = {}  BY <1>2 DEF Survivor
<1>3. CASE alive # {}
  <2>1. \E n \in alive : \A m \in alive : n <= m  BY <1>1, <1>3, LeastExists
  <2>2. (CHOOSE n \in alive : \A m \in alive : n <= m) \in alive  BY <2>1
  <2> DEFINE x == CHOOSE n \in alive : \A m \in alive : n <= m
  <2>3. Survivor(chain, nodes) = chain[x]  BY <1>3 DEF Survivor
  <2>4. x \in DOMAIN chain /\ chain[x] \in DOMAIN nodes  BY <2>2
  <2> HIDE DEF x
  <2> QED  BY <2>3, <2>4
<1> QED  BY <1>2, <1>3

\* A load lands, if it is the latest.
LEMMA LandedDoes ==
    ASSUME Typed, NEW t \in Tasks, task[t].stage = "fetched"
    PROVE  LET k == task[t]
               n == Landed(t) IN
           /\ n \in TreeState /\ DOMAIN n.snap = DOMAIN n.shown
           /\ tree.run # t => n = tree
           /\ tree.run = t => n.run = Null
           /\ tree.run = t /\ ~k.ok => n.status = "error" /\ n.snap = tree.snap /\ n.shown = tree.shown
                                       /\ n.selected = tree.selected
           /\ tree.run = t /\ k.ok => /\ n.status = "ready" /\ n.snap = k.got /\ n.shown = k.got
                                      /\ \/ n.selected = tree.selected
                                         \/ n.selected = remembered[k.workspace] /\ n.selected \in DOMAIN k.got
<1> DEFINE k == task[t]
           s == IF tree.selected = Null /\ remembered[k.workspace] \in DOMAIN k.got
                THEN remembered[k.workspace] ELSE tree.selected
<1>1. tree \in TreeState /\ DOMAIN tree.snap = DOMAIN tree.shown /\ k \in Task /\ Formed(k)
  BY DEF Typed, TreeFormed, TasksFormed
<1>2. CASE tree.run # t
  BY <1>1, <1>2 DEF Landed
<1>3. CASE tree.run = t /\ ~k.ok
  <2>1. Landed(t) = [tree EXCEPT !.status = "error", !.run = Null]  BY <1>3 DEF Landed
  <2> QED  BY <1>1, <1>3, <2>1 DEF TreeState, Status
<1>4. CASE tree.run = t /\ k.ok
  <2>1. Landed(t) = [tree EXCEPT !.status = "ready", !.run = Null, !.snap = k.got, !.shown = k.got, !.selected = s]
    BY <1>1, <1>4 DEF Landed, TreeState
  <2>2. k.got \in Nodes  BY <1>1, <1>4 DEF Formed
  <2>3. s \in Ids /\ (s = tree.selected \/ (s = remembered[k.workspace] /\ s \in DOMAIN k.got))
    <3>1. DOMAIN k.got \subseteq Docs  BY <2>2, NodesHave
    <3> QED  BY <1>1, <3>1 DEF TreeState, Ids
  <2> DEFINE n == Landed(t)
             g == k.got
  <2>4. Null \in Tasks \cup {Null} /\ "ready" \in Status  BY DEF Status
  <2> HIDE DEF k, s, g, n
  <2>5. n = [tree EXCEPT !.status = "ready", !.run = Null, !.snap = g, !.shown = g, !.selected = s] /\ g \in Nodes
    BY <2>1, <2>2 DEF n, g
  <2>6. /\ n \in TreeState /\ n.run = Null /\ n.status = "ready"
        /\ n.snap = g /\ n.shown = g /\ n.selected = s
    BY <1>1, <2>3, <2>4, <2>5 DEF TreeState
  <2>7. DOMAIN n.snap = DOMAIN n.shown  BY <2>6
  <2> QED  BY <1>4, <2>3, <2>6, <2>7 DEF k, g, n
<1> QED  BY <1>2, <1>3, <1>4

\* What is selected when the function that awaited the load goes on.
Selecting(k, n, selected) ==
    /\ k.op \in {"create", "restore"} => selected = k.doc
    /\ k.op = "remove" => \/ selected = n.selected /\ (n.selected = Null \/ n.selected \in DOMAIN n.snap)
                          \/ selected = Null
                          \/ /\ selected \in DOMAIN n.snap
                             /\ \E i \in DOMAIN k.chain : k.chain[i] = selected
    /\ k.op \notin {"create", "restore", "remove"} => selected = n.selected

LEMMA ReloadedDoes ==
    ASSUME Typed, NEW t \in Tasks, Reloaded(t)
    PROVE  LET k == task[t]
               n == Landed(t) IN
           /\ k.stage = "fetched" /\ TasksFormed' /\ Others(t)
           /\ task'[t].op = "none" /\ task'[t].stage = "none" /\ task'[t].done = FALSE
           /\ UNCHANGED <<row, workspace, panel>> /\ Noted
           /\ tree' \in TreeState /\ tree'.status = n.status /\ tree'.run = n.run
           /\ tree'.snap = n.snap /\ tree'.shown = n.shown
           /\ Selecting(k, n, tree'.selected)
           /\ \/ remembered' = remembered
              \/ /\ remembered' = [remembered EXCEPT ![k.workspace] = tree'.selected]
                 /\ \/ k.op \in {"create", "restore"}
                    \/ k.op = "remove" /\ tree'.selected \notin {Null, n.selected}
           /\ pending' = (pending /\ k.op \notin {"create", "remove", "move"})
           /\ tree.run # t => "superseded" \in disturbed'
           /\ tree.run = t /\ ~k.ok => "unread" \in disturbed'
           /\ k.workspace # workspace /\ tree'.selected # tree.selected => "adrift" \in disturbed'
           /\ "adrift" \in disturbed' => "adrift" \in disturbed \/ k.workspace # workspace
<1> DEFINE k == task[t]
           n == Landed(t)
           m == CASE k.op \in {"create", "restore"} -> [n EXCEPT !.selected = k.doc]
                  [] k.op = "remove" -> Reselected(n, k.chain)
                  [] OTHER -> n
           causes == (IF tree.run # t THEN {"superseded"} ELSE IF k.ok THEN {} ELSE {"unread"})
                     \cup (IF k.workspace # workspace /\ m.selected # tree.selected THEN {"adrift"} ELSE {})
<1>1. k \in Task /\ Formed(k) /\ TasksFormed /\ disturbed \subseteq Causes
  BY DEF Typed, TasksFormed
<1>2. /\ k.stage = "fetched" /\ tree' = m /\ Put(t, NoTask) /\ UNCHANGED <<row, workspace, panel>>
      /\ pending' = (pending /\ k.op \notin {"create", "remove", "move"})
      /\ remembered' = IF k.op \in {"create", "restore"} \/ (k.op = "remove" /\ m.selected \notin {Null, n.selected})
                       THEN Remembering(k.workspace, m.selected) ELSE remembered
      /\ Note(causes)
  BY DEF Reloaded
<1>3. n \in TreeState  BY <1>2, LandedDoes
<1>4. /\ m \in TreeState /\ m.status = n.status /\ m.run = n.run /\ m.snap = n.snap /\ m.shown = n.shown
      /\ Selecting(k, n, m.selected)
  <2> HIDE DEF n, k
  <2>1. CASE k.op \in {"create", "restore"}
    <3>1. k.doc \in Ids  BY <1>1 DEF Task
    <3>2. m = [n EXCEPT !.selected = k.doc]  BY <2>1
    <3> HIDE DEF m
    <3> QED  BY <1>3, <2>1, <3>1, <3>2 DEF TreeState, Selecting
  <2>2. CASE k.op = "remove"
    <3> DEFINE x == Survivor(k.chain, n.snap)
    <3>1. \/ m = n /\ n.selected \in DOMAIN n.snap
          \/ m = [n EXCEPT !.selected = x]
      BY <2>2 DEF Reselected
    <3>2. x = Null \/ (x \in DOMAIN n.snap /\ \E i \in DOMAIN k.chain : k.chain[i] = x)
      BY <1>1, SurvivorIn DEF Task
    <3>3. x \in Ids
      <4>1. n.snap \in Nodes  BY <1>3 DEF TreeState
      <4> QED  BY <3>2, <4>1, NodesHave DEF Ids
    <3> HIDE DEF m, x
    <3> QED  BY <1>3, <2>2, <3>1, <3>2, <3>3 DEF TreeState, Selecting
  <2>3. CASE k.op \notin {"create", "restore", "remove"}
    BY <1>3, <2>3 DEF Selecting
  <2> QED  BY <2>1, <2>2, <2>3
<1>5. TasksFormed' /\ Others(t) /\ task'[t].op = "none" /\ task'[t].stage = "none" /\ task'[t].done = FALSE
  BY <1>1, <1>2, EndDoes
<1>6. Noted /\ causes \subseteq disturbed' /\ ("adrift" \in disturbed' => "adrift" \in disturbed \/ "adrift" \in causes)
  <2>1. causes \subseteq Causes  BY DEF Causes
  <2> HIDE DEF causes
  <2> QED  BY <1>1, <1>2, <2>1, NoteDoes DEF Note
<1> HIDE DEF m
<1> QED  BY <1>2, <1>4, <1>5, <1>6 DEF Remembering
LEMMA LoadingDoes ==
    ASSUME tree \in TreeState, NEW t \in Tasks
    PROVE  LET n == Loading(t) IN
           /\ n \in TreeState /\ n.status = "loading" /\ n.run = t
           /\ n.snap = tree.snap /\ n.shown = tree.shown /\ n.selected = tree.selected
BY DEF Loading, TreeState, Status

LEMMA BegunDoes ==
    ASSUME disturbed \subseteq Causes, NEW w, Note(Begun(w))
    PROVE  /\ Noted
           /\ w # workspace => "stray" \in disturbed'
           /\ (\E u \in Tasks : task[u].op = "rename") => "crossed" \in disturbed'
           /\ "adrift" \in disturbed' => "adrift" \in disturbed
BY DEF Note, Noted, Begun, Causes

LEMMA ConfirmedDoes ==
    ASSUME Typed, NEW t \in Tasks, Confirmed(t)
    PROVE  /\ task[t].stage = "answer" /\ task[t].done /\ task[t].op \in {"create", "remove", "move"}
           /\ TasksFormed' /\ Others(t) /\ task'[t].stage = "fetch" /\ task'[t].done
           /\ Later(task'[t], task[t]) /\ task'[t].doc = task[t].doc
           /\ tree' = Loading(t) /\ Note(Begun(task[t].workspace))
           /\ UNCHANGED <<row, workspace, remembered, pending, panel>>
<1> DEFINE k == task[t]
           j == [k EXCEPT !.stage = "fetch"]
<1>1. k \in Task /\ Formed(k)  BY DEF Typed, TasksFormed
<1>2. /\ k.stage = "answer" /\ k.done /\ k.op \in {"create", "remove", "move"}
      /\ Put(t, j) /\ tree' = Loading(t) /\ Note(Begun(k.workspace))
      /\ UNCHANGED <<row, workspace, remembered, pending, panel>>
  BY DEF Confirmed
<1> HIDE DEF k
<1>3. /\ j \in Task /\ j.stage = "fetch" /\ j.op = k.op /\ j.workspace = k.workspace
      /\ j.title = k.title /\ j.chain = k.chain /\ j.doc = k.doc
  BY <1>1 DEF Task, Fetching
<1>4. j.done = k.done  BY <1>1 DEF Task
<1> HIDE DEF j
<1>5. Formed(j)
  BY <1>1, <1>2, <1>3 DEF Formed, Made, Fetching, Relisting
<1>6. TasksFormed' /\ task'[t] = j /\ Others(t)
  BY <1>3, <1>2, <1>5, PutDoes DEF Typed
<1> QED  BY <1>2, <1>3, <1>4, <1>6 DEF Later, k

LEMMA FinishedDoes ==
    ASSUME Typed, NEW t \in Tasks, Finished(t)
    PROVE  /\ task[t].stage = "answer"
           /\ IF task[t].op = "rename" THEN task[t].done ELSE ~task[t].done /\ task[t].op \in {"create", "remove"}
           /\ TasksFormed' /\ Others(t)
           /\ task'[t].op = "none" /\ task'[t].stage = "none" /\ task'[t].done = FALSE
           /\ pending' = FALSE /\ UNCHANGED <<row, workspace, tree, remembered, panel, disturbed>>
BY EndDoes DEF Finished, Typed

LEMMA UndoneDoes ==
    ASSUME Typed, NEW t \in Tasks, Undone(t)
    PROVE  /\ task[t].stage = "answer" /\ ~task[t].done /\ task[t].op \in {"rename", "move"}
           /\ TasksFormed' /\ Others(t)
           /\ task'[t].op = "none" /\ task'[t].stage = "none" /\ task'[t].done = FALSE
           /\ tree' \in TreeState /\ tree'.snap = tree.snap /\ tree'.shown = tree.snap
           /\ tree'.status = tree.status /\ tree'.run = tree.run /\ tree'.selected = tree.selected
           /\ pending' = FALSE /\ UNCHANGED <<row, workspace, remembered, panel>>
           /\ Noted /\ "undone" \in disturbed' /\ ("adrift" \in disturbed' => "adrift" \in disturbed)
<1>1. /\ task[t].stage = "answer" /\ ~task[t].done /\ task[t].op \in {"rename", "move"}
      /\ Put(t, NoTask) /\ tree' = [tree EXCEPT !.shown = tree.snap]
      /\ pending' = FALSE /\ UNCHANGED <<row, workspace, remembered, panel>> /\ Note({"undone"})
  BY DEF Undone, Shown
<1>2. tree \in TreeState  BY DEF Typed, TreeFormed
<1>3. /\ tree' \in TreeState /\ tree'.snap = tree.snap /\ tree'.shown = tree.snap
      /\ tree'.status = tree.status /\ tree'.run = tree.run /\ tree'.selected = tree.selected
  BY <1>1, <1>2 DEF TreeState
<1>4. /\ TasksFormed' /\ Others(t)
      /\ task'[t].op = "none" /\ task'[t].stage = "none" /\ task'[t].done = FALSE
  BY <1>1, EndDoes DEF Typed
<1>5. Noted /\ "undone" \in disturbed' /\ ("adrift" \in disturbed' => "adrift" \in disturbed)
  BY <1>1 DEF Typed, Note, Noted, Causes
<1> QED  BY <1>1, <1>3, <1>4, <1>5

\* The panel waits for a list.
Awaiting(n, t) == n \in PanelState /\ n.status = "loading" /\ n.run = t /\ n.mode = panel.mode

LEMMA TrashAnsweredDoes ==
    ASSUME Typed, NEW t \in Tasks, TrashAnswered(t)
    PROVE  /\ task[t].stage = "answer" /\ task[t].op \in Emptying
           /\ TasksFormed' /\ Others(t) /\ task'[t].stage = "list" /\ task'[t].done = task[t].done
           /\ Later(task'[t], task[t]) /\ task'[t].doc = task[t].doc
           /\ Awaiting(panel', t)
           /\ UNCHANGED <<row, workspace, tree, remembered, pending>>
           /\ Noted /\ (task[t].workspace # workspace => "stray" \in disturbed')
           /\ "adrift" \in disturbed' => "adrift" \in disturbed
<1> DEFINE k == task[t]
           j == [k EXCEPT !.stage = "list"]
<1>1. k \in Task /\ Formed(k)  BY DEF Typed, TasksFormed
<1>2. /\ k.stage = "answer" /\ k.op \in Emptying /\ Put(t, j)
      /\ panel' = [panel EXCEPT !.status = "loading", !.run = t]
      /\ UNCHANGED <<row, workspace, tree, remembered, pending>>
  BY DEF TrashAnswered, Emptying
<1>3. Noted /\ (task[t].workspace # workspace => "stray" \in disturbed')
      /\ ("adrift" \in disturbed' => "adrift" \in disturbed)
  BY DEF TrashAnswered, Note, Noted, Typed, Causes
<1> HIDE DEF k
<1>4. /\ j \in Task /\ j.stage = "list" /\ j.op = k.op /\ j.workspace = k.workspace
      /\ j.title = k.title /\ j.chain = k.chain /\ j.doc = k.doc
  BY <1>1 DEF Task, Relisting
<1>5. j.done = k.done  BY <1>1 DEF Task
<1> HIDE DEF j
<1>6. Formed(j)
  BY <1>1, <1>2, <1>4 DEF Formed, Made, Fetching, Relisting
<1>7. TasksFormed' /\ task'[t] = j /\ Others(t)
  BY <1>4, <1>2, <1>6, PutDoes DEF Typed
<1>8. Awaiting(panel', t)
  BY <1>2 DEF Typed, PanelFormed, PanelState, Status, Awaiting
<1> QED  BY <1>2, <1>3, <1>4, <1>5, <1>7, <1>8 DEF Later, k
\* A list of the trash lands, if it is the latest.
LEMMA TrashLandedDoes ==
    ASSUME Typed, NEW t \in Tasks, task[t].stage = "listed", NEW picked \in Ids
    PROVE  LET k == task[t]
               n == [TrashLanded(t) EXCEPT !.picked = picked] IN
           /\ n \in PanelState /\ n.mode = panel.mode /\ n.picked = picked
           /\ panel.run # t => n.status = panel.status /\ n.run = panel.run /\ n.bundles = panel.bundles
           /\ panel.run = t => n.run = Null /\ n.status # "loading"
           /\ panel.run = t /\ ~k.ok => n.status = "error" /\ n.bundles = panel.bundles
           /\ panel.run = t /\ k.ok => n.status = "ready" /\ n.bundles = k.got
<1> DEFINE k == task[t]
<1>1. panel \in PanelState /\ k \in Task /\ Formed(k)
  BY DEF Typed, PanelFormed, TasksFormed
<1>2. CASE panel.run # t
  <2>1. TrashLanded(t) = panel  BY <1>2 DEF TrashLanded
  <2> QED  BY <1>1, <1>2, <2>1 DEF PanelState
<1>3. CASE panel.run = t /\ ~k.ok
  <2>1. TrashLanded(t) = [panel EXCEPT !.status = "error", !.run = Null]  BY <1>3 DEF TrashLanded
  <2> QED  BY <1>1, <1>3, <2>1 DEF PanelState, Status
<1>4. CASE panel.run = t /\ k.ok
  <2>1. TrashLanded(t) = [panel EXCEPT !.status = "ready", !.run = Null, !.bundles = k.got]
    BY <1>4 DEF TrashLanded
  <2>2. k.got \in Bundles  BY <1>1, <1>4 DEF Formed
  <2> DEFINE g == k.got
  <2>3. g \in Bundles /\ TrashLanded(t) = [panel EXCEPT !.status = "ready", !.run = Null, !.bundles = g]
    BY <2>1, <2>2
  <2> DEFINE n == [TrashLanded(t) EXCEPT !.picked = picked]
  <2>4. Null \in Tasks \cup {Null} /\ "ready" \in Status  BY DEF Status
  <2> HIDE DEF g, k
  <2>5. /\ n \in PanelState /\ n.mode = panel.mode /\ n.picked = picked /\ n.run = Null /\ n.status = "ready"
        /\ n.bundles = g
    BY <1>1, <2>3, <2>4 DEF PanelState
  <2> HIDE DEF n
  <2> QED  BY <1>4, <2>5 DEF g, k, n
<1> QED  BY <1>2, <1>3, <1>4

LEMMA ActivePanelFormed ==
    /\ ActivePanel \in PanelState /\ ActivePanel.run = Null /\ ActivePanel.status = "ready"
    /\ ActivePanel.mode = "active" /\ ActivePanel.picked = Null
BY EmptyNodes DEF ActivePanel, PanelState, Status, Ids

LEMMA ListedDoes ==
    ASSUME Typed, NEW t \in Tasks, Listed(t)
    PROVE  LET k == task[t] IN
           /\ k.stage = "listed" /\ UNCHANGED <<row, workspace, remembered, pending>>
           /\ TasksFormed' /\ Others(t)
           /\ panel' \in PanelState
           /\ \/ panel'.mode = "active" /\ panel'.run = Null /\ panel'.status = "ready"
              \/ /\ panel'.mode = panel.mode
                 /\ panel.run # t => /\ panel'.status = panel.status /\ panel'.run = panel.run
                                     /\ panel'.bundles = panel.bundles
                 /\ panel.run = t => panel'.run = Null /\ panel'.status # "loading"
                 /\ panel.run = t /\ panel'.status = "ready" => k.ok /\ panel'.bundles = k.got
           /\ \/ /\ k.op = "restore" /\ k.done
                 /\ task'[t].stage = "fetch" /\ task'[t].done
                 /\ Later(task'[t], k) /\ task'[t].doc = k.doc
                 /\ tree' = Loading(t) /\ Note(Begun(k.workspace))
              \/ /\ ~(k.op = "restore" /\ k.done)
                 /\ task'[t].op = "none" /\ task'[t].stage = "none" /\ task'[t].done = FALSE
                 /\ UNCHANGED <<tree, disturbed>>
<1> DEFINE k == task[t]
           j == [k EXCEPT !.stage = "fetch"]
<1>1. k \in Task /\ Formed(k) /\ panel \in PanelState  BY DEF Typed, TasksFormed, PanelFormed
<1>2. k.stage = "listed" /\ UNCHANGED <<row, workspace, remembered, pending>>
  BY DEF Listed
<1>3. ASSUME NEW picked \in Ids, panel' = [TrashLanded(t) EXCEPT !.picked = picked]
      PROVE  /\ panel' \in PanelState /\ panel'.mode = panel.mode
             /\ panel.run # t => /\ panel'.status = panel.status /\ panel'.run = panel.run
                                 /\ panel'.bundles = panel.bundles
             /\ panel.run = t => panel'.run = Null /\ panel'.status # "loading"
             /\ panel.run = t /\ panel'.status = "ready" => k.ok /\ panel'.bundles = k.got
  BY <1>2, <1>3, TrashLandedDoes
<1>4. CASE k.op = "restore" /\ k.done
  <2>1. /\ panel' = IF panel.mode = "trash" THEN ActivePanel ELSE [TrashLanded(t) EXCEPT !.picked = Null]
        /\ tree' = Loading(t) /\ Put(t, j) /\ Note(Begun(k.workspace))
    BY <1>4 DEF Listed
  <2> HIDE DEF k
  <2>2. /\ j \in Task /\ j.stage = "fetch" /\ j.op = k.op /\ j.workspace = k.workspace
        /\ j.title = k.title /\ j.chain = k.chain /\ j.doc = k.doc
    BY <1>1 DEF Task, Fetching
  <2>3. j.done = k.done  BY <1>1 DEF Task
  <2> HIDE DEF j
  <2>4. Formed(j)
    BY <1>1, <1>2, <1>4, <2>2, <2>3 DEF Formed, Made, Fetching, Relisting
  <2>5. TasksFormed' /\ task'[t] = j /\ Others(t)
    BY <2>1, <2>2, <2>4, PutDoes DEF Typed
  <2>6. Null \in Ids  BY DEF Ids
  <2>7. \/ panel' = ActivePanel
        \/ panel' = [TrashLanded(t) EXCEPT !.picked = Null]
    BY <2>1
  <2> USE DEF k
  <2> QED  BY <1>2, <1>3, <1>4, <2>1, <2>2, <2>3, <2>5, <2>6, <2>7, ActivePanelFormed DEF Later
<1>5. CASE ~(k.op = "restore" /\ k.done)
  <2> DEFINE p == IF k.op = "purge" THEN Null ELSE TrashLanded(t).picked
  <2>1. /\ panel' = [TrashLanded(t) EXCEPT !.picked = p]
        /\ Put(t, NoTask) /\ UNCHANGED <<tree, disturbed>>
    BY <1>5 DEF Listed
  <2>2. p \in Ids
    <3>1. TrashLanded(t).picked = panel.picked
      BY <1>1 DEF TrashLanded, PanelState
    <3> QED  BY <1>1, <3>1 DEF PanelState, Ids
  <2>3. TasksFormed' /\ Others(t) /\ task'[t].op = "none" /\ task'[t].stage = "none" /\ task'[t].done = FALSE
    BY <2>1, EndDoes DEF Typed
  <2> HIDE DEF p
  <2> QED  BY <1>2, <1>3, <1>5, <2>1, <2>2, <2>3
<1> QED  BY <1>4, <1>5
---------------------------------------------------------------------------
\* A free slot is given function k.
Started(t, k) ==
    /\ t \in Tasks /\ task[t].op = "none" /\ task[t].stage = "none"
    /\ TasksFormed' /\ task'[t] = k /\ Others(t)

LEMMA FirstOfIn ==
    ASSUME NEW S, S \subseteq Tasks, S # {}
    PROVE  FirstOf(S) \in S
<1>1. S \subseteq Nat  BY IdsAssumption
<1> QED  BY <1>1, LeastExists DEF FirstOf

LEMMA StartDoes ==
    ASSUME Typed, NEW k, k \in Task /\ Formed(k), Start(k)
    PROVE  Started(FirstOf(Slots), k) /\ UNCHANGED row
<1>1. Slots # {} /\ Put(FirstOf(Slots), k) /\ UNCHANGED row
  BY DEF Start, Click
<1>2. FirstOf(Slots) \in Slots
  BY <1>1, FirstOfIn DEF Slots
<1>3. FirstOf(Slots) \in Tasks /\ task[FirstOf(Slots)].op = "none"
  BY <1>2 DEF Slots
<1>4. task[FirstOf(Slots)].stage = "none"
  BY <1>3 DEF Typed, TasksFormed, Formed
<1> QED  BY <1>1, <1>3, <1>4, PutDoes DEF Started, Typed

LEMMA CallIs ==
    ASSUME workspace \in Workspaces, NEW op \in Changing \cup Emptying, NEW d \in Ids
    PROVE  LET k == Call(op, d) IN
           /\ k \in Task /\ k.op = op /\ k.workspace = workspace /\ k.doc = d /\ k.stage = "call"
           /\ k.chain = <<>> /\ k.done = FALSE
BY NoTaskFormed DEF Call, NoTask, Task

\* A call that starts now goes into slot t.
Called(t, op) ==
    /\ Started(t, task'[t]) /\ task'[t].op = op /\ task'[t].workspace = workspace
    /\ task'[t].stage = "call" /\ task'[t].done = FALSE

LEMMA CreateClickDoes ==
    ASSUME Typed, NEW p \in Ids, NEW title \in Titles, CreateClick(p, title)
    PROVE  /\ Called(FirstOf(Slots), "create") /\ task'[FirstOf(Slots)].chain = <<>>
           /\ pending' = TRUE /\ UNCHANGED <<row, workspace, tree, remembered, panel, disturbed>>
<1> DEFINE c == Call("create", Null)
           k == [c EXCEPT !.to = p, !.title = title]
<1>1. Start(k) /\ pending' = TRUE /\ UNCHANGED <<workspace, tree, remembered, panel, disturbed>>
  BY DEF CreateClick
<1>2. /\ c \in Task /\ c.op = "create" /\ c.workspace = workspace /\ c.doc = Null /\ c.stage = "call"
      /\ c.chain = <<>> /\ c.done = FALSE
  <2>1. Null \in Ids /\ "create" \in Changing \cup Emptying /\ workspace \in Workspaces
    BY DEF Typed, Ids, Changing
  <2> QED  BY <2>1, CallIs
<1> HIDE DEF c
<1>3. /\ k \in Task /\ k.op = "create" /\ k.workspace = workspace /\ k.doc = Null /\ k.stage = "call"
      /\ k.chain = <<>> /\ k.title = title
  BY <1>2 DEF Task
<1>4. k.done = FALSE  BY <1>2 DEF Task
<1> HIDE DEF k
<1>5. Formed(k)  BY <1>3, <1>4 DEF Formed, Made, Typed, Changing, Fetching, Relisting
<1>6. Started(FirstOf(Slots), k) /\ UNCHANGED row  BY <1>1, <1>3, <1>5, StartDoes
<1>7. task'[FirstOf(Slots)] = k  BY <1>6 DEF Started
<1> QED  BY <1>1, <1>3, <1>4, <1>6, <1>7 DEF Called

LEMMA RenameClickDoes ==
    ASSUME Typed, NEW title \in Titles, RenameClick(title)
    PROVE  LET k == task'[FirstOf(Slots)] IN
           /\ Called(FirstOf(Slots), "rename") /\ k.chain = <<>>
           /\ tree.selected # Null /\ k.doc = tree.selected /\ k.title = title /\ ~pending
           /\ tree' \in TreeState /\ tree'.status = tree.status /\ tree'.run = tree.run
           /\ tree'.snap = tree.snap /\ tree'.selected = tree.selected
           /\ tree'.shown = Renamed(tree.shown, tree.selected, title)
           /\ DOMAIN tree'.shown = DOMAIN tree.shown
           /\ pending' = TRUE /\ UNCHANGED <<row, workspace, remembered, panel>>
           /\ Noted /\ ("adrift" \in disturbed' => "adrift" \in disturbed)
           /\ (\E u \in Tasks : task[u].op = "rename" \/ task[u].stage \in Fetching) => "crossed" \in disturbed'
<1> DEFINE c == Call("rename", tree.selected)
           k == [c EXCEPT !.title = title]
           nodes == Renamed(tree.shown, tree.selected, title)
<1>1. /\ Start(k) /\ pending' = TRUE /\ UNCHANGED <<workspace, remembered, panel>>
      /\ tree' = [tree EXCEPT !.shown = nodes] /\ tree.selected # Null /\ ~pending
  BY DEF RenameClick, Shown, Enabled
<1>2. tree \in TreeState /\ tree.selected \in Docs
  BY <1>1 DEF Typed, TreeFormed, TreeState, Ids
<1>3. nodes \in Nodes /\ DOMAIN nodes = DOMAIN tree.shown
  <2>1. DOMAIN tree.shown \in SUBSET Docs /\ tree.shown \in [DOMAIN tree.shown -> Node]
    BY <1>2, NodesHave DEF TreeState
  <2>2. nodes \in [DOMAIN tree.shown -> Node]  BY <2>1 DEF Renamed, Node
  <2> HIDE DEF nodes
  <2> QED  BY <2>1, <2>2, NodesAre
<1>4. /\ tree' \in TreeState /\ tree'.status = tree.status /\ tree'.run = tree.run
      /\ tree'.snap = tree.snap /\ tree'.selected = tree.selected /\ tree'.shown = nodes
  <2> HIDE DEF nodes
  <2> QED  BY <1>1, <1>2, <1>3 DEF TreeState
<1>5. /\ c \in Task /\ c.op = "rename" /\ c.workspace = workspace /\ c.doc = tree.selected /\ c.stage = "call"
      /\ c.chain = <<>> /\ c.done = FALSE
  <2>1. tree.selected \in Ids /\ "rename" \in Changing \cup Emptying /\ workspace \in Workspaces
    BY <1>2 DEF Typed, Ids, Changing
  <2> QED  BY <2>1, CallIs
<1> HIDE DEF c
<1>6. /\ k \in Task /\ k.op = "rename" /\ k.workspace = workspace /\ k.doc = tree.selected /\ k.stage = "call"
      /\ k.chain = <<>> /\ k.title = title
  BY <1>5 DEF Task
<1>7. k.done = FALSE  BY <1>5 DEF Task
<1> HIDE DEF k
<1>8. Formed(k)  BY <1>2, <1>6, <1>7 DEF Formed, Made, Typed, Changing, Fetching, Relisting
<1>9. Started(FirstOf(Slots), k) /\ UNCHANGED row  BY <1>1, <1>6, <1>8, StartDoes
<1>10. task'[FirstOf(Slots)] = k  BY <1>9 DEF Started
<1>11. /\ Noted /\ ("adrift" \in disturbed' => "adrift" \in disturbed)
       /\ (\E u \in Tasks : task[u].op = "rename" \/ task[u].stage \in Fetching) => "crossed" \in disturbed'
  <2> DEFINE S == {"fetch", "fetched"}
             met == \E u \in Tasks : task[u].op = "rename" \/ task[u].stage \in S
  <2>1. Note(IF met THEN {"crossed"} ELSE {})  BY DEF RenameClick
  <2>2. S = Fetching  BY DEF Fetching
  <2> QED  BY <2>1, <2>2 DEF Note, Noted, Typed, Causes
<1> QED  BY <1>1, <1>3, <1>4, <1>6, <1>7, <1>9, <1>10, <1>11 DEF Called

LEMMA AncestorsTyped ==
    ASSUME NEW nodes \in Nodes, NEW d \in Ids
    PROVE  Ancestors(nodes, d) \in [1..Cardinality(Docs) -> Ids]
<1>1. DOMAIN nodes \subseteq Docs  BY NodesHave
<1> QED  BY <1>1 DEF Ancestors, Ids

LEMMA DeleteClickDoes ==
    ASSUME Typed, DeleteClick
    PROVE  LET k == task'[FirstOf(Slots)] IN
           /\ Called(FirstOf(Slots), "remove") /\ tree.selected # Null /\ k.doc = tree.selected
           /\ k.chain = Ancestors(tree.shown, tree.selected)
           /\ pending' = TRUE /\ UNCHANGED <<row, workspace, tree, remembered, panel, disturbed>>
<1> DEFINE c == Call("remove", tree.selected)
           up == Ancestors(tree.shown, tree.selected)
           k == [c EXCEPT !.chain = up]
<1>1. Start(k) /\ pending' = TRUE /\ UNCHANGED <<workspace, tree, remembered, panel, disturbed>> /\ tree.selected # Null
  BY DEF DeleteClick
<1>2. tree.selected \in Docs /\ tree.selected \in Ids /\ tree.shown \in Nodes
  BY <1>1 DEF Typed, TreeFormed, TreeState, Ids
<1>3. up \in [1..Cardinality(Docs) -> Ids]  BY <1>2, AncestorsTyped
<1> HIDE DEF up
<1>4. /\ c \in Task /\ c.op = "remove" /\ c.workspace = workspace /\ c.doc = tree.selected /\ c.stage = "call"
      /\ c.chain = <<>> /\ c.done = FALSE
  BY <1>2, CallIs DEF Typed, Changing
<1> HIDE DEF c
<1>5. /\ k \in Task /\ k.op = "remove" /\ k.workspace = workspace /\ k.doc = tree.selected /\ k.stage = "call"
      /\ k.chain = up
  BY <1>3, <1>4 DEF Task
<1>6. k.done = FALSE  BY <1>4 DEF Task
<1> HIDE DEF k
<1>7. Formed(k)  BY <1>2, <1>5, <1>6 DEF Formed, Made, Typed, Changing, Fetching, Relisting
<1>8. Started(FirstOf(Slots), k) /\ UNCHANGED row  BY <1>1, <1>5, <1>7, StartDoes
<1>9. task'[FirstOf(Slots)] = k  BY <1>8 DEF Started
<1> QED  BY <1>1, <1>5, <1>6, <1>8, <1>9 DEF Called, up

\* Dragged onto, before or after another, or below all.
LEMMA MoveDoes ==
    ASSUME Typed, NEW d \in Docs,
           (\E x \in Docs, kind \in {"inside", "beside"} : Drop(d, kind, x)) \/ DropBelow(d)
    PROVE  LET k == task'[FirstOf(Slots)] IN
           /\ Called(FirstOf(Slots), "move") /\ k.doc = d /\ d \in DOMAIN tree.shown /\ k.chain = <<>>
           /\ tree' \in TreeState /\ tree'.status = tree.status /\ tree'.run = tree.run
           /\ tree'.snap = tree.snap /\ tree'.selected = tree.selected
           /\ DOMAIN tree'.shown = DOMAIN tree.shown
           /\ \A e \in DOMAIN tree.shown : tree'.shown[e].title = tree.shown[e].title
           /\ pending' = TRUE /\ UNCHANGED <<row, workspace, remembered, panel, disturbed>>
<1>1. tree \in TreeState /\ DOMAIN tree.shown \subseteq Docs /\ tree.shown \in [DOMAIN tree.shown -> Node]
  BY NodesHave DEF Typed, TreeFormed, TreeState
<1>2. \E target : MoveTo(d, target) /\ target.to \in Ids /\ target.beside \in Ids
  <2>1. ASSUME NEW x \in Docs, NEW kind \in {"inside", "beside"}, Drop(d, kind, x)
        PROVE  \E target : MoveTo(d, target) /\ target.to \in Ids /\ target.beside \in Ids
    <3>1. MoveTo(d, MoveTarget(tree.shown, kind, x)) /\ x \in DOMAIN tree.shown
      BY <2>1 DEF Drop
    <3>2. MoveTarget(tree.shown, kind, x).to \in Ids /\ MoveTarget(tree.shown, kind, x).beside \in Ids
      BY <1>1, <3>1 DEF MoveTarget, Ids, Node
    <3> QED  BY <3>1, <3>2
  <2>2. ASSUME DropBelow(d)
        PROVE  \E target : MoveTo(d, target) /\ target.to \in Ids /\ target.beside \in Ids
    BY <2>2 DEF DropBelow, MoveTarget, Ids
  <2> QED  BY <2>1, <2>2
<1>3. PICK target : MoveTo(d, target) /\ target.to \in Ids /\ target.beside \in Ids
  BY <1>2
<1> DEFINE c == Call("move", d)
           k == [c EXCEPT !.to = target.to, !.beside = target.beside]
           nodes == Relocated(tree.shown, d, target.to)
<1>4. /\ Start(k) /\ pending' = TRUE /\ UNCHANGED <<workspace, remembered, panel, disturbed>>
      /\ d \in DOMAIN tree.shown /\ tree' = [tree EXCEPT !.shown = nodes]
  BY <1>3 DEF MoveTo, Shown
<1>5. /\ nodes \in [DOMAIN tree.shown -> Node]
      /\ \A e \in DOMAIN tree.shown : nodes[e].title = tree.shown[e].title
  BY <1>1, <1>3, <1>4 DEF Relocated, Node
<1> HIDE DEF nodes
<1>6. nodes \in Nodes /\ DOMAIN nodes = DOMAIN tree.shown
  BY <1>1, <1>5, NodesAre
<1>7. /\ tree' \in TreeState /\ tree'.status = tree.status /\ tree'.run = tree.run
      /\ tree'.snap = tree.snap /\ tree'.selected = tree.selected /\ tree'.shown = nodes
  BY <1>1, <1>4, <1>6 DEF TreeState
<1>8. /\ c \in Task /\ c.op = "move" /\ c.workspace = workspace /\ c.doc = d /\ c.stage = "call"
      /\ c.chain = <<>> /\ c.done = FALSE
  BY CallIs DEF Typed, Ids, Changing
<1> HIDE DEF c
<1>9. /\ k \in Task /\ k.op = "move" /\ k.workspace = workspace /\ k.doc = d /\ k.stage = "call"
      /\ k.chain = <<>>
  BY <1>3, <1>8 DEF Task
<1>10. k.done = FALSE  BY <1>8 DEF Task
<1> HIDE DEF k
<1>11. Formed(k)  BY <1>9, <1>10 DEF Formed, Made, Typed, Changing, Fetching, Relisting
<1>12. Started(FirstOf(Slots), k) /\ UNCHANGED row  BY <1>4, <1>9, <1>11, StartDoes
<1>13. task'[FirstOf(Slots)] = k  BY <1>12 DEF Started
<1> QED  BY <1>4, <1>5, <1>6, <1>7, <1>9, <1>10, <1>12, <1>13 DEF Called

\* A node of the tree or of the breadcrumb is selected.
LEMMA SelectDoes ==
    ASSUME Typed, NEW d \in Docs, Select(d)
    PROVE  /\ tree' \in TreeState /\ tree'.status = tree.status /\ tree'.run = tree.run
           /\ tree'.snap = tree.snap /\ tree'.shown = tree.shown /\ tree'.selected = d
           /\ (tree.status = "ready" /\ d \in DOMAIN tree.shown) \/ d \in Crumbs
           /\ remembered' = [remembered EXCEPT ![workspace] = d]
           /\ UNCHANGED <<row, workspace, pending, panel, task, disturbed>>
<1>1. tree \in TreeState  BY DEF Typed, TreeFormed
<1>2. tree' = [tree EXCEPT !.selected = d]  BY DEF Select
<1>3. /\ tree' \in TreeState /\ tree'.status = tree.status /\ tree'.run = tree.run
      /\ tree'.snap = tree.snap /\ tree'.shown = tree.shown /\ tree'.selected = d
  BY <1>1, <1>2 DEF TreeState, Ids
<1> QED  BY <1>3 DEF Select, Remembering

LEMMA ListLoadFormed ==
    ASSUME NEW w \in Workspaces
    PROVE  /\ List(w) \in Task /\ Formed(List(w)) /\ List(w).op = "list" /\ List(w).stage = "list"
           /\ List(w).workspace = w /\ List(w).done = FALSE /\ List(w).chain = <<>>
           /\ Load(w) \in Task /\ Formed(Load(w)) /\ Load(w).op = "load" /\ Load(w).stage = "fetch"
           /\ Load(w).workspace = w /\ Load(w).done = FALSE /\ Load(w).chain = <<>>
<1> DEFINE i == List(w)
           j == Load(w)
<1>1. /\ i \in Task /\ i.op = "list" /\ i.stage = "list" /\ i.workspace = w /\ i.chain = <<>>
      /\ j \in Task /\ j.op = "load" /\ j.stage = "fetch" /\ j.workspace = w /\ j.chain = <<>>
  BY NoTaskFormed DEF List, Load, NoTask, Task, Fetching, Relisting
<1>2. i.done = FALSE /\ j.done = FALSE
  BY DEF List, Load, NoTask
<1>3. Formed(i) /\ Formed(j)
  <2> HIDE DEF i, j
  <2> QED  BY <1>1, <1>2 DEF Formed, Made, Fetching, Relisting
<1> QED  BY <1>1, <1>2, <1>3

LEMMA ShowTrashDoes ==
    ASSUME Typed, ShowTrash
    PROVE  LET t == FirstOf(Slots) IN
           /\ panel.mode = "active"
           /\ Started(t, List(workspace))
           /\ panel' \in PanelState /\ panel'.status = "loading" /\ panel'.run = t /\ panel'.mode = "trash"
           /\ UNCHANGED <<row, workspace, tree, remembered, pending, disturbed>>
<1> DEFINE t == FirstOf(Slots)
           k == List(workspace)
<1>1. /\ Start(k) /\ UNCHANGED <<workspace, tree, remembered, pending, disturbed>>
      /\ panel' = [panel EXCEPT !.mode = "trash", !.picked = Null, !.status = "loading", !.run = t]
  BY DEF ShowTrash
<1>2. k \in Task /\ Formed(k)
  BY ListLoadFormed DEF Typed
<1> HIDE DEF k
<1>3. Started(t, k) /\ UNCHANGED row  BY <1>1, <1>2, StartDoes
<1>4. t \in Tasks  BY <1>3 DEF Started
<1> HIDE DEF t
<1>5. panel' \in PanelState /\ panel'.status = "loading" /\ panel'.run = t /\ panel'.mode = "trash"
  BY <1>1, <1>4 DEF Typed, PanelFormed, PanelState, Status, Ids
<1> QED  BY <1>1, <1>3, <1>5 DEF ShowTrash, Editing, t, k

\* What changes only what the panel shows.
LEMMA PanelDoes ==
    ASSUME Typed, ShowDocuments \/ (\E d \in Docs : Pick(d))
    PROVE  /\ panel' \in PanelState /\ panel'.run = (IF ShowDocuments THEN Null ELSE panel.run)
           /\ panel'.status = "ready" /\ panel.mode = "trash"
           /\ \/ panel'.mode = "active"
              \/ panel.status = "ready" /\ panel'.mode = panel.mode /\ panel'.bundles = panel.bundles
           /\ UNCHANGED <<row, workspace, tree, remembered, pending, task, disturbed>>
<1>1. CASE ShowDocuments
  BY <1>1, ActivePanelFormed DEF ShowDocuments
<1>2. CASE ~ShowDocuments
  <2>1. PICK d \in Docs : Pick(d)  BY <1>2
  <2>2. panel' = [panel EXCEPT !.picked = d] /\ panel.mode = "trash" /\ panel.status = "ready"
        /\ UNCHANGED <<row, workspace, tree, remembered, pending, task, disturbed>>
    BY <2>1 DEF Pick
  <2> QED  BY <1>2, <2>2 DEF Typed, PanelFormed, PanelState, Ids
<1> QED  BY <1>1, <1>2

LEMMA TrashClickDoes ==
    ASSUME Typed, NEW op \in Emptying, TrashClick(op)
    PROVE  LET k == task'[FirstOf(Slots)] IN
           /\ Called(FirstOf(Slots), op) /\ k.doc = panel.picked /\ k.doc \in Docs /\ k.chain = <<>>
           /\ UNCHANGED <<row, workspace, tree, remembered, pending, panel>>
           /\ Noted /\ (row[k.doc].workspace # workspace => "foreign" \in disturbed')
           /\ "adrift" \in disturbed' => "adrift" \in disturbed
<1> DEFINE k == Call(op, panel.picked)
<1>1. /\ Start(k) /\ UNCHANGED <<workspace, tree, remembered, pending, panel>>
      /\ panel.picked \in DOMAIN panel.bundles
      /\ Note(IF row[panel.picked].workspace = workspace THEN {} ELSE {"foreign"})
  BY DEF TrashClick
<1>2. panel.picked \in Docs /\ panel.picked \in Ids
  BY <1>1, BundlesHave DEF Typed, PanelFormed, PanelState, Ids
<1>3. /\ k \in Task /\ k.op = op /\ k.workspace = workspace /\ k.doc = panel.picked /\ k.stage = "call"
      /\ k.chain = <<>> /\ k.done = FALSE
  <2>1. op \in Changing \cup Emptying /\ workspace \in Workspaces
    BY DEF Typed
  <2> QED  BY <1>2, <2>1, CallIs
<1> HIDE DEF k
<1>4. Formed(k)  BY <1>2, <1>3 DEF Formed, Made, Typed, Emptying, Fetching, Relisting
<1>5. Started(FirstOf(Slots), k) /\ UNCHANGED row  BY <1>1, <1>3, <1>4, StartDoes
<1>6. task'[FirstOf(Slots)] = k  BY <1>5 DEF Started
<1>7. Noted /\ (row[panel.picked].workspace # workspace => "foreign" \in disturbed')
      /\ ("adrift" \in disturbed' => "adrift" \in disturbed)
  BY <1>1 DEF Typed, Note, Noted, Causes
<1> QED  BY <1>1, <1>2, <1>3, <1>5, <1>6, <1>7 DEF Called

\* Two slots are given functions, or one.
LEMMA SwitchDoes ==
    ASSUME Typed, NEW w \in Workspaces, Switch(w)
    PROVE  LET t == FirstOf(Slots)
               u == FirstOf(Slots \ {t}) IN
           /\ w # workspace /\ workspace' = w /\ UNCHANGED <<row, remembered, pending>>
           /\ t \in Tasks /\ task[t].op = "none" /\ task[t].stage = "none"
           /\ TasksFormed' /\ task'[t] = Load(w)
           /\ tree' \in TreeState /\ tree'.status = "loading" /\ tree'.run = t /\ tree'.selected = Null
           /\ tree'.snap = tree.snap /\ tree'.shown = tree.shown
           /\ \/ panel.mode = "active" /\ UNCHANGED panel /\ Others(t)
              \/ /\ panel.mode = "trash"
                 /\ u \in Tasks \ {t} /\ task[u].op = "none" /\ task[u].stage = "none" /\ task'[u] = List(w)
                 /\ \A v \in Tasks \ {t, u} : task'[v] = task[v]
                 /\ Awaiting(panel', u)
           /\ Note(Begun(workspace))
<1> DEFINE t == FirstOf(Slots)
           u == FirstOf(Slots \ {t})
           i == Load(w)
           j == List(w)
<1>1. /\ w # workspace /\ workspace' = w /\ Slots # {} /\ UNCHANGED <<row, remembered, pending>>
      /\ tree' = Turned(t) /\ Note(Begun(workspace))
      /\ \/ panel.mode = "active" /\ Put(t, i) /\ UNCHANGED panel
         \/ /\ panel.mode = "trash" /\ Cardinality(Slots) > 1
            /\ task' = [task EXCEPT ![t] = i, ![u] = j]
            /\ panel' = [panel EXCEPT !.status = "loading", !.run = u]
  BY DEF Switch, Click
<1>2. t \in Slots /\ Slots \subseteq Tasks
  BY <1>1, FirstOfIn DEF Slots
<1>3. \A s \in Slots : s \in Tasks /\ task[s].op = "none" /\ task[s].stage = "none"
  BY DEF Slots, Typed, TasksFormed, Formed
<1>4. tree' \in TreeState /\ tree'.status = "loading" /\ tree'.run = t /\ tree'.selected = Null
      /\ tree'.snap = tree.snap /\ tree'.shown = tree.shown
  <2>1. tree \in TreeState /\ t \in Tasks  BY <1>2 DEF Typed, TreeFormed
  <2> HIDE DEF t
  <2> QED  BY <1>1, <2>1 DEF Turned, Loading, TreeState, Status, Ids
<1>5. i \in Task /\ Formed(i) /\ j \in Task /\ Formed(j)  BY ListLoadFormed
<1>6. CASE panel.mode = "active"
  <2>1. Put(t, i) /\ UNCHANGED panel  BY <1>1, <1>6
  <2>2. TasksFormed' /\ task'[t] = i /\ Others(t)
    BY <1>2, <1>5, <2>1, PutDoes DEF Typed
  <2> HIDE DEF t, u, i, j
  <2>3. t \in Tasks /\ task[t].op = "none" /\ task[t].stage = "none"  BY <1>2, <1>3
  <2> USE DEF t, u, i, j
  <2> QED  BY <1>1, <1>4, <1>6, <2>1, <2>2, <2>3
<1>7. CASE panel.mode # "active"
  <2>1. /\ panel.mode = "trash" /\ Cardinality(Slots) > 1 /\ task' = [task EXCEPT ![t] = i, ![u] = j]
        /\ panel' = [panel EXCEPT !.status = "loading", !.run = u]
    BY <1>1, <1>7
  <2>2. Slots \ {t} # {}
    <3>1. Cardinality({t}) = 1 /\ Cardinality({}) = 0  BY FS_Singleton, FS_EmptySet
    <3>2. ASSUME Slots \ {t} = {} PROVE FALSE
      <4>1. Slots = {t}  BY <1>2, <3>2
      <4> QED  BY <2>1, <3>1, <4>1
    <3> QED  BY <3>2
  <2>3. u \in Slots \ {t}
    <3>1. Slots \ {t} \subseteq Tasks  BY <1>2
    <3> HIDE DEF t
    <3> QED  BY <2>2, <3>1, FirstOfIn
  <2> HIDE DEF t, u, i, j
  <2>4. /\ t \in Tasks /\ task[t].op = "none" /\ task[t].stage = "none"
        /\ u \in Tasks \ {t} /\ task[u].op = "none" /\ task[u].stage = "none"
    BY <1>2, <1>3, <2>3
  <2>5. TasksFormed' /\ task'[t] = i /\ task'[u] = j /\ \A v \in Tasks \ {t, u} : task'[v] = task[v]
    BY <1>5, <2>1, <2>4 DEF Typed, TasksFormed
  <2>6. Awaiting(panel', u)
    BY <2>1, <2>4 DEF Typed, PanelFormed, PanelState, Status, Awaiting
  <2> USE DEF t, u, i, j
  <2> QED  BY <1>1, <1>4, <2>1, <2>4, <2>5, <2>6
<1> QED  BY <1>6, <1>7
---------------------------------------------------------------------------
(***************************************************************************)
(* The types, and what is waited for.                                      *)
(***************************************************************************)
LEMMA InitRows == Init => Rows
<1> SUFFICES ASSUME Init PROVE Rows
  OBVIOUS
<1> DEFINE title == CHOOSE x \in Titles : TRUE
<1>1. title \in Titles  BY IdsAssumption
<1>2. row \in [Docs -> [workspace: Workspaces, parent_id: Ids, title: {title},
                        status: {"active", "trashed"}, bundle: Ids] \cup {NoRow}]
  BY DEF Init
<1> HIDE DEF title
<1>3. NoRow \in Row /\ NoRow.status = "absent"  BY DEF NoRow, Row, Ids
<1>4. row \in [Docs -> Row]  BY <1>1, <1>2, <1>3 DEF Row
<1>5. \A d \in Docs : IF row[d].status = "absent" THEN row[d] = NoRow
                      ELSE row[d].workspace \in Workspaces /\ row[d].title \in Titles
  BY <1>1, <1>2, <1>3
<1>6. Rooted(row)
  <2> DEFINE Good(d) == row[d].bundle \in Docs /\ row[row[d].bundle].status = "trashed"
                                               /\ row[row[d].bundle].bundle = row[d].bundle
             Bad == {d \in Docs : row[d].status = "trashed" /\ ~Good(d)}
  <2>1. ASSUME Bad # {} PROVE FALSE
    <3>1. PICK d \in Bad : \A e \in Bad : d <= e
      <4>1. Bad \subseteq Nat  BY IdsAssumption
      <4> QED  BY <2>1, <4>1, LeastExists
    <3> DEFINE p == row[d].parent_id
    <3>2. d \in Docs /\ row[d].status = "trashed" /\ ~Good(d)  BY <3>1
    <3>3. /\ p \in Ids /\ (p # Null => p < d)
          /\ row[d].bundle = IF p # Null /\ row[p].status = "trashed" THEN row[p].bundle ELSE d
      BY <1>4, <3>2 DEF Init, Row
    <3>4. CASE p # Null /\ row[p].status = "trashed"
      <4>1. p \in Docs /\ p < d  BY <3>3, <3>4 DEF Ids
      <4>2. p \notin Bad
        <5>1. p \in Nat /\ d \in Nat  BY <3>2, <4>1, IdsAssumption
        <5>2. ~(d <= p)  BY <4>1, <5>1
        <5> QED  BY <3>1, <5>2
      <4>3. Good(p)  BY <3>4, <4>1, <4>2
      <4> QED  BY <3>2, <3>3, <3>4, <4>3
    <3>5. CASE ~(p # Null /\ row[p].status = "trashed")
      BY <3>2, <3>3, <3>5
    <3> QED  BY <3>4, <3>5
  <2> QED  BY <2>1 DEF Rooted
<1> QED  BY <1>4, <1>5, <1>6 DEF Rows

LEMMA InitTyped == Init => Typed
<1> SUFFICES ASSUME Init PROVE Typed
  OBVIOUS
<1> DEFINE t == FirstOf(Tasks)
<1>1. t \in Tasks  BY IdsAssumption, FirstOfIn
<1>2. workspace \in Workspaces /\ remembered \in [Workspaces -> Ids] /\ disturbed \subseteq Causes
  BY IdsAssumption DEF Init, Ids
<1>3. /\ task = [u \in Tasks |-> IF u = t THEN Load(workspace) ELSE NoTask]
      /\ tree = [status |-> "loading", snap |-> <<>>, shown |-> <<>>, selected |-> Null, run |-> t]
      /\ pending = FALSE /\ panel = ActivePanel
  BY DEF Init
<1> HIDE DEF t
<1>4. TasksFormed
  BY <1>2, <1>3, NoTaskFormed, ListLoadFormed DEF TasksFormed
<1>5. task[t].stage \in Fetching /\ t # Null
  BY <1>1, <1>2, <1>3, ListLoadFormed, NullAssumption DEF Fetching
<1>6. TreeFormed
  BY <1>1, <1>3, <1>5, EmptyNodes DEF TreeFormed, TreeState, Status, Ids
<1>7. PanelFormed /\ PendingFormed
  BY <1>3, ActivePanelFormed DEF PanelFormed, PendingFormed
<1> QED  BY <1>2, <1>4, <1>6, <1>7, InitRows DEF Typed

\* The tree waits for what it waited for, or for what has just started.
LEMMA TreeKept ==
    ASSUME TreeFormed, tree' \in TreeState, DOMAIN tree'.snap = DOMAIN tree'.shown,
           tree'.run = tree.run, tree'.status = tree.status,
           NEW t \in Tasks, Others(t), task[t].stage \in Fetching => task'[t].stage \in Fetching
    PROVE  TreeFormed'
<1>1. tree.run \in Tasks \cup {Null}  BY DEF TreeFormed, TreeState
<1> QED  BY <1>1 DEF TreeFormed, Others

LEMMA TreeWaits ==
    ASSUME tree' \in TreeState, DOMAIN tree'.snap = DOMAIN tree'.shown,
           NEW t \in Tasks, tree'.run = t, tree'.status = "loading", task'[t].stage \in Fetching
    PROVE  TreeFormed'
BY NullAssumption DEF TreeFormed

LEMMA PanelKept ==
    ASSUME PanelFormed, panel' \in PanelState, panel'.run = panel.run, panel'.status = panel.status,
           NEW t \in Tasks, Others(t), task[t].stage \in Relisting => task'[t].stage \in Relisting
    PROVE  PanelFormed'
<1>1. panel.run \in Tasks \cup {Null}  BY DEF PanelFormed, PanelState
<1> QED  BY <1>1 DEF PanelFormed, Others

LEMMA PanelWaits ==
    ASSUME panel' \in PanelState,
           NEW t \in Tasks, panel'.run = t, panel'.status = "loading", task'[t].stage \in Relisting
    PROVE  PanelFormed'
BY NullAssumption DEF PanelFormed

LEMMA PendingKept ==
    ASSUME PendingFormed, pending' = pending, NEW t \in Tasks, Others(t),
           task[t].op \in Changing => task'[t].op \in Changing
    PROVE  PendingFormed'
BY DEF PendingFormed, Others

LEMMA PendingStarts ==
    ASSUME pending' = TRUE, NEW t \in Tasks, task'[t].op \in Changing
    PROVE  PendingFormed'
BY DEF PendingFormed

LEMMA ServerTyped ==
    ASSUME Typed, NEW t \in Tasks, Server(t)
    PROVE  Typed'
<1>1. TreeFormed /\ PanelFormed /\ PendingFormed /\ tree \in TreeState /\ panel \in PanelState
      /\ DOMAIN tree.snap = DOMAIN tree.shown
  BY DEF Typed, TreeFormed, PanelFormed
<1>2. ASSUME NEW answered \in BOOLEAN, Handle(t, answered) PROVE Typed'
  <2>1. task[t].stage \notin Fetching \cup Relisting /\ task'[t].op = task[t].op
    BY <1>2, HandleDoes DEF Fetching, Relisting, Later
  <2>2. Others(t) /\ UNCHANGED <<tree, panel, pending>>  BY <1>2, HandleDoes
  <2>3. TreeFormed' /\ PanelFormed' /\ PendingFormed'
    BY <1>1, <2>1, <2>2, TreeKept, PanelKept, PendingKept
  <2> QED  BY <1>2, <2>3, HandleDoes DEF Typed, Noted
<1>3. ASSUME NEW answered \in BOOLEAN, Read(t, answered) PROVE Typed'
  <2>1. task[t].stage \in Fetching => task'[t].stage \in Fetching
    BY <1>3, ReadDoes DEF Fetching
  <2>2. task[t].stage \in Relisting => task'[t].stage \in Relisting
    BY <1>3, ReadDoes DEF Relisting
  <2>3. Others(t) /\ UNCHANGED <<tree, panel, pending>> /\ task'[t].op = task[t].op
    BY <1>3, ReadDoes DEF Later
  <2>4. TreeFormed' /\ PanelFormed' /\ PendingFormed'
    BY <1>1, <2>1, <2>2, <2>3, TreeKept, PanelKept, PendingKept
  <2>5. TasksFormed' /\ UNCHANGED <<row, workspace, remembered, disturbed>>  BY <1>3, ReadDoes
  <2> QED  BY <2>4, <2>5 DEF Typed, Rows
<1>4. ASSUME Fail(t) PROVE Typed'
  <2>1. task[t].stage \notin Fetching \cup Relisting /\ task'[t].op = task[t].op
    BY <1>4, FailDoes DEF Fetching, Relisting, Later
  <2>2. Others(t) /\ UNCHANGED <<tree, panel, pending>>  BY <1>4, FailDoes
  <2>3. TreeFormed' /\ PanelFormed' /\ PendingFormed'
    BY <1>1, <2>1, <2>2, TreeKept, PanelKept, PendingKept
  <2>4. TasksFormed' /\ UNCHANGED <<row, workspace, remembered, disturbed>>  BY <1>4, FailDoes
  <2> QED  BY <2>3, <2>4 DEF Typed, Rows
<1> QED  BY <1>2, <1>3, <1>4 DEF Server

LEMMA PageTyped ==
    ASSUME Typed, NEW t \in Tasks, Page(t)
    PROVE  Typed'
<1>1. /\ TreeFormed /\ PanelFormed /\ PendingFormed /\ tree \in TreeState /\ panel \in PanelState
      /\ DOMAIN tree.snap = DOMAIN tree.shown /\ task[t] \in Task /\ Formed(task[t])
  BY DEF Typed, TreeFormed, PanelFormed, TasksFormed
<1> DEFINE k == task[t]
<1>2. ASSUME Reloaded(t) PROVE Typed'
  <2> DEFINE n == Landed(t)
  <2>1. /\ k.stage = "fetched" /\ TasksFormed' /\ Others(t) /\ task'[t].op = "none"
        /\ UNCHANGED <<row, workspace, panel>> /\ Noted
        /\ tree' \in TreeState /\ tree'.status = n.status /\ tree'.run = n.run
        /\ tree'.snap = n.snap /\ tree'.shown = n.shown
        /\ pending' = (pending /\ k.op \notin {"create", "remove", "move"})
    BY <1>2, ReloadedDoes
  <2>2. TreeFormed'
    <3>1. DOMAIN tree'.snap = DOMAIN tree'.shown  BY <2>1, LandedDoes
    <3>2. CASE tree.run = t
      <4>1. tree'.run = Null /\ tree'.status # "loading"  BY <2>1, <3>2, LandedDoes
      <4> QED  BY <2>1, <3>1, <4>1 DEF TreeFormed
    <3>3. CASE tree.run # t
      <4>1. tree'.run = tree.run /\ tree'.status = tree.status  BY <2>1, <3>3, LandedDoes
      <4>2. tree.run \in Tasks \cup {Null}  BY <1>1 DEF TreeState
      <4> QED  BY <1>1, <2>1, <3>1, <3>3, <4>1, <4>2 DEF TreeFormed, Others
    <3> QED  BY <3>2, <3>3
  <2>3. PanelFormed'
    <3>1. k.stage \notin Relisting  BY <2>1 DEF Relisting
    <3> QED  BY <1>1, <2>1, <3>1, PanelKept
  <2>4. PendingFormed'
    <3>1. CASE pending'
      <4>1. pending /\ k.op \notin {"create", "remove", "move"}  BY <2>1, <3>1
      <4>2. k.op \notin Changing  BY <1>1, <2>1, <4>1 DEF Formed, Fetching, Changing
      <4>3. pending' = pending  BY <1>1, <3>1, <4>1, <2>1 DEF PendingFormed
      <4> QED  BY <1>1, <2>1, <4>2, <4>3, PendingKept
    <3>2. CASE ~pending'  BY <2>1, <3>2 DEF PendingFormed
    <3> QED  BY <3>1, <3>2
  <2>5. workspace' \in Workspaces /\ remembered' \in [Workspaces -> Ids] /\ disturbed' \subseteq Causes /\ Rows'
    <3>1. \/ remembered' = remembered
          \/ remembered' = [remembered EXCEPT ![k.workspace] = tree'.selected]
      BY <1>2, ReloadedDoes
    <3>2. tree'.selected \in Ids  BY <2>1 DEF TreeState
    <3>3. remembered' \in [Workspaces -> Ids]  BY <3>1, <3>2 DEF Typed
    <3> QED  BY <2>1, <3>3 DEF Typed, Noted, Rows
  <2> QED  BY <2>1, <2>2, <2>3, <2>4, <2>5 DEF Typed
<1>3. ASSUME Confirmed(t) PROVE Typed'
  <2>1. /\ k.stage = "answer" /\ TasksFormed' /\ Others(t) /\ task'[t].stage = "fetch"
        /\ task'[t].op = k.op /\ tree' = Loading(t) /\ Note(Begun(k.workspace))
        /\ UNCHANGED <<row, workspace, remembered, pending, panel>>
    BY <1>3, ConfirmedDoes DEF Later
  <2>2. k.stage \notin Relisting /\ task'[t].stage \in Fetching  BY <2>1 DEF Relisting, Fetching
  <2>3. TreeFormed'  BY <1>1, <2>1, <2>2, LoadingDoes, TreeWaits
  <2>4. PanelFormed'  BY <1>1, <2>1, <2>2, PanelKept
  <2>5. PendingFormed'  BY <1>1, <2>1, PendingKept
  <2>6. Noted  BY <2>1, BegunDoes DEF Typed
  <2> QED  BY <2>1, <2>3, <2>4, <2>5, <2>6 DEF Typed, Noted, Rows
<1>4. ASSUME Finished(t) \/ Undone(t) PROVE Typed'
  <2>1. /\ k.stage = "answer" /\ TasksFormed' /\ Others(t) /\ pending' = FALSE /\ Noted
        /\ UNCHANGED <<row, workspace, remembered, panel>>
        /\ tree' \in TreeState /\ DOMAIN tree'.snap = DOMAIN tree'.shown
        /\ tree'.run = tree.run /\ tree'.status = tree.status
    BY <1>1, <1>4, FinishedDoes, UndoneDoes DEF Noted, Typed
  <2>2. k.stage \notin Fetching \cup Relisting  BY <2>1 DEF Fetching, Relisting
  <2>3. TreeFormed' /\ PanelFormed'  BY <1>1, <2>1, <2>2, TreeKept, PanelKept
  <2>4. PendingFormed'  BY <2>1 DEF PendingFormed
  <2> QED  BY <2>1, <2>3, <2>4 DEF Typed, Noted, Rows
<1>5. ASSUME TrashAnswered(t) PROVE Typed'
  <2>1. /\ k.stage = "answer" /\ TasksFormed' /\ Others(t) /\ task'[t].stage = "list"
        /\ task'[t].op = k.op /\ Awaiting(panel', t) /\ Noted
        /\ UNCHANGED <<row, workspace, tree, remembered, pending>>
    BY <1>5, TrashAnsweredDoes DEF Later
  <2>2. k.stage \notin Fetching /\ task'[t].stage \in Relisting  BY <2>1 DEF Relisting, Fetching
  <2>3. TreeFormed' /\ PanelFormed' /\ PendingFormed'
    BY <1>1, <2>1, <2>2, TreeKept, PanelWaits, PendingKept DEF Awaiting
  <2> QED  BY <2>1, <2>3 DEF Typed, Noted, Rows
<1>6. ASSUME Listed(t) PROVE Typed'
  <2>1. /\ k.stage = "listed" /\ UNCHANGED <<row, workspace, remembered, pending>>
        /\ TasksFormed' /\ Others(t) /\ panel' \in PanelState
        /\ \/ panel'.run = Null /\ panel'.status # "loading"
           \/ panel.run # t /\ panel'.status = panel.status /\ panel'.run = panel.run
    BY <1>6, ListedDoes
  <2>2. /\ k.op \notin Changing /\ k.stage \notin Fetching
        /\ \/ task'[t].stage = "fetch" /\ tree' = Loading(t) /\ Note(Begun(k.workspace))
           \/ UNCHANGED <<tree, disturbed>>
    <3>1. k.op \notin Changing /\ k.stage \notin Fetching
      BY <1>1, <2>1 DEF Formed, Relisting, Emptying, Changing, Fetching
    <3> QED  BY <1>6, <3>1, ListedDoes
  <2>3. TreeFormed' /\ Noted
    <3>1. CASE task'[t].stage = "fetch" /\ tree' = Loading(t) /\ Note(Begun(k.workspace))
      BY <1>1, <3>1, LoadingDoes, TreeWaits, BegunDoes DEF Fetching, Typed
    <3>2. CASE UNCHANGED <<tree, disturbed>>
      BY <1>1, <2>1, <2>2, <3>2, TreeKept DEF Noted, Typed
    <3> QED  BY <2>2, <3>1, <3>2
  <2>4. PanelFormed'
    <3>1. CASE panel'.run = Null /\ panel'.status # "loading"
      BY <2>1, <3>1 DEF PanelFormed
    <3>2. CASE panel.run # t /\ panel'.status = panel.status /\ panel'.run = panel.run
      <4>1. panel.run \in Tasks \cup {Null}  BY <1>1 DEF PanelState
      <4> QED  BY <1>1, <2>1, <3>2, <4>1 DEF PanelFormed, Others
    <3> QED  BY <2>1, <3>1, <3>2
  <2>5. PendingFormed'  BY <1>1, <2>1, <2>2, PendingKept
  <2> QED  BY <2>1, <2>3, <2>4, <2>5 DEF Typed, Noted, Rows
<1> QED  BY <1>2, <1>3, <1>4, <1>5, <1>6 DEF Page

LEMMA UserTyped ==
    ASSUME Typed, User
    PROVE  Typed'
<1> DEFINE t == FirstOf(Slots)
<1>1. /\ TreeFormed /\ PanelFormed /\ PendingFormed /\ tree \in TreeState /\ panel \in PanelState
      /\ DOMAIN tree.snap = DOMAIN tree.shown /\ Rows /\ TasksFormed
      /\ workspace \in Workspaces /\ remembered \in [Workspaces -> Ids] /\ disturbed \subseteq Causes
  BY DEF Typed, TreeFormed, PanelFormed
<1>2. ASSUME UNCHANGED <<row, workspace, remembered>>, Noted \/ UNCHANGED disturbed,
             TasksFormed', TreeFormed', PanelFormed', PendingFormed'
      PROVE  Typed'
  BY <1>1, <1>2 DEF Typed, Noted, Rows
<1>3. ASSUME NEW op, Called(t, op)
      PROVE  /\ t \in Tasks /\ TasksFormed' /\ Others(t) /\ task'[t].op = op
             /\ task[t].stage \notin Fetching \cup Relisting /\ task[t].op \notin Changing
  BY <1>3 DEF Called, Started, Fetching, Relisting, Changing
<1>4. ASSUME NEW p \in Ids, NEW title \in Titles, CreateClick(p, title) PROVE Typed'
  <2>1. Called(t, "create") /\ pending' = TRUE /\ UNCHANGED <<row, workspace, tree, remembered, panel, disturbed>>
    BY <1>4, CreateClickDoes
  <2> HIDE DEF t
  <2>2. TreeFormed' /\ PanelFormed' /\ PendingFormed'
    BY <1>1, <1>3, <2>1, TreeKept, PanelKept, PendingStarts DEF Changing
  <2> QED  BY <1>2, <1>3, <2>1, <2>2
<1>5. ASSUME NEW title \in Titles, RenameClick(title) PROVE Typed'
  <2>1. /\ Called(t, "rename") /\ pending' = TRUE /\ UNCHANGED <<row, workspace, remembered, panel>> /\ Noted
        /\ tree' \in TreeState /\ tree'.status = tree.status /\ tree'.run = tree.run
        /\ tree'.snap = tree.snap /\ DOMAIN tree'.shown = DOMAIN tree.shown
    BY <1>5, RenameClickDoes
  <2> HIDE DEF t
  <2>2. TreeFormed' /\ PanelFormed' /\ PendingFormed'
    BY <1>1, <1>3, <2>1, TreeKept, PanelKept, PendingStarts DEF Changing
  <2> QED  BY <1>2, <1>3, <2>1, <2>2
<1>6. ASSUME DeleteClick PROVE Typed'
  <2>1. Called(t, "remove") /\ pending' = TRUE /\ UNCHANGED <<row, workspace, tree, remembered, panel, disturbed>>
    BY <1>6, DeleteClickDoes
  <2> HIDE DEF t
  <2>2. TreeFormed' /\ PanelFormed' /\ PendingFormed'
    BY <1>1, <1>3, <2>1, TreeKept, PanelKept, PendingStarts DEF Changing
  <2> QED  BY <1>2, <1>3, <2>1, <2>2
<1>7. ASSUME NEW d \in Docs,
             (\E x \in Docs, kind \in {"inside", "beside"} : Drop(d, kind, x)) \/ DropBelow(d)
      PROVE  Typed'
  <2>1. /\ Called(t, "move") /\ pending' = TRUE /\ UNCHANGED <<row, workspace, remembered, panel, disturbed>>
        /\ tree' \in TreeState /\ tree'.status = tree.status /\ tree'.run = tree.run
        /\ tree'.snap = tree.snap /\ DOMAIN tree'.shown = DOMAIN tree.shown
    BY <1>7, MoveDoes
  <2> HIDE DEF t
  <2>2. TreeFormed' /\ PanelFormed' /\ PendingFormed'
    BY <1>1, <1>3, <2>1, TreeKept, PanelKept, PendingStarts DEF Changing
  <2> QED  BY <1>2, <1>3, <2>1, <2>2
<1>8. ASSUME NEW d \in Docs, Select(d) PROVE Typed'
  <2>1. /\ tree' \in TreeState /\ tree'.status = tree.status /\ tree'.run = tree.run
        /\ tree'.snap = tree.snap /\ tree'.shown = tree.shown
        /\ remembered' = [remembered EXCEPT ![workspace] = d]
        /\ UNCHANGED <<row, workspace, pending, panel, task, disturbed>>
    BY <1>8, SelectDoes
  <2>2. remembered' \in [Workspaces -> Ids]  BY <1>1, <2>1 DEF Ids
  <2>3. TreeFormed'  BY <1>1, <2>1 DEF TreeFormed
  <2> QED  BY <1>1, <2>1, <2>2, <2>3 DEF Typed, Rows, TasksFormed, PanelFormed, PendingFormed
<1>9. ASSUME ShowDocuments \/ (\E d \in Docs : Pick(d)) PROVE Typed'
  <2>1. /\ panel' \in PanelState /\ panel'.run = (IF ShowDocuments THEN Null ELSE panel.run)
        /\ panel'.status = "ready" /\ (ShowDocuments \/ panel.status = "ready")
        /\ UNCHANGED <<row, workspace, tree, remembered, pending, task, disturbed>>
    BY <1>9, PanelDoes DEF Pick
  <2>2. panel'.run = Null  BY <1>1, <2>1 DEF PanelFormed
  <2>3. PanelFormed'  BY <2>1, <2>2 DEF PanelFormed
  <2> QED  BY <1>1, <2>1, <2>3 DEF Typed, Rows, TasksFormed, TreeFormed, PendingFormed
<1>10. ASSUME ShowTrash PROVE Typed'
  <2>1. /\ Started(t, List(workspace))
        /\ panel' \in PanelState /\ panel'.status = "loading" /\ panel'.run = t
        /\ UNCHANGED <<row, workspace, tree, remembered, pending, disturbed>>
    BY <1>10, ShowTrashDoes
  <2> HIDE DEF t
  <2>2. /\ t \in Tasks /\ TasksFormed' /\ Others(t) /\ task'[t].stage = "list"
        /\ task[t].stage \notin Fetching /\ task[t].op \notin Changing
    BY <1>1, <2>1, ListLoadFormed DEF Started, Fetching, Changing
  <2>3. TreeFormed' /\ PanelFormed' /\ PendingFormed'
    BY <1>1, <2>1, <2>2, TreeKept, PanelWaits, PendingKept DEF Relisting
  <2> QED  BY <1>2, <2>1, <2>2, <2>3
<1>11. ASSUME RestoreClick \/ PurgeClick PROVE Typed'
  <2>1. PICK op \in Emptying : TrashClick(op)
    BY <1>11 DEF RestoreClick, PurgeClick, Emptying
  <2>2. Called(t, op) /\ Noted /\ UNCHANGED <<row, workspace, tree, remembered, pending, panel>>
    BY <2>1, TrashClickDoes
  <2> HIDE DEF t
  <2>3. TreeFormed' /\ PanelFormed' /\ PendingFormed'
    BY <1>1, <1>3, <2>2, TreeKept, PanelKept, PendingKept
  <2> QED  BY <1>2, <1>3, <2>2, <2>3
<1>12. ASSUME NEW w \in Workspaces, Switch(w) PROVE Typed'
  <2> DEFINE u == FirstOf(Slots \ {t})
  <2>1. /\ workspace' = w /\ UNCHANGED <<row, remembered, pending>>
        /\ t \in Tasks /\ task[t].op = "none" /\ task[t].stage = "none"
        /\ TasksFormed' /\ task'[t] = Load(w)
        /\ tree' \in TreeState /\ tree'.status = "loading" /\ tree'.run = t
        /\ tree'.snap = tree.snap /\ tree'.shown = tree.shown /\ Note(Begun(workspace))
        /\ \/ UNCHANGED panel /\ Others(t)
           \/ /\ u \in Tasks \ {t} /\ task[u].op = "none" /\ task[u].stage = "none" /\ task'[u] = List(w)
              /\ \A v \in Tasks \ {t, u} : task'[v] = task[v]
              /\ Awaiting(panel', u)
    BY <1>12, SwitchDoes
  <2> HIDE DEF t, u
  <2>2. Noted  BY <1>1, <2>1, BegunDoes
  <2>3. TreeFormed'
    <3>1. task'[t].stage = "fetch"
      <4>1. task'[t] = Load(w)  BY <2>1
      <4>2. Load(w).stage = "fetch"  BY ListLoadFormed
      <4> QED  BY <4>1, <4>2
    <3>2. task'[t].stage \in Fetching  BY <3>1 DEF Fetching
    <3>3. DOMAIN tree'.snap = DOMAIN tree'.shown  BY <1>1, <2>1
    <3> QED  BY <2>1, <3>2, <3>3, TreeWaits
  <2>4. PanelFormed'
    <3>1. CASE UNCHANGED panel /\ Others(t)
      BY <1>1, <2>1, <3>1, PanelKept DEF Relisting
    <3>2. CASE u \in Tasks /\ task'[u] = List(w) /\ Awaiting(panel', u)
      BY <3>2, ListLoadFormed, PanelWaits DEF Relisting, Awaiting
    <3> QED  BY <2>1, <3>1, <3>2
  <2>5. PendingFormed'
    BY <1>1, <2>1 DEF PendingFormed, Others, Changing
  <2> QED  BY <1>1, <2>1, <2>2, <2>3, <2>4, <2>5 DEF Typed, Noted, Rows
<1> QED  BY <1>4, <1>5, <1>6, <1>7, <1>8, <1>9, <1>10, <1>11, <1>12 DEF User

LEMMA StepTyped == Typed /\ [Next]_vars => Typed'
<1> SUFFICES ASSUME Typed, [Next]_vars PROVE Typed'
  OBVIOUS
<1>1. CASE UNCHANGED vars
  BY <1>1 DEF vars, Typed, Rows, TasksFormed, TreeFormed, PanelFormed, PendingFormed
<1>2. CASE Next
  BY <1>2, ServerTyped, PageTyped, UserTyped DEF Next
<1> QED  BY <1>1, <1>2

\* Every list the page holds or waits for is one of documents that exist, whatever
\* overlaps and fails (the states of useDocumentTree, useDocumentMutations and useTrash).
THEOREM TypeCorrect == Spec => []TypeOK
<1>1. Typed => TypeOK  BY TypedImplies
<1> QED  BY <1>1, InitTyped, StepTyped, PTL DEF Spec

\* Behind a list shown as loading is the load that is to end it, which no later one
\* replaces without being waited for in turn (runIdRef); behind disabled buttons is a
\* mutation in flight (useDocumentMutations.runMutation's finally).
THEOREM NoEndlessWaits == Spec => []NoEndlessWait
<1>1. Typed => NoEndlessWait  BY TypedImplies
<1> QED  BY <1>1, InitTyped, StepTyped, PTL DEF Spec
---------------------------------------------------------------------------
(***************************************************************************)
(* The trash panel.                                                        *)
(***************************************************************************)
\* A restoration or purge has come back and its list is not asked for yet.
Unread == \E u \in Tasks : task[u].op \in Emptying /\ task[u].stage = "answer"

TrashHere == panel.run # Null => task[panel.run].workspace = workspace

\* The list shown is the server's, and so is the one that is about to be.
TrashFresh ==
    /\ panel.status = "ready" => panel.bundles = TrashListing(workspace)
    /\ panel.run # Null /\ task[panel.run].stage = "listed" /\ task[panel.run].ok =>
          task[panel.run].got = TrashListing(workspace)

Trash ==
    Spared({"behind", "stray"}) /\ panel.mode = "trash" => TrashHere /\ (Unread \/ TrashFresh)

LEMMA SparedBefore ==
    ASSUME disturbed \subseteq disturbed', NEW causes
    PROVE  Spared(causes)' => Spared(causes) /\ \A c \in causes : c \notin disturbed'
BY DEF Spared

LEMMA TrashUnchanged ==
    ASSUME UNCHANGED <<row, workspace>>
    PROVE  TrashListing(workspace)' = TrashListing(workspace)
BY DEF TrashListing, Members

\* Steps of a function that has nothing to do with the list.
LEMMA TrashKept ==
    ASSUME Typed, Trash, disturbed \subseteq disturbed', UNCHANGED <<workspace, panel>>,
           TrashListing(workspace)' = TrashListing(workspace),
           NEW t \in Tasks, Others(t), task[t].stage \notin Relisting,
           ~(task[t].op \in Emptying /\ task[t].stage = "answer")
    PROVE  Trash'
<1> SUFFICES ASSUME Spared({"behind", "stray"})', panel.mode = "trash"
             PROVE  (TrashHere /\ (Unread \/ TrashFresh))'
  BY DEF Trash
<1>1. TrashHere /\ (Unread \/ TrashFresh)  BY SparedBefore DEF Trash
<1>2. panel.run # Null => panel.run \in Tasks /\ task'[panel.run] = task[panel.run]
  BY DEF Typed, PanelFormed, PanelState, Others
<1>3. TrashHere'  BY <1>1, <1>2 DEF TrashHere
<1>4. Unread => Unread'  BY DEF Unread, Others
<1>5. TrashFresh => TrashFresh'  BY <1>2 DEF TrashFresh
<1> QED  BY <1>1, <1>3, <1>4, <1>5

LEMMA ServerTrash ==
    ASSUME Typed, Trash, NEW t \in Tasks, Server(t)
    PROVE  Trash'
<1>1. panel.run \in Tasks \cup {Null} /\ (panel.run # Null => task[panel.run].stage \in Relisting)
      /\ (panel.run # Null <=> panel.status = "loading") /\ task[t] \in Task /\ Formed(task[t])
  BY DEF Typed, PanelFormed, PanelState, TasksFormed
<1>2. ASSUME NEW answered \in BOOLEAN, Handle(t, answered) PROVE Trash'
  <2>1. /\ task[t].stage = "call" /\ task'[t].stage = "answer" /\ task'[t].op = task[t].op /\ Others(t)
        /\ UNCHANGED <<workspace, panel>> /\ disturbed \subseteq disturbed'
        /\ Updated(task[t], task'[t].doc)
        /\ task[t].op = "remove" /\ panel.mode = "trash" => "behind" \in disturbed'
    BY <1>2, HandleDoes DEF Later, Noted
  <2>2. task[t].stage \notin Relisting /\ task[t].stage # "answer"  BY <2>1 DEF Relisting
  <2>3. CASE task[t].op \in {"create", "rename", "move"}
    <3>1. TrashListing(workspace)' = TrashListing(workspace)  BY <2>1, <2>3 DEF Updated
    <3> QED  BY <2>1, <2>2, <3>1, TrashKept
  <2>4. CASE task[t].op = "remove"
    <3>1. panel.mode = "trash" => ~Spared({"behind", "stray"})'  BY <2>1, <2>4 DEF Spared
    <3> QED  BY <2>1, <3>1 DEF Trash
  <2>5. CASE task[t].op \in Emptying
    <3>1. Unread'  BY <2>1, <2>5 DEF Unread
    <3>2. panel.run # Null => task'[panel.run] = task[panel.run]  BY <1>1, <2>1, <2>2 DEF Others
    <3>3. Spared({"behind", "stray"})' => Spared({"behind", "stray"})  BY <2>1, SparedBefore
    <3> QED  BY <2>1, <3>1, <3>2, <3>3 DEF Trash, TrashHere
  <2> QED  BY <1>1, <2>1, <2>3, <2>4, <2>5 DEF Formed, Changing
<1>3. ASSUME NEW answered \in BOOLEAN, Read(t, answered) PROVE Trash'
  <2>1. /\ Others(t) /\ UNCHANGED <<row, workspace, panel, disturbed>>
        /\ task'[t].op = task[t].op /\ task'[t].workspace = task[t].workspace
        /\ \/ task[t].stage = "fetch"
           \/ task[t].stage = "list" /\ (answered => task'[t].got = TrashListing(task[t].workspace))
    BY <1>3, ReadDoes DEF Later
  <2>2. task'[t].ok = answered  BY <1>3, ReadDoes
  <2>3. TrashListing(workspace)' = TrashListing(workspace)  BY <2>1, TrashUnchanged
  <2>4. CASE task[t].stage = "fetch"
    <3>1. task[t].stage \notin Relisting  BY <2>4 DEF Relisting
    <3> QED  BY <2>1, <2>3, <2>4, <3>1, TrashKept
  <2>5. CASE task[t].stage = "list"
    <3> SUFFICES ASSUME Spared({"behind", "stray"})', panel.mode = "trash"
                 PROVE  (TrashHere /\ (Unread \/ TrashFresh))'
      BY <2>1 DEF Trash
    <3>1. TrashHere /\ (Unread \/ TrashFresh)  BY <2>1, SparedBefore DEF Trash
    <3>2. TrashHere'  BY <1>1, <2>1, <3>1 DEF TrashHere, Others
    <3>3. Unread => Unread'  BY <2>1, <2>5 DEF Unread, Others
    <3>4. CASE panel.run = t
      <4>1. panel.status # "ready"  BY <1>1, <3>4, NullAssumption
      <4>2. task[t].workspace = workspace  BY <3>1, <3>4, NullAssumption DEF TrashHere
      <4>3. task'[t].ok => task'[t].got = TrashListing(workspace)'  BY <2>1, <2>2, <2>3, <2>5, <4>2
      <4>4. TrashFresh'  BY <2>1, <3>4, <4>1, <4>3 DEF TrashFresh
      <4> QED  BY <3>2, <4>4
    <3>5. CASE panel.run # t
      <4>1. panel.run # Null => task'[panel.run] = task[panel.run]  BY <1>1, <2>1, <3>5 DEF Others
      <4>2. TrashFresh => TrashFresh'  BY <2>1, <2>3, <4>1 DEF TrashFresh
      <4> QED  BY <3>1, <3>2, <3>3, <4>2
    <3> QED  BY <3>4, <3>5
  <2> QED  BY <2>1, <2>4, <2>5
<1>4. ASSUME Fail(t) PROVE Trash'
  <2>1. task[t].stage = "call" /\ Others(t) /\ UNCHANGED <<row, workspace, panel, disturbed>>
    BY <1>4, FailDoes
  <2>2. task[t].stage \notin Relisting /\ task[t].stage # "answer"  BY <2>1 DEF Relisting
  <2> QED  BY <2>1, <2>2, TrashUnchanged, TrashKept
<1> QED  BY <1>2, <1>3, <1>4 DEF Server

LEMMA PageTrash ==
    ASSUME Typed, Trash, NEW t \in Tasks, Page(t)
    PROVE  Trash'
<1> DEFINE k == task[t]
<1>1. /\ panel.run \in Tasks \cup {Null} /\ (panel.run # Null => task[panel.run].stage \in Relisting)
      /\ (panel.run # Null <=> panel.status = "loading") /\ k \in Task /\ Formed(k)
      /\ t # Null
  BY NullAssumption DEF Typed, PanelFormed, PanelState, TasksFormed
<1>2. ASSUME Reloaded(t) \/ Confirmed(t) \/ Finished(t) \/ Undone(t) PROVE Trash'
  <2>1. /\ Others(t) /\ UNCHANGED <<row, workspace, panel>> /\ disturbed \subseteq disturbed'
        /\ k.stage = "fetched" \/ (k.stage = "answer" /\ k.op \in Changing)
    <3>1. CASE Reloaded(t)  BY <3>1, ReloadedDoes DEF Noted
    <3>2. CASE Confirmed(t)  BY <3>2, ConfirmedDoes, BegunDoes DEF Noted, Typed, Changing
    <3>3. CASE Finished(t)  BY <3>3, FinishedDoes DEF Changing
    <3>4. CASE Undone(t)  BY <3>4, UndoneDoes DEF Noted, Changing
    <3> QED  BY <1>2, <3>1, <3>2, <3>3, <3>4
  <2>2. k.stage \notin Relisting /\ ~(k.op \in Emptying /\ k.stage = "answer")
    BY <2>1 DEF Relisting, Changing, Emptying
  <2> QED  BY <2>1, <2>2, TrashUnchanged, TrashKept
<1>3. ASSUME TrashAnswered(t) PROVE Trash'
  <2>1. /\ task'[t].stage = "list" /\ task'[t].workspace = k.workspace /\ Awaiting(panel', t)
        /\ UNCHANGED workspace /\ (k.workspace # workspace => "stray" \in disturbed')
    BY <1>3, TrashAnsweredDoes DEF Later
  <2>2. k.workspace # workspace => ~Spared({"behind", "stray"})'  BY <2>1 DEF Spared
  <2>3. k.workspace = workspace => TrashHere' /\ TrashFresh'
    BY <1>1, <2>1 DEF Awaiting, TrashHere, TrashFresh
  <2> QED  BY <2>2, <2>3 DEF Trash
<1>4. ASSUME Listed(t) PROVE Trash'
  <2>1. /\ k.stage = "listed" /\ UNCHANGED <<row, workspace>> /\ Others(t)
        /\ \/ panel'.mode = "active"
           \/ /\ panel'.mode = panel.mode
              /\ panel.run # t => /\ panel'.status = panel.status /\ panel'.run = panel.run
                                  /\ panel'.bundles = panel.bundles
              /\ panel.run = t => panel'.run = Null
              /\ panel.run = t /\ panel'.status = "ready" => k.ok /\ panel'.bundles = k.got
    BY <1>4, ListedDoes
  <2>2. disturbed \subseteq disturbed'
    BY <1>4, ListedDoes, BegunDoes DEF Noted, Typed
  <2>3. TrashListing(workspace)' = TrashListing(workspace)  BY <2>1, TrashUnchanged
  <2> SUFFICES ASSUME Spared({"behind", "stray"})', panel'.mode = "trash"
               PROVE  (TrashHere /\ (Unread \/ TrashFresh))'
    BY DEF Trash
  <2>4. panel.mode = "trash" /\ TrashHere /\ (Unread \/ TrashFresh)
    BY <2>1, <2>2, SparedBefore DEF Trash
  <2>5. Unread => Unread'  BY <2>1 DEF Unread, Others
  <2>6. CASE panel.run = t
    <3>1. TrashHere'  BY <2>1, <2>4, <2>6 DEF TrashHere
    <3>2. TrashFresh => TrashFresh'  BY <1>1, <2>1, <2>3, <2>6 DEF TrashFresh
    <3> QED  BY <2>4, <2>5, <3>1, <3>2
  <2>7. CASE panel.run # t
    <3>1. panel.run # Null => task'[panel.run] = task[panel.run]  BY <1>1, <2>1, <2>7 DEF Others
    <3>2. /\ panel'.status = panel.status /\ panel'.run = panel.run /\ panel'.bundles = panel.bundles
      BY <2>1, <2>7
    <3>3. TrashHere'  BY <2>1, <2>4, <3>1, <3>2 DEF TrashHere
    <3>4. TrashFresh => TrashFresh'  BY <2>3, <3>1, <3>2 DEF TrashFresh
    <3> QED  BY <2>4, <2>5, <3>3, <3>4
  <2> QED  BY <2>6, <2>7
<1> QED  BY <1>2, <1>3, <1>4 DEF Page

LEMMA UserTrash ==
    ASSUME Typed, Trash, User
    PROVE  Trash'
<1> DEFINE t == FirstOf(Slots)
<1>1. /\ panel.run \in Tasks \cup {Null} /\ (panel.run # Null => task[panel.run].stage \in Relisting)
      /\ (panel.run # Null <=> panel.status = "loading") /\ panel \in PanelState
      /\ disturbed \subseteq Causes
  BY DEF Typed, PanelFormed, PanelState
<1>2. ASSUME NEW op, Called(t, op), UNCHANGED <<row, workspace, panel>>, disturbed \subseteq disturbed'
      PROVE  Trash'
  <2>1. t \in Tasks /\ Others(t) /\ task[t].stage \notin Relisting /\ task[t].stage # "answer"
    BY <1>2 DEF Called, Started, Relisting
  <2> HIDE DEF t
  <2> QED  BY <1>2, <2>1, TrashUnchanged, TrashKept
<1>3. ASSUME NEW p \in Ids, NEW title \in Titles, CreateClick(p, title) PROVE Trash'
  BY <1>2, <1>3, CreateClickDoes
<1>4. ASSUME NEW title \in Titles, RenameClick(title) PROVE Trash'
  BY <1>2, <1>4, RenameClickDoes DEF Noted
<1>5. ASSUME DeleteClick PROVE Trash'
  BY <1>2, <1>5, DeleteClickDoes
<1>6. ASSUME NEW d \in Docs,
             (\E x \in Docs, kind \in {"inside", "beside"} : Drop(d, kind, x)) \/ DropBelow(d)
      PROVE  Trash'
  BY <1>2, <1>6, MoveDoes
<1>7. ASSUME RestoreClick \/ PurgeClick PROVE Trash'
  <2>1. PICK op \in Emptying : TrashClick(op)
    BY <1>7 DEF RestoreClick, PurgeClick, Emptying
  <2> QED  BY <1>2, <2>1, TrashClickDoes DEF Noted
<1>8. ASSUME NEW d \in Docs, Select(d) PROVE Trash'
  <2>1. UNCHANGED <<row, workspace, panel, task, disturbed>>  BY <1>8, SelectDoes
  <2> QED  BY <2>1, TrashUnchanged DEF Trash, TrashHere, TrashFresh, Unread, Spared
<1>9. ASSUME ShowDocuments \/ (\E d \in Docs : Pick(d)) PROVE Trash'
  <2>1. /\ UNCHANGED <<row, workspace, task, disturbed>> /\ panel.mode = "trash"
        /\ panel'.status = "ready" /\ panel'.run = (IF ShowDocuments THEN Null ELSE panel.run)
        /\ \/ panel'.mode = "active"
           \/ panel.status = "ready" /\ panel'.mode = panel.mode /\ panel'.bundles = panel.bundles
    BY <1>9, PanelDoes
  <2>2. panel'.mode = "active" => Trash'  BY DEF Trash
  <2>3. CASE panel.status = "ready" /\ panel'.mode = panel.mode /\ panel'.bundles = panel.bundles
    <3>1. panel'.run = Null /\ panel.run = Null  BY <1>1, <2>1, <2>3
    <3>2. TrashHere'  BY <3>1 DEF TrashHere
    <3>3. TrashFresh => TrashFresh'  BY <2>1, <2>3, <3>1, TrashUnchanged DEF TrashFresh
    <3>4. Unread => Unread'  BY <2>1 DEF Unread
    <3>5. Spared({"behind", "stray"})' => Spared({"behind", "stray"})  BY <2>1 DEF Spared
    <3> QED  BY <2>1, <3>2, <3>3, <3>4, <3>5 DEF Trash
  <2> QED  BY <2>1, <2>2, <2>3
<1>10. ASSUME ShowTrash PROVE Trash'
  <2>1. /\ Started(t, List(workspace)) /\ UNCHANGED workspace
        /\ panel'.status = "loading" /\ panel'.run = t
    BY <1>10, ShowTrashDoes
  <2>2. task'[t] = List(workspace)  BY <2>1 DEF Started
  <2>3. task'[t].workspace = workspace' /\ task'[t].stage = "list"
    <3>1. List(workspace).workspace = workspace /\ List(workspace).stage = "list"
      BY ListLoadFormed DEF Typed
    <3> QED  BY <2>1, <2>2, <3>1
  <2> HIDE DEF t
  <2> QED  BY <2>1, <2>3 DEF Trash, TrashHere, TrashFresh
<1>11. ASSUME NEW w \in Workspaces, Switch(w) PROVE Trash'
  <2> DEFINE u == FirstOf(Slots \ {t})
  <2>1. /\ workspace' = w
        /\ \/ panel'.mode = "active"
           \/ task'[u] = List(w) /\ panel'.status = "loading" /\ panel'.run = u
    BY <1>11, SwitchDoes DEF Awaiting
  <2>2. List(w).workspace = w /\ List(w).stage = "list"  BY ListLoadFormed
  <2> HIDE DEF t, u
  <2> QED  BY <2>1, <2>2 DEF Trash, TrashHere, TrashFresh
<1> QED  BY <1>3, <1>4, <1>5, <1>6, <1>7, <1>8, <1>9, <1>10, <1>11 DEF User

LEMMA InitTrash == Init => Trash
BY DEF Init, ActivePanel, Trash

LEMMA StepTrash == Typed /\ Trash /\ [Next]_vars => Trash'
<1> SUFFICES ASSUME Typed, Trash, [Next]_vars PROVE Trash'
  OBVIOUS
<1>1. CASE UNCHANGED vars
  BY <1>1, TrashUnchanged DEF vars, Trash, TrashHere, TrashFresh, Unread, Spared
<1>2. CASE Next
  BY <1>2, ServerTrash, PageTrash, UserTrash DEF Next
<1> QED  BY <1>1, <1>2

\* The trash panel comes to rest with the bundles the server has in the current
\* workspace: a restoration or purge asks for the list again whatever came of it, and
\* of two lists under way the latest counts (useTrash.mutate, its runIdRef).
THEOREM TrashShown == Spec => []TrashShowsServer
<1>1. Typed /\ Trash => TrashShowsServer
  <2> SUFFICES ASSUME Typed, Trash, Quiet, panel.mode = "trash", panel.status = "ready",
                      Spared({"behind", "stray"})
               PROVE  panel.bundles = TrashListing(workspace)
    BY DEF TrashShowsServer
  <2>1. ~Unread  BY DEF Quiet, Unread, Emptying
  <2> QED  BY <2>1 DEF Trash, TrashFresh
<1> QED  BY <1>1, InitTyped, StepTyped, InitTrash, StepTrash, PTL DEF Spec

LEMMA AncestorsOutside ==
    ASSUME NEW nodes, DOMAIN nodes \subseteq Docs, NEW d, d \notin DOMAIN nodes
    PROVE  \A n \in 1..Cardinality(Docs) : Ancestors(nodes, d)[n] = Null
<1> DEFINE up == CHOOSE f : f = [n \in 0..Cardinality(Docs) |->
                    IF n = 0 THEN d ELSE IF f[n - 1] \in DOMAIN nodes THEN nodes[f[n - 1]].parent_id ELSE Null]
<1>1. Ancestors(nodes, d) = [n \in 1..Cardinality(Docs) |-> IF up[n] \in DOMAIN nodes \ {d} THEN up[n] ELSE Null]
  BY DEF Ancestors
<1>2. Cardinality(Docs) \in Nat  BY IdsAssumption, FS_CardinalityType
<1>3. Null \notin DOMAIN nodes  BY NullAssumption
<1>4. up = [n \in 0..Cardinality(Docs) |->
               IF n = 0 THEN d ELSE IF up[n - 1] \in DOMAIN nodes THEN nodes[up[n - 1]].parent_id ELSE Null]
  <2> DEFINE g == [n \in 0..Cardinality(Docs) |-> IF n = 0 THEN d ELSE Null]
             Next1(f) == [n \in 0..Cardinality(Docs) |->
                    IF n = 0 THEN d ELSE IF f[n - 1] \in DOMAIN nodes THEN nodes[f[n - 1]].parent_id ELSE Null]
  <2>1. g = Next1(g)
    <3>1. \A n \in 0..Cardinality(Docs) : n # 0 => g[n - 1] \notin DOMAIN nodes
      BY <1>2, <1>3
    <3> HIDE DEF g
    <3>2. Next1(g) = [n \in 0..Cardinality(Docs) |-> IF n = 0 THEN d ELSE Null]  BY <3>1
    <3> QED  BY <3>2 DEF g
  <2> HIDE DEF g, Next1
  <2>2. (CHOOSE f : f = Next1(f)) = Next1(CHOOSE f : f = Next1(f))
    BY <2>1
  <2> QED  BY <2>2 DEF Next1
<1> HIDE DEF up
<1>5. \A n \in 1..Cardinality(Docs) : up[n] = Null
  <2> DEFINE Bad == {n \in 1..Cardinality(Docs) : up[n] # Null}
  <2>1. ASSUME Bad # {} PROVE FALSE
    <3>1. PICK n \in Bad : \A m \in Bad : n <= m
      <4>1. Bad \subseteq Nat  BY <1>2
      <4> QED  BY <2>1, <4>1, LeastExists
    <3>2. n \in 1..Cardinality(Docs) /\ up[n] # Null  BY <3>1
    <3>3. up[n - 1] \notin DOMAIN nodes
      <4>1. CASE n = 1
        <5>1. up[0] = d  BY <1>2, <1>4
        <5> QED  BY <4>1, <5>1
      <4>2. CASE n # 1
        <5>1. n - 1 \in 1..Cardinality(Docs) /\ ~(n <= n - 1)  BY <1>2, <3>2, <4>2
        <5>2. up[n - 1] = Null  BY <3>1, <5>1
        <5> QED  BY <1>3, <5>2
      <4> QED  BY <4>1, <4>2
    <3>4. up[n] = Null  BY <1>2, <1>4, <3>2, <3>3
    <3> QED  BY <3>2, <3>4
  <2> QED  BY <2>1
<1>6. \A n \in 1..Cardinality(Docs) : Ancestors(nodes, d)[n] = IF up[n] \in DOMAIN nodes \ {d} THEN up[n] ELSE Null
  BY <1>1
<1> QED  BY <1>3, <1>5, <1>6

LEMMA AncestorsInside ==
    ASSUME NEW nodes \in Nodes, NEW d \in Docs, NEW n \in 1..Cardinality(Docs), Ancestors(nodes, d)[n] # Null
    PROVE  d \in DOMAIN nodes /\ Ancestors(nodes, d)[n] \in DOMAIN nodes
<1>1. DOMAIN nodes \subseteq Docs  BY NodesHave
<1>2. d \in DOMAIN nodes  BY <1>1, AncestorsOutside
<1>3. Ancestors(nodes, d)[n] \in DOMAIN nodes \cup {Null}  BY DEF Ancestors
<1> QED  BY <1>2, <1>3
---------------------------------------------------------------------------
(***************************************************************************)
(* Whose documents the tree, the selection and the memory are.             *)
(***************************************************************************)
\* The latest load is of the current workspace.
RunHere == Spared({"stray"}) /\ tree.run # Null => task[tree.run].workspace = workspace

\* A function at work has documents of its workspace.
Own(rows, k) ==
    /\ k.stage = "fetched" /\ k.ok => \A d \in DOMAIN k.got : rows[d].workspace = k.workspace
    /\ k.op = "remove" => \A n \in DOMAIN k.chain : k.chain[n] # Null => rows[k.chain[n]].workspace = k.workspace
    /\ Made(k) \/ k.op = "restore" => rows[k.doc].workspace = k.workspace

SnapHome ==
    \E w \in Workspaces : /\ \A d \in DOMAIN tree.snap : row[d].workspace = w
                          /\ tree.status = "ready" => w = workspace
SelectedHome == tree.selected # Null => row[tree.selected].workspace = workspace
RememberedHome == \A w \in Workspaces : remembered[w] # Null => row[remembered[w]].workspace = w

Strange == {"stray", "adrift", "foreign"}
Homes ==
    Spared(Strange) => SnapHome /\ SelectedHome /\ RememberedHome /\ \A t \in Tasks : Own(row, task[t])

\* A document that exists stays in its workspace.
Steady == \A d \in Docs : row[d].workspace # Null => row'[d].workspace = row[d].workspace

LEMMA WorkspaceIsNone == \A w \in Workspaces : w # Null
BY NullAssumption

LEMMA OwnSteady ==
    ASSUME Steady, NEW k, k \in Task /\ Formed(k), Own(row, k)
    PROVE  Own(row', k)
<1>1. k.op # "none" => k.workspace # Null
  BY NullAssumption DEF Formed
<1>2. k.stage = "fetched" /\ k.ok => \A d \in DOMAIN k.got : row'[d].workspace = k.workspace
  <2>1. k.stage = "fetched" /\ k.ok => DOMAIN k.got \subseteq Docs /\ k.op # "none"
    BY NodesHave DEF Formed
  <2> QED  BY <1>1, <2>1 DEF Own, Steady
<1>3. k.op = "remove" => \A n \in DOMAIN k.chain : k.chain[n] # Null => row'[k.chain[n]].workspace = k.workspace
  <2>1. \A n \in DOMAIN k.chain : k.chain[n] # Null => k.chain[n] \in Docs
    <3>1. k.chain \in {<<>>} \cup [1..Cardinality(Docs) -> Ids]  BY DEF Task
    <3>2. CASE k.chain = <<>>  BY <3>2
    <3>3. CASE k.chain \in [1..Cardinality(Docs) -> Ids]  BY <3>3 DEF Ids
    <3> QED  BY <3>1, <3>2, <3>3
  <2> QED  BY <1>1, <2>1 DEF Own, Steady
<1>4. Made(k) \/ k.op = "restore" => row'[k.doc].workspace = k.workspace
  <2>1. Made(k) \/ k.op = "restore" => k.op # "none" /\ k.doc \in Docs
    BY DEF Made, Formed
  <2> QED  BY <1>1, <2>1 DEF Own, Steady
<1> QED  BY <1>2, <1>3, <1>4 DEF Own

LEMMA NoneOwn ==
    ASSUME NEW rows, NEW k, k.op \notin {"create", "remove", "restore"}, k.stage # "fetched"
    PROVE  Own(rows, k)
BY DEF Own, Made

\* A function goes on to where it has nothing it had not before.
LEMMA OwnLater ==
    ASSUME NEW k, NEW j, Own(row, k), Later(j, k), j.doc = k.doc, j.stage # "fetched",
           Made(j) => Made(k)
    PROVE  Own(row, j)
BY DEF Own, Later

LEMMA HomesSteady ==
    ASSUME Typed, Steady
    PROVE  /\ \A w \in Workspaces, d \in DOMAIN tree.snap : row[d].workspace = w => row'[d].workspace = w
           /\ tree.selected # Null /\ row[tree.selected].workspace = workspace => row'[tree.selected].workspace = workspace
           /\ RememberedHome => \A w \in Workspaces : remembered[w] # Null => row'[remembered[w]].workspace = w
<1>1. tree \in TreeState /\ remembered \in [Workspaces -> Ids] /\ workspace \in Workspaces
  BY DEF Typed, TreeFormed
<1>2. DOMAIN tree.snap \subseteq Docs  BY <1>1, NodesHave DEF TreeState
<1>3. tree.selected # Null => tree.selected \in Docs  BY <1>1 DEF TreeState, Ids
<1>4. \A w \in Workspaces : remembered[w] # Null => remembered[w] \in Docs  BY <1>1 DEF Ids
<1> QED  BY <1>1, <1>2, <1>3, <1>4, WorkspaceIsNone DEF Steady, RememberedHome

LEMMA RowSteady ==
    ASSUME UNCHANGED row
    PROVE  Steady
BY DEF Steady

\* Steps that keep what the tree and the memory have.
LEMMA HomesKept ==
    ASSUME Typed, SnapHome, SelectedHome, RememberedHome, Steady,
           UNCHANGED <<workspace, remembered>>, tree'.snap = tree.snap,
           tree'.selected = tree.selected, tree'.status = "ready" => tree.status = "ready"
    PROVE  SnapHome' /\ SelectedHome' /\ RememberedHome'
<1>1. SnapHome'
  <2>1. PICK w \in Workspaces : /\ \A d \in DOMAIN tree.snap : row[d].workspace = w
                                /\ tree.status = "ready" => w = workspace
    BY DEF SnapHome
  <2>2. \A d \in DOMAIN tree.snap : row'[d].workspace = w  BY <2>1, HomesSteady
  <2> QED  BY <2>1, <2>2 DEF SnapHome
<1>2. SelectedHome'  BY HomesSteady DEF SelectedHome
<1>3. RememberedHome'  BY HomesSteady DEF RememberedHome
<1> QED  BY <1>1, <1>2, <1>3

\* The other functions keep what they have.
LEMMA OthersOwn ==
    ASSUME Typed, \A u \in Tasks : Own(row, task[u]), Steady,
           NEW t \in Tasks, Others(t), Own(row', task'[t])
    PROVE  \A u \in Tasks : Own(row', task'[u])
<1> SUFFICES ASSUME NEW u \in Tasks PROVE Own(row', task'[u])
  OBVIOUS
<1>1. CASE u = t  BY <1>1
<1>2. CASE u # t
  <2>1. task'[u] = task[u] /\ task[u] \in Task /\ Formed(task[u])  BY <1>2 DEF Others, Typed, TasksFormed
  <2>2. Own(row', task[u])  BY <2>1, OwnSteady
  <2> QED  BY <2>1, <2>2
<1> QED  BY <1>1, <1>2

LEMMA HomesBefore ==
    ASSUME Homes, Spared(Strange)', disturbed \subseteq disturbed'
    PROVE  /\ SnapHome /\ SelectedHome /\ RememberedHome /\ \A t \in Tasks : Own(row, task[t])
           /\ Spared({"stray"}) /\ \A c \in Strange : c \notin disturbed'
BY SparedBefore DEF Homes, Spared, Strange

\* The latest load is of the workspace it was begun in, or that was turned to.
LEMMA StepRunHere ==
    ASSUME Typed, RunHere, [Next]_vars
    PROVE  RunHere'
<1> SUFFICES ASSUME Spared({"stray"})', tree'.run # Null
             PROVE  task'[tree'.run].workspace = workspace'
  BY DEF RunHere
<1>1. tree.run \in Tasks \cup {Null}  BY DEF Typed, TreeFormed, TreeState
<1>2. ASSUME NEW t \in Tasks, Others(t) \/ UNCHANGED task, UNCHANGED workspace, tree'.run = tree.run,
             disturbed \subseteq disturbed', tree.run # t \/ task'[t].workspace = task[t].workspace
      PROVE  task'[tree'.run].workspace = workspace'
  <2>1. Spared({"stray"})  BY <1>2, SparedBefore
  <2>2. task[tree.run].workspace = workspace  BY <1>2, <2>1 DEF RunHere
  <2> QED  BY <1>1, <1>2, <2>2 DEF Others
<1>3. ASSUME NEW t \in Tasks, tree' = Loading(t), Note(Begun(task[t].workspace)), UNCHANGED workspace,
             task'[t].workspace = task[t].workspace
      PROVE  task'[tree'.run].workspace = workspace'
  <2>1. task[t].workspace # workspace => "stray" \in disturbed'  BY <1>3, BegunDoes DEF Typed
  <2>2. tree'.run = t  BY <1>3, LoadingDoes DEF Typed, TreeFormed
  <2> QED  BY <1>3, <2>1, <2>2 DEF Spared
<1>4. ASSUME NEW t \in Tasks, Server(t) PROVE task'[tree'.run].workspace = workspace'
  BY <1>2, <1>4, HandleDoes, ReadDoes, FailDoes DEF Server, Later, Noted
<1>5. ASSUME NEW t \in Tasks, Page(t) PROVE task'[tree'.run].workspace = workspace'
  <2>1. CASE Reloaded(t)
    <3>1. /\ Others(t) /\ UNCHANGED workspace /\ disturbed \subseteq disturbed'
          /\ tree'.run = Landed(t).run /\ task[t].stage = "fetched"
      BY <2>1, ReloadedDoes DEF Noted
    <3>2. tree.run # t /\ tree'.run = tree.run  BY <3>1, LandedDoes
    <3> QED  BY <1>2, <3>1, <3>2
  <2>2. CASE Confirmed(t)  BY <1>3, <2>2, ConfirmedDoes DEF Later
  <2>3. CASE Finished(t) \/ Undone(t)
    <3>1. /\ Others(t) /\ UNCHANGED workspace /\ disturbed \subseteq disturbed' /\ tree'.run = tree.run
          /\ task[t].stage = "answer"
      BY <2>3, FinishedDoes, UndoneDoes DEF Noted
    <3>2. tree.run # t  BY <3>1 DEF Typed, TreeFormed, Fetching
    <3> QED  BY <1>2, <3>1, <3>2
  <2>4. CASE TrashAnswered(t)  BY <1>2, <2>4, TrashAnsweredDoes DEF Later, Noted
  <2>5. CASE Listed(t)
    <3>1. Others(t) /\ UNCHANGED workspace /\ task[t].stage = "listed"  BY <2>5, ListedDoes
    <3>2. \/ task'[t].workspace = task[t].workspace /\ tree' = Loading(t) /\ Note(Begun(task[t].workspace))
          \/ UNCHANGED <<tree, disturbed>>
      BY <2>5, ListedDoes DEF Later
    <3>3. tree.run # t \/ tree.run = Null  BY <3>1 DEF Typed, TreeFormed, Fetching
    <3> QED  BY <1>1, <1>2, <1>3, <3>1, <3>2, <3>3
  <2> QED  BY <1>5, <2>1, <2>2, <2>3, <2>4, <2>5 DEF Page
<1>6. ASSUME User PROVE task'[tree'.run].workspace = workspace'
  <2> DEFINE t == FirstOf(Slots)
  <2>1. ASSUME Started(t, task'[t]), UNCHANGED workspace, tree'.run = tree.run, disturbed \subseteq disturbed'
        PROVE  task'[tree'.run].workspace = workspace'
    <3>1. t \in Tasks /\ Others(t) /\ task[t].stage = "none"  BY <2>1 DEF Started
    <3>2. tree.run # t \/ tree.run = Null  BY <3>1 DEF Typed, TreeFormed, Fetching
    <3> HIDE DEF t
    <3> QED  BY <1>2, <2>1, <3>1, <3>2
  <2>2. ASSUME NEW p \in Ids, NEW title \in Titles, CreateClick(p, title)
        PROVE  task'[tree'.run].workspace = workspace'
    BY <2>1, <2>2, CreateClickDoes DEF Called
  <2>3. ASSUME NEW title \in Titles, RenameClick(title) PROVE task'[tree'.run].workspace = workspace'
    BY <2>1, <2>3, RenameClickDoes DEF Called, Noted
  <2>4. ASSUME DeleteClick PROVE task'[tree'.run].workspace = workspace'
    BY <2>1, <2>4, DeleteClickDoes DEF Called
  <2>5. ASSUME NEW d \in Docs,
               (\E x \in Docs, kind \in {"inside", "beside"} : Drop(d, kind, x)) \/ DropBelow(d)
        PROVE  task'[tree'.run].workspace = workspace'
    BY <2>1, <2>5, MoveDoes DEF Called
  <2>6. ASSUME NEW d \in Docs, Select(d) PROVE task'[tree'.run].workspace = workspace'
    <3>1. UNCHANGED <<workspace, task, disturbed>> /\ tree'.run = tree.run  BY <2>6, SelectDoes
    <3> QED  BY <3>1 DEF RunHere, Spared
  <2>7. ASSUME ShowDocuments \/ (\E d \in Docs : Pick(d)) PROVE task'[tree'.run].workspace = workspace'
    <3>1. UNCHANGED <<workspace, task, disturbed, tree>>  BY <2>7, PanelDoes
    <3> QED  BY <3>1 DEF RunHere, Spared
  <2>8. ASSUME ShowTrash PROVE task'[tree'.run].workspace = workspace'
    <3>1. Started(t, List(workspace)) /\ UNCHANGED <<workspace, tree, disturbed>>  BY <2>8, ShowTrashDoes
    <3> QED  BY <2>1, <3>1 DEF Started
  <2>9. ASSUME RestoreClick \/ PurgeClick PROVE task'[tree'.run].workspace = workspace'
    <3>1. PICK op \in Emptying : TrashClick(op)
      BY <2>9 DEF RestoreClick, PurgeClick, Emptying
    <3> QED  BY <2>1, <3>1, TrashClickDoes DEF Called, Noted
  <2>10. ASSUME NEW w \in Workspaces, Switch(w) PROVE task'[tree'.run].workspace = workspace'
    <3>1. workspace' = w /\ tree'.run = t /\ task'[t] = Load(w)  BY <2>10, SwitchDoes
    <3>2. Load(w).workspace = w  BY ListLoadFormed
    <3> HIDE DEF t
    <3> QED  BY <3>1, <3>2
  <2> QED  BY <1>6, <2>2, <2>3, <2>4, <2>5, <2>6, <2>7, <2>8, <2>9, <2>10 DEF User
<1>7. CASE UNCHANGED vars
  BY <1>7 DEF vars, RunHere, Spared
<1> QED  BY <1>4, <1>5, <1>6, <1>7 DEF Next

LEMMA InitHomes == Init => RunHere /\ Homes
<1> SUFFICES ASSUME Init PROVE RunHere /\ Homes
  OBVIOUS
<1> DEFINE t == FirstOf(Tasks)
<1>1. Typed  BY InitTyped
<1>2. /\ tree = [status |-> "loading", snap |-> <<>>, shown |-> <<>>, selected |-> Null, run |-> t]
      /\ remembered = [w \in Workspaces |-> Null]
      /\ task = [u \in Tasks |-> IF u = t THEN Load(workspace) ELSE NoTask]
  BY DEF Init
<1>3. t \in Tasks  BY IdsAssumption, FirstOfIn
<1> HIDE DEF t
<1>4. Load(workspace).workspace = workspace /\ Load(workspace).op = "load" /\ Load(workspace).stage = "fetch"
  BY <1>1, ListLoadFormed DEF Typed
<1>5. RunHere  BY <1>2, <1>3, <1>4 DEF RunHere
<1>6. SnapHome /\ SelectedHome /\ RememberedHome
  <2>1. DOMAIN tree.snap = {} /\ tree.status = "loading" /\ tree.selected = Null  BY <1>2, EmptyNodes
  <2> QED  BY <1>1, <1>2, <2>1 DEF SnapHome, SelectedHome, RememberedHome, Typed
<1>7. ASSUME NEW u \in Tasks PROVE Own(row, task[u])
  <2>1. NoTask.op = "none" /\ NoTask.stage = "none"  BY DEF NoTask
  <2>2. task[u].op \in {"load", "none"} /\ task[u].stage # "fetched"  BY <1>2, <1>4, <2>1
  <2> QED  BY <2>2, NoneOwn
<1> QED  BY <1>5, <1>6, <1>7 DEF Homes

LEMMA ServerHomes ==
    ASSUME Typed, Homes, NEW t \in Tasks, Server(t)
    PROVE  Homes'
<1> SUFFICES ASSUME Spared(Strange)'
             PROVE  (SnapHome /\ SelectedHome /\ RememberedHome)' /\ \A u \in Tasks : Own(row', task'[u])
  BY DEF Homes
<1> DEFINE k == task[t]
           j == task'[t]
<1>1. k \in Task /\ Formed(k)  BY DEF Typed, TasksFormed
<1>2. ASSUME disturbed \subseteq disturbed', UNCHANGED <<workspace, tree, remembered>>, Steady, Others(t),
             (\A u \in Tasks : Own(row, task[u])) => Own(row', j)
      PROVE  (SnapHome /\ SelectedHome /\ RememberedHome)' /\ \A u \in Tasks : Own(row', task'[u])
  <2>1. SnapHome /\ SelectedHome /\ RememberedHome /\ \A u \in Tasks : Own(row, task[u])
    BY <1>2, HomesBefore
  <2>2. SnapHome' /\ SelectedHome' /\ RememberedHome'  BY <1>2, <2>1, HomesKept
  <2>3. \A u \in Tasks : Own(row', task'[u])  BY <1>2, <2>1, OthersOwn
  <2> QED  BY <2>2, <2>3
<1>3. ASSUME NEW answered \in BOOLEAN, Handle(t, answered)
      PROVE  (SnapHome /\ SelectedHome /\ RememberedHome)' /\ \A u \in Tasks : Own(row', task'[u])
  <2>1. /\ k.stage = "call" /\ j.stage = "answer" /\ Later(j, k) /\ Others(t)
        /\ k.op # "create" => j.doc = k.doc
        /\ UNCHANGED <<workspace, tree, remembered>> /\ disturbed \subseteq disturbed'
        /\ Updated(k, j.doc)
    BY <1>3, HandleDoes DEF Noted
  <2>2. Steady  BY <2>1 DEF Updated, Steady
  <2>3. ASSUME \A u \in Tasks : Own(row, task[u]) PROVE Own(row', j)
    <3>1. Own(row', k)  BY <1>1, <2>2, <2>3, OwnSteady
    <3>2. k.op = "create" => row'[j.doc].workspace = k.workspace  BY <2>1 DEF Updated
    <3>3. CASE k.op = "create"
      BY <2>1, <3>2, <3>3 DEF Own, Later
    <3>4. CASE k.op # "create"
      BY <2>1, <3>1, <3>4 DEF Own, Later, Made
    <3> QED  BY <3>3, <3>4
  <2> QED  BY <1>2, <2>1, <2>2, <2>3
<1>4. ASSUME NEW answered \in BOOLEAN, Read(t, answered)
      PROVE  (SnapHome /\ SelectedHome /\ RememberedHome)' /\ \A u \in Tasks : Own(row', task'[u])
  <2>1. /\ Others(t) /\ UNCHANGED <<row, workspace, tree, remembered, disturbed>> /\ Later(j, k) /\ j.doc = k.doc
        /\ \/ /\ k.stage = "fetch" /\ j.stage = "fetched"
              /\ answered => j.got = Listing(k.workspace)
           \/ k.stage = "list" /\ j.stage = "listed"
    BY <1>4, ReadDoes
  <2>2. j.ok = answered  BY <1>4, ReadDoes
  <2>3. Steady  BY <2>1, RowSteady
  <2>4. ASSUME \A u \in Tasks : Own(row, task[u]) PROVE Own(row', j)
    <3>1. Own(row, k)  BY <2>4
    <3>2. Made(j) => Made(k)  BY <2>1 DEF Made, Later, Fetching
    <3>3. j.stage = "fetched" /\ j.ok => \A d \in DOMAIN j.got : row[d].workspace = j.workspace
      <4>1. j.stage = "fetched" /\ j.ok => j.got = Listing(k.workspace)  BY <2>1, <2>2
      <4>2. \A d \in DOMAIN Listing(k.workspace) : row[d].workspace = k.workspace
        BY ListingTyped DEF Typed
      <4> QED  BY <2>1, <4>1, <4>2 DEF Later
    <3>4. row' = row  BY <2>1
    <3> QED  BY <2>1, <3>1, <3>2, <3>3, <3>4 DEF Own, Later
  <2> QED  BY <1>2, <2>1, <2>3, <2>4
<1>5. ASSUME Fail(t)
      PROVE  (SnapHome /\ SelectedHome /\ RememberedHome)' /\ \A u \in Tasks : Own(row', task'[u])
  <2>1. /\ Others(t) /\ UNCHANGED <<row, workspace, tree, remembered, disturbed>> /\ Later(j, k) /\ j.doc = k.doc
        /\ k.stage = "call" /\ j.stage = "answer"
    BY <1>5, FailDoes
  <2>2. j.done = FALSE  BY <1>5, FailDoes
  <2>3. Steady /\ row' = row  BY <2>1, RowSteady
  <2>4. ~Made(j)  BY <2>1, <2>2 DEF Made, Fetching
  <2>5. (\A u \in Tasks : Own(row, task[u])) => Own(row', j)
    BY <2>1, <2>3, <2>4, OwnLater
  <2> QED  BY <1>2, <2>1, <2>3, <2>5
<1> QED  BY <1>3, <1>4, <1>5 DEF Server

\* A load has landed and its function goes on.
LEMMA ReloadedHomes ==
    ASSUME Typed, RunHere, Homes, NEW t \in Tasks, Reloaded(t), Spared(Strange)'
    PROVE  (SnapHome /\ SelectedHome /\ RememberedHome)' /\ \A u \in Tasks : Own(row', task'[u])
<1> DEFINE k == task[t]
           n == Landed(t)
<1>1. /\ k.stage = "fetched" /\ Others(t) /\ task'[t].op = "none" /\ task'[t].stage = "none"
      /\ UNCHANGED <<row, workspace>> /\ disturbed \subseteq disturbed'
      /\ tree' \in TreeState /\ tree'.status = n.status /\ tree'.snap = n.snap
      /\ Selecting(k, n, tree'.selected)
      /\ k.workspace # workspace /\ tree'.selected # tree.selected => "adrift" \in disturbed'
  BY ReloadedDoes DEF Noted
<1>2. k \in Task /\ Formed(k) /\ k.workspace \in Workspaces /\ workspace \in Workspaces
      /\ remembered \in [Workspaces -> Ids]
  BY <1>1 DEF Typed, TasksFormed, Formed
<1>3. /\ SnapHome /\ SelectedHome /\ RememberedHome /\ (\A u \in Tasks : Own(row, task[u]))
      /\ Spared({"stray"}) /\ \A c \in Strange : c \notin disturbed'
  BY <1>1, HomesBefore
<1>4. Own(row, k)  BY <1>3
<1>5. tree.run = t => k.workspace = workspace
  BY <1>3, NullAssumption DEF RunHere
<1>6. SnapHome'
  <2>1. CASE tree.run = t /\ k.ok
    <3>1. \A d \in DOMAIN n.snap : row[d].workspace = workspace
      BY <1>1, <1>4, <1>5, <2>1, LandedDoes DEF Own
    <3> HIDE DEF n
    <3> QED  BY <1>1, <1>2, <3>1 DEF SnapHome
  <2>2. CASE ~(tree.run = t /\ k.ok)
    <3>1. n.snap = tree.snap /\ (n.status = "ready" => tree.status = "ready")
      BY <1>1, <2>2, LandedDoes
    <3> HIDE DEF n
    <3> QED  BY <1>1, <1>3, <3>1 DEF SnapHome
  <2> QED  BY <2>1, <2>2
\* What is selected now is of the workspace the function was begun in.
<1>7. k.workspace = workspace /\ tree'.selected # Null => row[tree'.selected].workspace = workspace
  <2> SUFFICES ASSUME k.workspace = workspace, tree'.selected # Null
               PROVE  row[tree'.selected].workspace = workspace
    OBVIOUS
  <2>1. CASE k.op \in {"create", "restore"}
    <3>1. tree'.selected = k.doc  BY <1>1, <2>1 DEF Selecting
    <3>2. Made(k) \/ k.op = "restore"  BY <1>1, <2>1 DEF Made, Fetching
    <3> QED  BY <1>4, <3>1, <3>2 DEF Own
  <2>2. CASE tree'.selected = n.selected
    <3>1. \/ n.selected = tree.selected
          \/ n.selected = remembered[k.workspace]
      BY <1>1, LandedDoes
    <3> HIDE DEF n
    <3> QED  BY <1>2, <1>3, <2>2, <3>1 DEF SelectedHome, RememberedHome
  <2>3. CASE k.op = "remove" /\ \E i \in DOMAIN k.chain : k.chain[i] = tree'.selected
    BY <1>4, <2>3 DEF Own
  <2> QED  BY <1>1, <2>1, <2>2, <2>3 DEF Selecting
<1>8. SelectedHome'
  <2>1. CASE k.workspace = workspace  BY <1>1, <1>7, <2>1 DEF SelectedHome
  <2>2. CASE k.workspace # workspace
    <3>1. tree'.selected = tree.selected  BY <1>1, <1>3, <2>2 DEF Strange
    <3> QED  BY <1>1, <1>3, <3>1 DEF SelectedHome
  <2> QED  BY <2>1, <2>2
<1>9. RememberedHome'
  <2>1. CASE remembered' = remembered
    BY <1>1, <1>3, <2>1 DEF RememberedHome
  <2>2. CASE /\ remembered' = [remembered EXCEPT ![k.workspace] = tree'.selected]
             /\ \/ k.op \in {"create", "restore"}
                \/ k.op = "remove" /\ tree'.selected \notin {Null, n.selected}
    <3>1. row[tree'.selected].workspace = k.workspace
      <4>1. CASE k.op \in {"create", "restore"}
        <5>1. tree'.selected = k.doc  BY <1>1, <4>1 DEF Selecting
        <5>2. Made(k) \/ k.op = "restore"  BY <1>1, <4>1 DEF Made, Fetching
        <5> QED  BY <1>4, <5>1, <5>2 DEF Own
      <4>2. CASE k.op = "remove" /\ tree'.selected \notin {Null, n.selected}
        <5>1. \E i \in DOMAIN k.chain : k.chain[i] = tree'.selected  BY <1>1, <4>2 DEF Selecting
        <5> QED  BY <1>4, <4>2, <5>1 DEF Own
      <4> QED  BY <2>2, <4>1, <4>2
    <3> HIDE DEF n
    <3>2. \A w \in Workspaces : remembered'[w] = IF w = k.workspace THEN tree'.selected ELSE remembered[w]
      BY <1>2, <2>2
    <3> QED  BY <1>1, <1>3, <3>1, <3>2 DEF RememberedHome
  <2> QED  BY <2>1, <2>2, ReloadedDoes
<1>10. \A u \in Tasks : Own(row', task'[u])
  <2>1. Own(row', task'[t])  BY <1>1, NoneOwn
  <2>2. Steady  BY <1>1, RowSteady
  <2> QED  BY <1>1, <1>3, <2>1, <2>2, OthersOwn
<1> QED  BY <1>6, <1>8, <1>9, <1>10

LEMMA PageHomes ==
    ASSUME Typed, RunHere, Homes, NEW t \in Tasks, Page(t)
    PROVE  Homes'
<1> SUFFICES ASSUME Spared(Strange)'
             PROVE  (SnapHome /\ SelectedHome /\ RememberedHome)' /\ \A u \in Tasks : Own(row', task'[u])
  BY DEF Homes
<1> DEFINE k == task[t]
           j == task'[t]
<1>1. k \in Task /\ Formed(k) /\ tree \in TreeState  BY DEF Typed, TasksFormed, TreeFormed
\* A function goes on or ends, and the tree is as it was, or loads.
<1>2. ASSUME disturbed \subseteq disturbed', UNCHANGED <<row, workspace, remembered>>, Others(t),
             \/ j.op = "none" /\ j.stage = "none"
             \/ Later(j, k) /\ j.doc = k.doc /\ j.stage # "fetched" /\ (Made(j) => Made(k)),
             tree'.snap = tree.snap, tree'.selected = tree.selected,
             tree'.status = "ready" => tree.status = "ready"
      PROVE  (SnapHome /\ SelectedHome /\ RememberedHome)' /\ \A u \in Tasks : Own(row', task'[u])
  <2>1. SnapHome /\ SelectedHome /\ RememberedHome /\ \A u \in Tasks : Own(row, task[u])
    BY <1>2, HomesBefore
  <2>2. Steady /\ row' = row  BY <1>2, RowSteady
  <2>3. SnapHome' /\ SelectedHome' /\ RememberedHome'  BY <1>2, <2>1, <2>2, HomesKept
  <2>4. Own(row', j)
    <3>1. CASE j.op = "none" /\ j.stage = "none"  BY <3>1, NoneOwn
    <3>2. CASE Later(j, k) /\ j.doc = k.doc /\ j.stage # "fetched" /\ (Made(j) => Made(k))
      <4>1. Own(row, k)  BY <2>1
      <4>2. Own(row, j)  BY <3>2, <4>1, OwnLater
      <4> QED  BY <2>2, <4>2
    <3> QED  BY <1>2, <3>1, <3>2
  <2>5. \A u \in Tasks : Own(row', task'[u])  BY <1>2, <2>1, <2>2, <2>4, OthersOwn
  <2> QED  BY <2>3, <2>5
<1>3. ASSUME Confirmed(t)
      PROVE  (SnapHome /\ SelectedHome /\ RememberedHome)' /\ \A u \in Tasks : Own(row', task'[u])
  <2>1. /\ k.stage = "answer" /\ Others(t) /\ j.stage = "fetch" /\ Later(j, k) /\ j.doc = k.doc
        /\ tree' = Loading(t) /\ Note(Begun(k.workspace)) /\ UNCHANGED <<row, workspace, remembered>>
    BY <1>3, ConfirmedDoes
  <2>2. k.done  BY <1>3, ConfirmedDoes
  <2>3. Made(j) => Made(k)  BY <2>1, <2>2 DEF Made, Later
  <2>4. disturbed \subseteq disturbed'  BY <2>1, BegunDoes DEF Typed, Noted
  <2>5. tree'.snap = tree.snap /\ tree'.selected = tree.selected /\ tree'.status = "loading"
    BY <1>1, <2>1, LoadingDoes
  <2> QED  BY <1>2, <2>1, <2>3, <2>4, <2>5
<1>4. ASSUME Finished(t) \/ Undone(t)
      PROVE  (SnapHome /\ SelectedHome /\ RememberedHome)' /\ \A u \in Tasks : Own(row', task'[u])
  <2>1. /\ Others(t) /\ j.op = "none" /\ j.stage = "none" /\ UNCHANGED <<row, workspace, remembered>>
        /\ disturbed \subseteq disturbed'
        /\ tree'.snap = tree.snap /\ tree'.selected = tree.selected /\ tree'.status = tree.status
    BY <1>4, FinishedDoes, UndoneDoes DEF Noted
  <2> QED  BY <1>2, <2>1
<1>5. ASSUME TrashAnswered(t)
      PROVE  (SnapHome /\ SelectedHome /\ RememberedHome)' /\ \A u \in Tasks : Own(row', task'[u])
  <2>1. /\ Others(t) /\ j.stage = "list" /\ Later(j, k) /\ j.doc = k.doc
        /\ UNCHANGED <<row, workspace, tree, remembered>> /\ disturbed \subseteq disturbed'
    BY <1>5, TrashAnsweredDoes DEF Noted
  <2>2. ~Made(j)  BY <2>1 DEF Made, Fetching
  <2> QED  BY <1>2, <2>1, <2>2
<1>6. ASSUME Listed(t)
      PROVE  (SnapHome /\ SelectedHome /\ RememberedHome)' /\ \A u \in Tasks : Own(row', task'[u])
  <2>1. UNCHANGED <<row, workspace, remembered>> /\ Others(t)  BY <1>6, ListedDoes
  <2>2. CASE /\ k.op = "restore" /\ j.stage = "fetch" /\ Later(j, k) /\ j.doc = k.doc
             /\ tree' = Loading(t) /\ Note(Begun(k.workspace))
    <3>1. ~Made(j)  BY <2>2 DEF Made, Later
    <3>2. disturbed \subseteq disturbed'  BY <2>2, BegunDoes DEF Typed, Noted
    <3>3. tree'.snap = tree.snap /\ tree'.selected = tree.selected /\ tree'.status = "loading"
      BY <1>1, <2>2, LoadingDoes
    <3> QED  BY <1>2, <2>1, <2>2, <3>1, <3>2, <3>3
  <2>3. CASE j.op = "none" /\ j.stage = "none" /\ UNCHANGED <<tree, disturbed>>
    BY <1>2, <2>1, <2>3
  <2> QED  BY <1>6, <2>2, <2>3, ListedDoes
<1> QED  BY <1>3, <1>4, <1>5, <1>6, ReloadedHomes DEF Page

LEMMA UserHomes ==
    ASSUME Typed, Homes, User
    PROVE  Homes'
<1> SUFFICES ASSUME Spared(Strange)'
             PROVE  (SnapHome /\ SelectedHome /\ RememberedHome)' /\ \A u \in Tasks : Own(row', task'[u])
  BY DEF Homes
<1> DEFINE t == FirstOf(Slots)
           j == task'[t]
<1>1. tree \in TreeState /\ disturbed \subseteq Causes /\ workspace \in Workspaces
      /\ remembered \in [Workspaces -> Ids] /\ DOMAIN tree.snap = DOMAIN tree.shown
      /\ tree.shown \in Nodes
  BY DEF Typed, TreeFormed, TreeState
<1>2. ASSUME Started(t, j), disturbed \subseteq disturbed', UNCHANGED <<row, workspace, remembered>>,
             (SnapHome /\ SelectedHome /\ \A c \in Strange : c \notin disturbed') => Own(row, j),
             tree'.snap = tree.snap, tree'.selected = tree.selected, tree'.status = tree.status
      PROVE  (SnapHome /\ SelectedHome /\ RememberedHome)' /\ \A u \in Tasks : Own(row', task'[u])
  <2>1. SnapHome /\ SelectedHome /\ RememberedHome /\ (\A u \in Tasks : Own(row, task[u]))
        /\ \A c \in Strange : c \notin disturbed'
    BY <1>2, HomesBefore
  <2>2. Steady /\ row' = row  BY <1>2, RowSteady
  <2>3. SnapHome' /\ SelectedHome' /\ RememberedHome'  BY <1>2, <2>1, <2>2, HomesKept
  <2>4. Own(row', j) /\ t \in Tasks /\ Others(t)  BY <1>2, <2>1, <2>2 DEF Started
  <2> HIDE DEF t
  <2>5. \A u \in Tasks : Own(row', task'[u])  BY <2>1, <2>2, <2>4, OthersOwn
  <2> QED  BY <2>3, <2>5
\* What a chain of ancestors of the selection holds is of the current workspace.
<1>3. ASSUME SnapHome, SelectedHome, tree.selected # Null, NEW n \in 1..Cardinality(Docs),
             Ancestors(tree.shown, tree.selected)[n] # Null
      PROVE  row[Ancestors(tree.shown, tree.selected)[n]].workspace = workspace
  <2>1. tree.selected \in Docs  BY <1>1, <1>3 DEF TreeState, Ids
  <2>2. tree.selected \in DOMAIN tree.snap /\ Ancestors(tree.shown, tree.selected)[n] \in DOMAIN tree.snap
    BY <1>1, <1>3, <2>1, AncestorsInside
  <2> QED  BY <1>3, <2>2 DEF SnapHome, SelectedHome
<1>4. ASSUME NEW p \in Ids, NEW title \in Titles, CreateClick(p, title)
      PROVE  (SnapHome /\ SelectedHome /\ RememberedHome)' /\ \A u \in Tasks : Own(row', task'[u])
  <2>1. Called(t, "create") /\ UNCHANGED <<row, workspace, tree, remembered, disturbed>>
    BY <1>4, CreateClickDoes
  <2>2. Own(row, j)  BY <2>1 DEF Called, Own, Made, Fetching
  <2> QED  BY <1>2, <2>1, <2>2 DEF Called
<1>5. ASSUME NEW title \in Titles, RenameClick(title)
      PROVE  (SnapHome /\ SelectedHome /\ RememberedHome)' /\ \A u \in Tasks : Own(row', task'[u])
  <2>1. /\ Called(t, "rename") /\ UNCHANGED <<row, workspace, remembered>> /\ disturbed \subseteq disturbed'
        /\ tree'.snap = tree.snap /\ tree'.selected = tree.selected /\ tree'.status = tree.status
    BY <1>5, RenameClickDoes DEF Noted
  <2>2. Own(row, j)  BY <2>1, NoneOwn DEF Called
  <2> QED  BY <1>2, <2>1, <2>2 DEF Called
<1>6. ASSUME DeleteClick
      PROVE  (SnapHome /\ SelectedHome /\ RememberedHome)' /\ \A u \in Tasks : Own(row', task'[u])
  <2>1. /\ Called(t, "remove") /\ UNCHANGED <<row, workspace, tree, remembered, disturbed>>
        /\ tree.selected # Null /\ j.chain = Ancestors(tree.shown, tree.selected)
    BY <1>6, DeleteClickDoes
  <2>2. ASSUME SnapHome, SelectedHome PROVE Own(row, j)
    <3>1. DOMAIN j.chain = 1..Cardinality(Docs)  BY <2>1 DEF Ancestors
    <3>2. \A n \in DOMAIN j.chain : j.chain[n] # Null => row[j.chain[n]].workspace = workspace
      BY <1>3, <2>1, <2>2, <3>1
    <3>3. j.op = "remove" /\ j.stage = "call" /\ j.workspace = workspace  BY <2>1 DEF Called
    <3> QED  BY <3>2, <3>3 DEF Own, Made
  <2> QED  BY <1>2, <2>1, <2>2 DEF Called
<1>7. ASSUME NEW d \in Docs,
             (\E x \in Docs, kind \in {"inside", "beside"} : Drop(d, kind, x)) \/ DropBelow(d)
      PROVE  (SnapHome /\ SelectedHome /\ RememberedHome)' /\ \A u \in Tasks : Own(row', task'[u])
  <2>1. /\ Called(t, "move") /\ UNCHANGED <<row, workspace, remembered, disturbed>>
        /\ tree'.snap = tree.snap /\ tree'.selected = tree.selected /\ tree'.status = tree.status
    BY <1>7, MoveDoes
  <2>2. Own(row, j)  BY <2>1, NoneOwn DEF Called
  <2> QED  BY <1>2, <2>1, <2>2 DEF Called
<1>8. ASSUME NEW d \in Docs, Select(d)
      PROVE  (SnapHome /\ SelectedHome /\ RememberedHome)' /\ \A u \in Tasks : Own(row', task'[u])
  <2>1. /\ tree'.status = tree.status /\ tree'.snap = tree.snap /\ tree'.selected = d
        /\ (tree.status = "ready" /\ d \in DOMAIN tree.shown) \/ d \in Crumbs
        /\ remembered' = [remembered EXCEPT ![workspace] = d]
        /\ UNCHANGED <<row, workspace, task, disturbed>>
    BY <1>8, SelectDoes
  <2>2. SnapHome /\ SelectedHome /\ RememberedHome /\ (\A u \in Tasks : Own(row, task[u]))
    BY <2>1, HomesBefore
  <2>3. row[d].workspace = workspace
    <3>1. CASE tree.status = "ready" /\ d \in DOMAIN tree.shown
      BY <1>1, <2>2, <3>1 DEF SnapHome
    <3>2. CASE d \in Crumbs
      <4>1. tree.selected # Null /\ \E n \in 1..Cardinality(Docs) : d = Ancestors(tree.shown, tree.selected)[n]
        BY <3>2 DEF Crumbs
      <4>2. d # Null  BY NullAssumption
      <4> QED  BY <1>3, <2>2, <4>1, <4>2
    <3> QED  BY <2>1, <3>1, <3>2
  <2>4. SnapHome'  BY <2>1, <2>2 DEF SnapHome
  <2>5. SelectedHome'  BY <2>1, <2>3 DEF SelectedHome
  <2>6. RememberedHome'  BY <1>1, <2>1, <2>2, <2>3 DEF RememberedHome
  <2>7. row' = row /\ task' = task  BY <2>1
  <2> QED  BY <2>2, <2>4, <2>5, <2>6, <2>7
<1>9. ASSUME ShowDocuments \/ (\E d \in Docs : Pick(d))
      PROVE  (SnapHome /\ SelectedHome /\ RememberedHome)' /\ \A u \in Tasks : Own(row', task'[u])
  <2>1. UNCHANGED <<row, workspace, tree, remembered, task, disturbed>>  BY <1>9, PanelDoes
  <2>2. SnapHome /\ SelectedHome /\ RememberedHome /\ (\A u \in Tasks : Own(row, task[u]))
    BY <2>1, HomesBefore
  <2>3. row' = row /\ task' = task  BY <2>1
  <2> QED  BY <2>1, <2>2, <2>3 DEF SnapHome, SelectedHome, RememberedHome
<1>10. ASSUME ShowTrash
       PROVE  (SnapHome /\ SelectedHome /\ RememberedHome)' /\ \A u \in Tasks : Own(row', task'[u])
  <2>1. Started(t, List(workspace)) /\ UNCHANGED <<row, workspace, tree, remembered, disturbed>>
    BY <1>10, ShowTrashDoes
  <2>2. j = List(workspace)  BY <2>1 DEF Started
  <2>3. List(workspace).op = "list" /\ List(workspace).stage = "list"  BY <1>1, ListLoadFormed
  <2>4. Own(row, List(workspace))  BY <2>3, NoneOwn
  <2> QED  BY <1>2, <2>1, <2>2, <2>4
<1>11. ASSUME RestoreClick \/ PurgeClick
       PROVE  (SnapHome /\ SelectedHome /\ RememberedHome)' /\ \A u \in Tasks : Own(row', task'[u])
  <2>1. PICK op \in Emptying : TrashClick(op)
    BY <1>11 DEF RestoreClick, PurgeClick, Emptying
  <2>2. /\ Called(t, op) /\ UNCHANGED <<row, workspace, tree, remembered>> /\ disturbed \subseteq disturbed'
        /\ row[j.doc].workspace # workspace => "foreign" \in disturbed'
    BY <2>1, TrashClickDoes DEF Noted
  <2>3. (\A c \in Strange : c \notin disturbed') => Own(row, j)
    BY <2>2 DEF Called, Own, Made, Emptying, Strange
  <2> QED  BY <1>2, <2>2, <2>3 DEF Called
<1>12. ASSUME NEW w \in Workspaces, Switch(w)
       PROVE  (SnapHome /\ SelectedHome /\ RememberedHome)' /\ \A u \in Tasks : Own(row', task'[u])
  <2> DEFINE u == FirstOf(Slots \ {t})
  <2>1. /\ workspace' = w /\ UNCHANGED <<row, remembered>>
        /\ t \in Tasks /\ task'[t] = Load(w)
        /\ tree'.status = "loading" /\ tree'.selected = Null /\ tree'.snap = tree.snap
        /\ \/ Others(t)
           \/ u \in Tasks /\ task'[u] = List(w) /\ \A v \in Tasks \ {t, u} : task'[v] = task[v]
        /\ Note(Begun(workspace))
    BY <1>12, SwitchDoes
  <2>2. disturbed \subseteq disturbed'  BY <1>1, <2>1, BegunDoes DEF Noted
  <2>3. SnapHome /\ SelectedHome /\ RememberedHome /\ (\A v \in Tasks : Own(row, task[v]))
    BY <2>2, HomesBefore
  <2>4. Load(w).op = "load" /\ Load(w).stage = "fetch" /\ List(w).op = "list" /\ List(w).stage = "list"
    BY ListLoadFormed
  <2>5. Own(row, Load(w)) /\ Own(row, List(w))  BY <2>4, NoneOwn
  <2>6. row' = row  BY <2>1
  <2> HIDE DEF t, u
  <2>7. \A v \in Tasks : Own(row', task'[v])
    BY <2>1, <2>3, <2>5, <2>6 DEF Others
  <2>8. SnapHome' /\ SelectedHome' /\ RememberedHome'
    BY <2>1, <2>3 DEF SnapHome, SelectedHome, RememberedHome
  <2> QED  BY <2>7, <2>8
<1> QED  BY <1>4, <1>5, <1>6, <1>7, <1>8, <1>9, <1>10, <1>11, <1>12 DEF User

LEMMA StepHomes == Typed /\ RunHere /\ Homes /\ [Next]_vars => Homes'
<1> SUFFICES ASSUME Typed, RunHere, Homes, [Next]_vars PROVE Homes'
  OBVIOUS
<1>1. CASE UNCHANGED vars
  BY <1>1 DEF vars, Homes, SnapHome, SelectedHome, RememberedHome, Spared
<1>2. CASE Next
  BY <1>2, ServerHomes, PageHomes, UserHomes DEF Next
<1> QED  BY <1>1, <1>2

\* A workspace remembers a document of its own, however late the functions that
\* remember one go on: what they have is of the workspace they were begun in
\* (writeLastDocumentId with the workspace of the closure).
THEOREM RememberedOwn == Spec => []RemembersOwn
<1>1. Typed /\ Homes => RemembersOwn
  BY DEF Homes, Strange, RemembersOwn, RememberedHome
<1>2. Typed /\ RunHere /\ [Next]_vars => RunHere'  BY StepRunHere
<1> QED  BY <1>1, <1>2, InitTyped, StepTyped, InitHomes, StepHomes, PTL DEF Spec
---------------------------------------------------------------------------
(***************************************************************************)
(* The tree: which documents it has, and where.                            *)
(***************************************************************************)
\* A change the server has made, for which the tree has not been asked again.
Delivering(k) == k.op \in {"create", "move", "remove", "restore"} /\ k.done /\ k.stage \in {"answer", "list", "listed"}
Undelivered == \E u \in Tasks : Delivering(task[u])

\* The latest load has read the list.
Landing == tree.run # Null /\ task[tree.run].stage = "fetched" /\ task[tree.run].ok

\* The tree nodes has the documents of workspace w, each below its parent.
Matches(rows, w, nodes) ==
    /\ DOMAIN nodes = {d \in Docs : rows[d].status = "active" /\ rows[d].workspace = w}
    /\ \A d \in DOMAIN nodes : nodes[d].parent_id = rows[d].parent_id

SnapMatches == tree.status = "ready" => Matches(row, workspace, tree.snap)
LandingMatches == Landing => Matches(row, workspace, task[tree.run].got)

\* A move the tree shows already.
Relocating(k) == k.op = "move" /\ k.stage \in {"call", "answer"}
Placed ==
    \/ \E u \in Tasks : Relocating(task[u])
    \/ tree.status = "ready" => \A d \in DOMAIN tree.shown : tree.shown[d].parent_id = tree.snap[d].parent_id

Shows ==
    Spared({"lost", "stray"}) => (Undelivered \/ (SnapMatches /\ LandingMatches)) /\ Placed

\* The active documents stay where they are.
SameActive ==
    \A d \in Docs : /\ row'[d].status = "active" <=> row[d].status = "active"
                    /\ row[d].status = "active" =>
                          row'[d].workspace = row[d].workspace /\ row'[d].parent_id = row[d].parent_id

LEMMA MatchesSame ==
    ASSUME SameActive, NEW w, NEW nodes, Matches(row, w, nodes)
    PROVE  Matches(row', w, nodes)
BY DEF SameActive, Matches

LEMMA ListingMatches ==
    ASSUME Rows, NEW w
    PROVE  Matches(row, w, Listing(w))
<1>1. DOMAIN Listing(w) = {d \in Docs : row[d].status = "active" /\ row[d].workspace = w}
  BY ListingTyped
<1>2. \A d \in DOMAIN Listing(w) : Listing(w)[d].parent_id = row[d].parent_id
  BY DEF Listing
<1> QED  BY <1>1, <1>2 DEF Matches

\* No other load than the latest is waited for.
LEMMA LandingSame ==
    ASSUME Typed, tree'.run = tree.run, NEW t \in Tasks, Others(t), tree.run # t \/ task'[t] = task[t]
    PROVE  Landing' => Landing /\ task'[tree'.run] = task[tree.run]
BY DEF Typed, TreeFormed, TreeState, Landing, Others

\* Steps of a function that is not the load that is waited for.
LEMMA ShowsKept ==
    ASSUME Typed, Shows, disturbed \subseteq disturbed', SameActive, UNCHANGED workspace,
           tree'.status = tree.status, tree'.run = tree.run, tree'.snap = tree.snap,
           DOMAIN tree'.shown = DOMAIN tree.shown,
           NEW t \in Tasks, Others(t), tree.run # t \/ task'[t] = task[t],
           Delivering(task[t]) => Delivering(task'[t]),
           \/ Relocating(task'[t])
           \/ /\ ~Relocating(task[t])
              /\ \A d \in DOMAIN tree.shown : tree'.shown[d].parent_id = tree.shown[d].parent_id
    PROVE  Shows'
<1> SUFFICES ASSUME Spared({"lost", "stray"})'
             PROVE  (Undelivered \/ (SnapMatches /\ LandingMatches))' /\ Placed'
  BY DEF Shows
<1>1. (Undelivered \/ (SnapMatches /\ LandingMatches)) /\ Placed
  BY SparedBefore DEF Shows
<1>2. Undelivered => Undelivered'  BY DEF Undelivered, Others
<1>3. SnapMatches => SnapMatches'  BY MatchesSame DEF SnapMatches
<1>4. LandingMatches => LandingMatches'  BY LandingSame, MatchesSame DEF LandingMatches
<1>5. Placed'
  <2>1. CASE Relocating(task'[t])  BY <2>1 DEF Placed
  <2>2. CASE /\ ~Relocating(task[t])
             /\ \A d \in DOMAIN tree.shown : tree'.shown[d].parent_id = tree.shown[d].parent_id
    <3>1. (\E u \in Tasks : Relocating(task[u])) => \E u \in Tasks : Relocating(task'[u])
      BY <2>2 DEF Others
    <3> QED  BY <1>1, <2>2, <3>1 DEF Placed
  <2> QED  BY <2>1, <2>2
<1> QED  BY <1>1, <1>2, <1>3, <1>4, <1>5

LEMMA ShowsLoading ==
    ASSUME tree'.status = "loading", task'[tree'.run].stage = "fetch"
    PROVE  Shows'
BY DEF Shows, SnapMatches, LandingMatches, Landing, Placed

LEMMA RowSame ==
    ASSUME UNCHANGED row
    PROVE  SameActive
BY DEF SameActive

LEMMA ServerShows ==
    ASSUME Typed, RunHere, Shows, NEW t \in Tasks, Server(t)
    PROVE  Shows'
<1> DEFINE k == task[t]
           j == task'[t]
<1>1. /\ tree.run # Null => task[tree.run].stage \in Fetching
      /\ tree.run # Null <=> tree.status = "loading"
      /\ k \in Task /\ Formed(k) /\ Rows /\ t # Null
      /\ tree.run \in Tasks \cup {Null}
  BY NullAssumption DEF Typed, TreeFormed, TreeState, TasksFormed
<1>2. ASSUME NEW answered \in BOOLEAN, Handle(t, answered) PROVE Shows'
  <2>1. /\ k.stage = "call" /\ j.stage = "answer" /\ Later(j, k) /\ Others(t) /\ Updated(k, j.doc)
        /\ UNCHANGED <<workspace, tree>> /\ disturbed \subseteq disturbed'
        /\ ~answered => "lost" \in disturbed'
    BY <1>2, HandleDoes DEF Noted
  <2>2. j.done = answered  BY <1>2, HandleDoes
  <2>3. tree.run # t /\ ~Delivering(k)  BY <1>1, <2>1 DEF Fetching, Delivering
  <2>4. Relocating(k) => Relocating(j)  BY <2>1 DEF Relocating, Later
  <2>5. CASE ~answered
    BY <2>1, <2>5 DEF Shows, Spared
  <2>6. CASE answered /\ k.op \in {"create", "move", "remove", "restore"}
    <3>1. Delivering(j)  BY <2>1, <2>2, <2>6 DEF Delivering, Later
    <3>2. Undelivered'  BY <3>1 DEF Undelivered
    <3>3. Placed => Placed'
      <4>1. (\E u \in Tasks : Relocating(task[u])) => \E u \in Tasks : Relocating(task'[u])
        BY <2>1, <2>4 DEF Others
      <4> QED  BY <2>1, <4>1 DEF Placed
    <3>4. Spared({"lost", "stray"})' => Spared({"lost", "stray"})  BY <2>1, SparedBefore
    <3> QED  BY <3>2, <3>3, <3>4 DEF Shows
  <2>7. CASE k.op \in {"rename", "purge"}
    <3>1. SameActive
      <4> SUFFICES ASSUME NEW d \in Docs
                   PROVE  /\ row'[d].status = "active" <=> row[d].status = "active"
                          /\ row[d].status = "active" =>
                                row'[d].workspace = row[d].workspace /\ row'[d].parent_id = row[d].parent_id
        BY DEF SameActive
      <4>1. CASE row[d].workspace = Null  BY <2>1, <2>7, <4>1 DEF Updated
      <4>2. CASE row[d].workspace # Null  BY <2>1, <2>7, <4>2 DEF Updated
      <4> QED  BY <4>1, <4>2
    <3>2. ~Relocating(k)  BY <2>7 DEF Relocating
    <3> QED  BY <2>1, <2>3, <3>1, <3>2, ShowsKept
  <2>8. k.op \in Changing \cup Emptying  BY <1>1, <2>1 DEF Formed
  <2> QED  BY <2>5, <2>6, <2>7, <2>8 DEF Changing, Emptying
<1>3. ASSUME NEW answered \in BOOLEAN, Read(t, answered) PROVE Shows'
  <2>1. /\ Others(t) /\ UNCHANGED <<row, workspace, tree, disturbed>> /\ Later(j, k)
        /\ \/ /\ k.stage = "fetch" /\ j.stage = "fetched" /\ (answered => j.got = Listing(k.workspace))
           \/ k.stage = "list" /\ j.stage = "listed"
    BY <1>3, ReadDoes
  <2>2. j.ok = answered  BY <1>3, ReadDoes
  <2>3. j.done = k.done  BY <1>3, ReadDoes
  <2>4. SameActive  BY <2>1, RowSame
  <2>5. Delivering(k) => Delivering(j)  BY <2>1, <2>3 DEF Delivering, Later
  <2>6. ~Relocating(k)  BY <2>1 DEF Relocating
  <2>7. CASE tree.run # t
    BY <2>1, <2>4, <2>5, <2>6, <2>7, ShowsKept
  <2>8. CASE tree.run = t
    <3> SUFFICES ASSUME Spared({"lost", "stray"})'
                 PROVE  (Undelivered \/ (SnapMatches /\ LandingMatches))' /\ Placed'
      BY DEF Shows
    <3>1. k.stage = "fetch" /\ tree.status = "loading"  BY <1>1, <2>1, <2>8 DEF Fetching
    <3>2. k.workspace = workspace
      <4>1. Spared({"stray"})  BY <2>1 DEF Spared
      <4> QED  BY <1>1, <2>8, <4>1 DEF RunHere
    <3>3. SnapMatches' /\ Placed'  BY <2>1, <3>1 DEF SnapMatches, Placed
    <3>4. LandingMatches'
      <4>1. Landing' => j.got = Listing(workspace)  BY <2>1, <2>2, <2>8, <3>1, <3>2 DEF Landing
      <4>2. Matches(row, workspace, Listing(workspace))  BY <1>1, ListingMatches
      <4>3. Landing' => Matches(row', workspace', j.got)  BY <2>1, <4>1, <4>2
      <4> QED  BY <2>1, <2>8, <4>3 DEF LandingMatches
    <3> QED  BY <3>3, <3>4
  <2> QED  BY <2>7, <2>8
<1>4. ASSUME Fail(t) PROVE Shows'
  <2>1. /\ k.stage = "call" /\ j.stage = "answer" /\ Later(j, k) /\ Others(t)
        /\ UNCHANGED <<row, workspace, tree, disturbed>>
    BY <1>4, FailDoes
  <2>2. tree.run # t /\ ~Delivering(k)  BY <1>1, <2>1 DEF Fetching, Delivering
  <2>3. Relocating(k) => Relocating(j)  BY <2>1 DEF Relocating, Later
  <2>4. SameActive  BY <2>1, RowSame
  <2> QED  BY <2>1, <2>2, <2>3, <2>4, ShowsKept
<1> QED  BY <1>2, <1>3, <1>4 DEF Server

LEMMA PageShows ==
    ASSUME Typed, Shows, NEW t \in Tasks, Page(t)
    PROVE  Shows'
<1> DEFINE k == task[t]
           j == task'[t]
           n == Landed(t)
<1>1. /\ tree.run # Null => task[tree.run].stage \in Fetching
      /\ tree.run # Null <=> tree.status = "loading"
      /\ k \in Task /\ Formed(k) /\ t # Null /\ tree \in TreeState /\ DOMAIN tree.snap = DOMAIN tree.shown
  BY NullAssumption DEF Typed, TreeFormed, TasksFormed
<1>2. ASSUME Reloaded(t) PROVE Shows'
  <2>1. /\ k.stage = "fetched" /\ Others(t) /\ UNCHANGED <<row, workspace>> /\ disturbed \subseteq disturbed'
        /\ tree'.status = n.status /\ tree'.run = n.run /\ tree'.snap = n.snap /\ tree'.shown = n.shown
    BY <1>2, ReloadedDoes DEF Noted
  <2>2. SameActive /\ ~Delivering(k) /\ ~Relocating(k)  BY <2>1, RowSame DEF Delivering, Relocating
  <2>3. CASE tree.run # t
    <3>1. n = tree  BY <2>1, <2>3, LandedDoes
    <3> HIDE DEF n
    <3> QED  BY <2>1, <2>2, <2>3, <3>1, ShowsKept
  <2>4. CASE tree.run = t
    <3> SUFFICES ASSUME Spared({"lost", "stray"})'
                 PROVE  (Undelivered \/ (SnapMatches /\ LandingMatches))' /\ Placed'
      BY DEF Shows
    <3>1. Undelivered \/ (SnapMatches /\ LandingMatches)  BY <2>1, SparedBefore DEF Shows
    <3>2. Undelivered => Undelivered'  BY <2>1, <2>2 DEF Undelivered, Others
    <3>3. LandingMatches'  BY <2>1, <2>4, LandedDoes DEF LandingMatches, Landing
    <3>4. CASE k.ok
      <4>1. tree'.snap = k.got /\ tree'.shown = k.got  BY <2>1, <2>4, <3>4, LandedDoes
      <4>2. Placed'  BY <4>1 DEF Placed
      <4>3. Landing  BY <1>1, <2>1, <2>4, <3>4 DEF Landing
      <4>4. LandingMatches => Matches(row', workspace', tree'.snap)
        BY <2>1, <2>4, <4>1, <4>3 DEF LandingMatches
      <4>5. LandingMatches => SnapMatches'  BY <4>4 DEF SnapMatches
      <4> QED  BY <3>1, <3>2, <3>3, <4>2, <4>5
    <3>5. CASE ~k.ok
      <4>1. tree'.status = "error"  BY <2>1, <2>4, <3>5, LandedDoes
      <4> QED  BY <3>3, <4>1 DEF SnapMatches, Placed
    <3> QED  BY <3>4, <3>5
  <2> QED  BY <2>3, <2>4
<1>3. ASSUME Confirmed(t) PROVE Shows'
  <2>1. j.stage = "fetch" /\ tree' = Loading(t)  BY <1>3, ConfirmedDoes
  <2> QED  BY <1>1, <2>1, LoadingDoes, ShowsLoading
<1>4. ASSUME Finished(t) PROVE Shows'
  <2>1. /\ k.stage = "answer" /\ Others(t) /\ UNCHANGED <<row, workspace, tree, disturbed>>
        /\ IF k.op = "rename" THEN k.done ELSE ~k.done /\ k.op \in {"create", "remove"}
    BY <1>4, FinishedDoes
  <2>2. tree.run # t /\ ~Delivering(k) /\ ~Relocating(k)
    BY <1>1, <2>1 DEF Fetching, Delivering, Relocating
  <2>3. SameActive  BY <2>1, RowSame
  <2> QED  BY <2>1, <2>2, <2>3, ShowsKept
<1>5. ASSUME Undone(t) PROVE Shows'
  <2>1. /\ k.stage = "answer" /\ ~k.done /\ Others(t) /\ UNCHANGED <<row, workspace>>
        /\ disturbed \subseteq disturbed' /\ tree'.snap = tree.snap /\ tree'.shown = tree.snap
        /\ tree'.status = tree.status /\ tree'.run = tree.run
    BY <1>5, UndoneDoes DEF Noted
  <2>2. tree.run # t /\ ~Delivering(k)  BY <1>1, <2>1 DEF Fetching, Delivering
  <2> SUFFICES ASSUME Spared({"lost", "stray"})'
               PROVE  (Undelivered \/ (SnapMatches /\ LandingMatches))' /\ Placed'
    BY DEF Shows
  <2>3. Undelivered \/ (SnapMatches /\ LandingMatches)  BY <2>1, SparedBefore DEF Shows
  <2>4. Undelivered => Undelivered'  BY <2>1, <2>2 DEF Undelivered, Others
  <2>5. SnapMatches => SnapMatches'  BY <2>1 DEF SnapMatches
  <2>6. LandingMatches => LandingMatches'  BY <2>1, <2>2, LandingSame DEF LandingMatches
  <2>7. Placed'  BY <2>1 DEF Placed
  <2> QED  BY <2>3, <2>4, <2>5, <2>6, <2>7
<1>6. ASSUME TrashAnswered(t) PROVE Shows'
  <2>1. /\ k.stage = "answer" /\ Others(t) /\ j.stage = "list" /\ Later(j, k)
        /\ k.op \in Emptying /\ UNCHANGED <<row, workspace, tree>> /\ disturbed \subseteq disturbed'
    BY <1>6, TrashAnsweredDoes DEF Noted
  <2>2. j.done = k.done  BY <1>6, TrashAnsweredDoes
  <2>3. tree.run # t /\ (Delivering(k) => Delivering(j)) /\ ~Relocating(k)
    BY <1>1, <2>1, <2>2 DEF Fetching, Delivering, Relocating, Later, Emptying
  <2>4. SameActive  BY <2>1, RowSame
  <2> QED  BY <2>1, <2>3, <2>4, ShowsKept
<1>7. ASSUME Listed(t) PROVE Shows'
  <2>1. k.stage = "listed" /\ Others(t) /\ UNCHANGED <<row, workspace>>  BY <1>7, ListedDoes
  <2>2. CASE j.stage = "fetch" /\ tree' = Loading(t)
    BY <1>1, <2>2, LoadingDoes, ShowsLoading
  <2>3. CASE ~(k.op = "restore" /\ k.done) /\ UNCHANGED <<tree, disturbed>>
    <3>1. k.op \in {"list", "restore", "purge"}  BY <1>1, <2>1 DEF Formed, Relisting, Emptying
    <3>2. tree.run # t /\ ~Delivering(k) /\ ~Relocating(k)
      BY <1>1, <2>1, <2>3, <3>1 DEF Fetching, Delivering, Relocating
    <3>3. SameActive  BY <2>1, RowSame
    <3> QED  BY <2>1, <2>3, <3>2, <3>3, ShowsKept
  <2> QED  BY <1>7, <2>2, <2>3, ListedDoes
<1> QED  BY <1>2, <1>3, <1>4, <1>5, <1>6, <1>7 DEF Page

LEMMA UserShows ==
    ASSUME Typed, Shows, User
    PROVE  Shows'
<1> DEFINE t == FirstOf(Slots)
           j == task'[t]
<1>1. /\ tree.run # Null => task[tree.run].stage \in Fetching
      /\ tree \in TreeState /\ DOMAIN tree.snap = DOMAIN tree.shown
      /\ disturbed \subseteq Causes /\ workspace \in Workspaces
  BY DEF Typed, TreeFormed
<1>2. ASSUME Started(t, j), disturbed \subseteq disturbed', UNCHANGED <<row, workspace>>,
             tree'.status = tree.status, tree'.run = tree.run, tree'.snap = tree.snap,
             DOMAIN tree'.shown = DOMAIN tree.shown,
             \/ Relocating(j)
             \/ \A d \in DOMAIN tree.shown : tree'.shown[d].parent_id = tree.shown[d].parent_id
      PROVE  Shows'
  <2>1. t \in Tasks /\ Others(t) /\ task[t].stage = "none"  BY <1>2 DEF Started
  <2>2. tree.run # t /\ ~Delivering(task[t]) /\ ~Relocating(task[t])
    BY <1>1, <2>1, NullAssumption DEF Fetching, Delivering, Relocating
  <2>3. SameActive  BY <1>2, RowSame
  <2> HIDE DEF t
  <2> QED  BY <1>2, <2>1, <2>2, <2>3, ShowsKept
<1>3. ASSUME UNCHANGED <<row, workspace, task, disturbed>>,
             tree'.status = tree.status, tree'.run = tree.run, tree'.snap = tree.snap, tree'.shown = tree.shown
      PROVE  Shows'
  BY <1>3 DEF Shows, Spared, Undelivered, SnapMatches, LandingMatches, Landing, Placed
<1>4. ASSUME NEW p \in Ids, NEW title \in Titles, CreateClick(p, title) PROVE Shows'
  BY <1>2, <1>4, CreateClickDoes DEF Called
<1>5. ASSUME NEW title \in Titles, RenameClick(title) PROVE Shows'
  <2>1. /\ Called(t, "rename") /\ UNCHANGED <<row, workspace>> /\ disturbed \subseteq disturbed'
        /\ tree'.status = tree.status /\ tree'.run = tree.run /\ tree'.snap = tree.snap
        /\ DOMAIN tree'.shown = DOMAIN tree.shown
        /\ tree'.shown = Renamed(tree.shown, tree.selected, title)
    BY <1>5, RenameClickDoes DEF Noted
  <2>2. tree.shown \in [DOMAIN tree.shown -> Node]  BY <1>1, NodesHave DEF TreeState
  <2>3. \A d \in DOMAIN tree.shown : tree'.shown[d].parent_id = tree.shown[d].parent_id
    BY <2>1, <2>2 DEF Renamed, Node
  <2> QED  BY <1>2, <2>1, <2>3 DEF Called
<1>6. ASSUME DeleteClick PROVE Shows'
  BY <1>2, <1>6, DeleteClickDoes DEF Called
<1>7. ASSUME NEW d \in Docs,
             (\E x \in Docs, kind \in {"inside", "beside"} : Drop(d, kind, x)) \/ DropBelow(d)
      PROVE  Shows'
  <2>1. /\ Called(t, "move") /\ UNCHANGED <<row, workspace, disturbed>>
        /\ tree'.status = tree.status /\ tree'.run = tree.run /\ tree'.snap = tree.snap
        /\ DOMAIN tree'.shown = DOMAIN tree.shown
    BY <1>7, MoveDoes
  <2>2. Relocating(j)  BY <2>1 DEF Called, Relocating
  <2> QED  BY <1>2, <2>1, <2>2 DEF Called
<1>8. ASSUME NEW d \in Docs, Select(d) PROVE Shows'
  BY <1>3, <1>8, SelectDoes
<1>9. ASSUME ShowDocuments \/ (\E d \in Docs : Pick(d)) PROVE Shows'
  BY <1>3, <1>9, PanelDoes
<1>10. ASSUME ShowTrash PROVE Shows'
  <2>1. Started(t, List(workspace)) /\ UNCHANGED <<row, workspace, tree, disturbed>>
    BY <1>10, ShowTrashDoes
  <2>2. Started(t, j)  BY <2>1 DEF Started
  <2> QED  BY <1>2, <2>1, <2>2
<1>11. ASSUME RestoreClick \/ PurgeClick PROVE Shows'
  <2>1. PICK op \in Emptying : TrashClick(op)
    BY <1>11 DEF RestoreClick, PurgeClick, Emptying
  <2> QED  BY <1>2, <2>1, TrashClickDoes DEF Called, Noted
<1>12. ASSUME NEW w \in Workspaces, Switch(w) PROVE Shows'
  <2>1. tree'.status = "loading" /\ tree'.run = t /\ task'[t] = Load(w)  BY <1>12, SwitchDoes
  <2>2. Load(w).stage = "fetch"  BY ListLoadFormed
  <2> QED  BY <2>1, <2>2, ShowsLoading
<1> QED  BY <1>4, <1>5, <1>6, <1>7, <1>8, <1>9, <1>10, <1>11, <1>12 DEF User

LEMMA InitShows == Init => Shows
<1> SUFFICES ASSUME Init PROVE Shows
  OBVIOUS
<1> DEFINE t == FirstOf(Tasks)
<1>1. /\ tree = [status |-> "loading", snap |-> <<>>, shown |-> <<>>, selected |-> Null, run |-> t]
      /\ task = [u \in Tasks |-> IF u = t THEN Load(workspace) ELSE NoTask]
  BY DEF Init
<1>2. t \in Tasks  BY IdsAssumption, FirstOfIn
<1>3. Load(workspace).stage = "fetch"
  <2>1. workspace \in Workspaces  BY InitTyped DEF Typed
  <2> QED  BY <2>1, ListLoadFormed
<1> HIDE DEF t
<1>4. tree.status = "loading" /\ task[tree.run].stage = "fetch"  BY <1>1, <1>2, <1>3
<1> QED  BY <1>4 DEF Shows, SnapMatches, LandingMatches, Landing, Placed

LEMMA StepShows == Typed /\ RunHere /\ Shows /\ [Next]_vars => Shows'
<1> SUFFICES ASSUME Typed, RunHere, Shows, [Next]_vars PROVE Shows'
  OBVIOUS
<1>1. CASE UNCHANGED vars
  BY <1>1 DEF vars, Shows, Spared, Undelivered, SnapMatches, LandingMatches, Landing, Placed
<1>2. CASE Next
  BY <1>2, ServerShows, PageShows, UserShows DEF Next
<1> QED  BY <1>1, <1>2
---------------------------------------------------------------------------
(***************************************************************************)
(* The tree: under which titles.                                           *)
(***************************************************************************)
\* Where no rename has met another or a load.
Solo ==
    \A t, u \in Tasks : task[t].op = "rename" =>
        (task[u].op = "rename" => t = u) /\ task[u].stage \notin Fetching

\* A rename of d the server has not made yet; one it has refused.
Retitling(k, d) == k.op = "rename" /\ k.stage = "call" /\ k.doc = d
Refused(k) == k.op = "rename" /\ k.stage = "answer" /\ ~k.done

\* A title shown is the one a rename is about to give, or the server's.
ShownTitled ==
    tree.status = "ready" => \A d \in DOMAIN tree.shown :
        /\ \A t \in Tasks : Retitling(task[t], d) => tree.shown[d].title = task[t].title
        /\ (\A t \in Tasks : ~Retitling(task[t], d)) => tree.shown[d].title = row[d].title
LandingTitled ==
    Landing => \A d \in DOMAIN task[tree.run].got : task[tree.run].got[d].title = row[d].title

Titled == Undelivered \/ (\E u \in Tasks : Refused(task[u])) \/ (ShownTitled /\ LandingTitled)

Crossing == {"lost", "stray", "undone", "crossed"}
Headed == Spared(Crossing) => Solo /\ Titled

LEMMA HeadedBefore ==
    ASSUME Headed, Spared(Crossing)', disturbed \subseteq disturbed'
    PROVE  Solo /\ Titled /\ \A c \in Crossing : c \notin disturbed'
BY SparedBefore DEF Headed

\* Steps of a function that is no rename and not the load that is waited for.
LEMMA HeadedKept ==
    ASSUME Typed, Headed, disturbed \subseteq disturbed', \A d \in Docs : row'[d].title = row[d].title,
           tree'.status = tree.status, tree'.run = tree.run, DOMAIN tree'.shown = DOMAIN tree.shown,
           \A d \in DOMAIN tree.shown : tree'.shown[d].title = tree.shown[d].title,
           NEW t \in Tasks, Others(t), tree.run # t \/ task'[t] = task[t],
           Delivering(task[t]) => Delivering(task'[t]),
           task[t].op # "rename", task'[t].op # "rename",
           task'[t].stage \in Fetching => task[t].stage \in Fetching
    PROVE  Headed'
<1> SUFFICES ASSUME Spared(Crossing)' PROVE Solo' /\ Titled'
  BY DEF Headed
<1>1. Solo /\ Titled  BY HeadedBefore
<1>2. Solo'  BY <1>1 DEF Solo, Others
<1>3. Undelivered => Undelivered'  BY DEF Undelivered, Others
<1>4. (\E u \in Tasks : Refused(task[u])) => \E u \in Tasks : Refused(task'[u])
  BY DEF Refused, Others
<1>5. ShownTitled => ShownTitled'
  <2>1. \A u \in Tasks, d \in Docs : /\ Retitling(task'[u], d) <=> Retitling(task[u], d)
                                     /\ Retitling(task[u], d) => task'[u].title = task[u].title
    BY DEF Retitling, Others
  <2>2. DOMAIN tree.shown \subseteq Docs  BY NodesHave DEF Typed, TreeFormed, TreeState
  <2> QED  BY <2>1, <2>2 DEF ShownTitled
<1>6. LandingTitled => LandingTitled'
  <2> SUFFICES ASSUME LandingTitled, Landing'
               PROVE  \A d \in DOMAIN task'[tree'.run].got : task'[tree'.run].got[d].title = row'[d].title
    BY DEF LandingTitled
  <2>1. Landing /\ task'[tree'.run] = task[tree.run]  BY LandingSame
  <2>2. DOMAIN task[tree.run].got \subseteq Docs
    <3>1. tree.run \in Tasks  BY <2>1 DEF Landing, Typed, TreeFormed, TreeState
    <3>2. task[tree.run].got \in Nodes  BY <2>1, <3>1 DEF Landing, Typed, TasksFormed, Formed
    <3> QED  BY <3>2, NodesHave
  <2> QED  BY <2>1, <2>2 DEF LandingTitled
<1> QED  BY <1>1, <1>2, <1>3, <1>4, <1>5, <1>6 DEF Titled

LEMMA HeadedLoading ==
    ASSUME tree'.status = "loading", task'[tree'.run].stage = "fetch",
           (\E u \in Tasks : task'[u].op = "rename") => "crossed" \in disturbed'
    PROVE  Headed'
BY DEF Headed, Spared, Crossing, Solo, Titled, ShownTitled, LandingTitled, Landing

LEMMA TitlesSame ==
    ASSUME UNCHANGED row
    PROVE  \A d \in Docs : row'[d].title = row[d].title
OBVIOUS

LEMMA HandleHeaded ==
    ASSUME Typed, Headed, NEW t \in Tasks, NEW answered \in BOOLEAN, Handle(t, answered)
    PROVE  Headed'
<1> DEFINE k == task[t]
           j == task'[t]
<1>1. /\ tree.run # Null => task[tree.run].stage \in Fetching
      /\ k \in Task /\ Formed(k) /\ Rows /\ t # Null /\ tree.run \in Tasks \cup {Null}
      /\ DOMAIN tree.shown \subseteq Docs
  BY NullAssumption, NodesHave DEF Typed, TreeFormed, TreeState, TasksFormed
<1>2. /\ k.stage = "call" /\ j.stage = "answer" /\ Later(j, k) /\ Others(t) /\ Updated(k, j.doc)
      /\ UNCHANGED <<workspace, tree>> /\ disturbed \subseteq disturbed'
      /\ ~answered => "lost" \in disturbed'
      /\ k.op # "create" => j.doc = k.doc
  BY HandleDoes DEF Noted
<1>3. j.done = answered  BY HandleDoes
<1>4. /\ tree.run # t /\ ~Delivering(k) /\ ~Refused(k) /\ j.op = k.op /\ j.title = k.title
      /\ j.stage \notin Fetching /\ k.op \in Changing \cup Emptying
  BY <1>1, <1>2 DEF Fetching, Delivering, Refused, Later, Formed
<1>5. CASE ~answered
  BY <1>2, <1>5 DEF Headed, Spared, Crossing
<1>6. CASE answered /\ k.op \in {"create", "move", "remove", "restore"}
  <2>1. Delivering(j)  BY <1>2, <1>3, <1>4, <1>6 DEF Delivering
  <2>2. Titled'  BY <2>1 DEF Undelivered, Titled
  <2>3. Solo => Solo'  BY <1>2, <1>4 DEF Solo, Others
  <2> QED  BY <1>2, <2>2, <2>3, HeadedBefore DEF Headed
<1>7. CASE k.op = "purge"
  <2>1. \A d \in Docs : row'[d].title = row[d].title  BY <1>2, <1>7 DEF Updated
  <2> QED  BY <1>2, <1>4, <1>7, <2>1, HeadedKept
<1>8. CASE answered /\ k.op = "rename"
  <2> SUFFICES ASSUME Spared(Crossing)' PROVE Solo' /\ Titled'
    BY DEF Headed
  <2>1. Solo /\ Titled  BY <1>2, HeadedBefore
  <2>2. Solo'  BY <1>2, <1>4, <2>1 DEF Solo, Others
  <2>3. Undelivered => Undelivered'  BY <1>2, <1>4 DEF Undelivered, Others
  <2>4. (\E u \in Tasks : Refused(task[u])) => \E u \in Tasks : Refused(task'[u])
    BY <1>2, <1>4 DEF Others
  <2>5. LandingTitled'
    <3>1. ~Landing'
      BY <1>1, <1>2, <1>8, <2>1 DEF Landing, Solo, Others
    <3> QED  BY <3>1 DEF LandingTitled
  <2>6. \A d \in Docs : row'[d].title = IF d = k.doc THEN k.title ELSE row[d].title
    <3>1. k.doc \in Docs /\ row[k.doc].workspace # Null
      <4>1. Legal(k)  BY DEF Handle
      <4>2. row[k.doc].status # "absent"  BY <1>8, <4>1 DEF Legal
      <4>3. k.doc \in Docs  BY <1>1, <1>8 DEF Formed
      <4> QED  BY <1>1, <4>2, <4>3, RowFacts
    <3> QED  BY <1>2, <1>8, <3>1 DEF Updated
  <2>7. ShownTitled => ShownTitled'
    <3> SUFFICES ASSUME ShownTitled, tree.status = "ready", NEW d \in DOMAIN tree.shown
                 PROVE  /\ \A u \in Tasks : ~Retitling(task'[u], d)
                        /\ tree.shown[d].title = row'[d].title
      BY <1>2 DEF ShownTitled
    <3>1. \A u \in Tasks : task[u].op = "rename" => u = t  BY <1>8, <2>1 DEF Solo
    <3>2. \A u \in Tasks : ~Retitling(task'[u], d)  BY <1>2, <3>1 DEF Retitling, Others
    <3>3. CASE d = k.doc
      <4>1. Retitling(k, d)  BY <1>2, <1>8, <3>3 DEF Retitling
      <4> QED  BY <1>1, <2>6, <3>2, <3>3, <4>1 DEF ShownTitled
    <3>4. CASE d # k.doc
      <4>1. \A u \in Tasks : ~Retitling(task[u], d)  BY <3>1, <3>4 DEF Retitling
      <4> QED  BY <1>1, <2>6, <3>2, <3>4, <4>1 DEF ShownTitled
    <3> QED  BY <3>3, <3>4
  <2> QED  BY <2>1, <2>2, <2>3, <2>4, <2>5, <2>7 DEF Titled
<1> QED  BY <1>4, <1>5, <1>6, <1>7, <1>8 DEF Changing, Emptying

LEMMA ServerHeaded ==
    ASSUME Typed, Headed, NEW t \in Tasks, Server(t)
    PROVE  Headed'
<1> DEFINE k == task[t]
           j == task'[t]
<1>1. /\ tree.run # Null => task[tree.run].stage \in Fetching
      /\ tree.run # Null <=> tree.status = "loading"
      /\ k \in Task /\ Formed(k) /\ Rows /\ t # Null
  BY NullAssumption DEF Typed, TreeFormed, TasksFormed
<1>2. ASSUME NEW answered \in BOOLEAN, Read(t, answered) PROVE Headed'
  <2>1. /\ Others(t) /\ UNCHANGED <<row, workspace, tree, disturbed>> /\ Later(j, k)
        /\ \/ /\ k.stage = "fetch" /\ j.stage = "fetched" /\ (answered => j.got = Listing(k.workspace))
           \/ k.stage = "list" /\ j.stage = "listed"
    BY <1>2, ReadDoes
  <2>2. j.ok = answered  BY <1>2, ReadDoes
  <2>3. j.done = k.done  BY <1>2, ReadDoes
  <2>4. /\ Delivering(k) => Delivering(j)
        /\ k.op # "rename" /\ j.op # "rename" /\ (j.stage \in Fetching <=> k.stage \in Fetching)
    BY <1>1, <2>1, <2>3 DEF Delivering, Later, Formed, Fetching, Relisting, Emptying
  <2>5. CASE tree.run # t
    BY <2>1, <2>4, <2>5, TitlesSame, HeadedKept
  <2>6. CASE tree.run = t
    <3> SUFFICES ASSUME Spared(Crossing)' PROVE Solo' /\ Titled'
      BY DEF Headed
    <3>1. Solo /\ Titled  BY <2>1, HeadedBefore
    <3>2. Solo'  BY <2>1, <2>4, <3>1 DEF Solo, Others
    <3>3. k.stage = "fetch" /\ tree.status = "loading"  BY <1>1, <2>1, <2>6 DEF Fetching
    <3>4. ShownTitled'  BY <2>1, <3>3 DEF ShownTitled
    <3>5. Landing' => j.got = Listing(k.workspace)  BY <2>1, <2>2, <2>6, <3>3 DEF Landing
    <3>6. \A d \in DOMAIN Listing(k.workspace) : Listing(k.workspace)[d].title = row[d].title
      BY DEF Listing
    <3>7. LandingTitled'  BY <2>1, <2>6, <3>5, <3>6 DEF LandingTitled
    <3> QED  BY <3>2, <3>4, <3>7 DEF Titled
  <2> QED  BY <2>5, <2>6
<1>3. ASSUME Fail(t) PROVE Headed'
  <2>1. /\ k.stage = "call" /\ j.stage = "answer" /\ Later(j, k) /\ Others(t)
        /\ UNCHANGED <<row, workspace, tree, disturbed>>
    BY <1>3, FailDoes
  <2>2. j.done = FALSE  BY <1>3, FailDoes
  <2>3. tree.run # t /\ ~Delivering(k) /\ j.op = k.op /\ j.stage \notin Fetching
    BY <1>1, <2>1 DEF Fetching, Delivering, Later
  <2>4. CASE k.op # "rename"
    BY <2>1, <2>3, <2>4, TitlesSame, HeadedKept
  <2>5. CASE k.op = "rename"
    <3>1. Refused(j)  BY <2>1, <2>2, <2>3, <2>5 DEF Refused
    <3>2. Titled'  BY <3>1 DEF Titled
    <3>3. Solo => Solo'  BY <2>1, <2>3 DEF Solo, Others
    <3> QED  BY <2>1, <3>2, <3>3, HeadedBefore DEF Headed
  <2> QED  BY <2>4, <2>5
<1> QED  BY <1>2, <1>3, HandleHeaded DEF Server

LEMMA BegunHeaded ==
    ASSUME Typed, NEW t \in Tasks, Others(t), task[t].op # "rename" \/ task'[t].op # "rename",
           task'[t].op = task[t].op, NEW w, Note(Begun(w)), tree' = Loading(t), task'[t].stage = "fetch"
    PROVE  Headed'
<1>1. (\E u \in Tasks : task[u].op = "rename") => "crossed" \in disturbed'
  BY BegunDoes DEF Typed
<1>2. (\E u \in Tasks : task'[u].op = "rename") => "crossed" \in disturbed'
  BY <1>1 DEF Others
<1>3. tree'.status = "loading" /\ tree'.run = t  BY LoadingDoes DEF Typed, TreeFormed
<1> QED  BY <1>2, <1>3, HeadedLoading

LEMMA PageHeaded ==
    ASSUME Typed, Headed, NEW t \in Tasks, Page(t)
    PROVE  Headed'
<1> DEFINE k == task[t]
           j == task'[t]
           n == Landed(t)
<1>1. /\ tree.run # Null => task[tree.run].stage \in Fetching
      /\ tree.run # Null <=> tree.status = "loading"
      /\ k \in Task /\ Formed(k) /\ t # Null /\ tree \in TreeState /\ DOMAIN tree.snap = DOMAIN tree.shown
      /\ DOMAIN tree.shown \subseteq Docs
  BY NullAssumption, NodesHave DEF Typed, TreeFormed, TreeState, TasksFormed
<1>2. ASSUME Reloaded(t) PROVE Headed'
  <2>1. /\ k.stage = "fetched" /\ Others(t) /\ UNCHANGED <<row, workspace>> /\ disturbed \subseteq disturbed'
        /\ tree'.status = n.status /\ tree'.run = n.run /\ tree'.snap = n.snap /\ tree'.shown = n.shown
        /\ j.op = "none" /\ j.stage = "none"
    BY <1>2, ReloadedDoes DEF Noted
  <2>2. ~Delivering(k) /\ k.op # "rename" /\ j.stage \notin Fetching
    BY <1>1, <2>1 DEF Delivering, Formed, Fetching
  <2>3. CASE tree.run # t
    <3>1. n = tree  BY <2>1, <2>3, LandedDoes
    <3> HIDE DEF n
    <3> QED  BY <2>1, <2>2, <2>3, <3>1, TitlesSame, HeadedKept
  <2>4. CASE tree.run = t
    <3> SUFFICES ASSUME Spared(Crossing)' PROVE Solo' /\ Titled'
      BY DEF Headed
    <3>1. Solo /\ Titled  BY <2>1, HeadedBefore
    <3>2. \A u \in Tasks : task[u].op # "rename" /\ task'[u].op # "rename"
      BY <2>1, <3>1 DEF Solo, Fetching, Others
    <3>3. Solo'  BY <3>2 DEF Solo
    <3>4. Undelivered => Undelivered'  BY <2>1, <2>2 DEF Undelivered, Others
    <3>5. \A u \in Tasks : ~Refused(task[u])  BY <3>2 DEF Refused
    <3>6. LandingTitled'  BY <2>1, <2>4, LandedDoes DEF LandingTitled, Landing
    <3>7. CASE k.ok
      <4>1. tree'.shown = k.got  BY <2>1, <2>4, <3>7, LandedDoes
      <4>2. Landing  BY <1>1, <2>1, <2>4, <3>7 DEF Landing
      <4>3. LandingTitled => \A d \in DOMAIN tree'.shown : tree'.shown[d].title = row'[d].title
        BY <2>1, <2>4, <4>1, <4>2 DEF LandingTitled
      <4>4. LandingTitled => ShownTitled'  BY <3>2, <4>3 DEF ShownTitled, Retitling
      <4> QED  BY <3>1, <3>3, <3>4, <3>5, <3>6, <4>4 DEF Titled
    <3>8. CASE ~k.ok
      <4>1. tree'.status = "error"  BY <2>1, <2>4, <3>8, LandedDoes
      <4>2. ShownTitled'  BY <4>1 DEF ShownTitled
      <4> QED  BY <3>3, <3>6, <4>2 DEF Titled
    <3> QED  BY <3>7, <3>8
  <2> QED  BY <2>3, <2>4
<1>3. ASSUME Confirmed(t) PROVE Headed'
  <2>1. /\ Others(t) /\ j.stage = "fetch" /\ j.op = k.op /\ k.op # "rename" /\ tree' = Loading(t)
        /\ Note(Begun(k.workspace))
    BY <1>3, ConfirmedDoes DEF Later
  <2> HIDE DEF k
  <2> QED  BY <2>1, BegunHeaded DEF k
<1>4. ASSUME Finished(t) PROVE Headed'
  <2>1. /\ k.stage = "answer" /\ Others(t) /\ UNCHANGED <<row, workspace, tree, disturbed>>
        /\ IF k.op = "rename" THEN k.done ELSE ~k.done /\ k.op \in {"create", "remove"}
        /\ j.op = "none" /\ j.stage = "none"
    BY <1>4, FinishedDoes
  <2>2. tree.run # t /\ ~Delivering(k) /\ ~Refused(k) /\ j.stage \notin Fetching
    BY <1>1, <2>1 DEF Fetching, Delivering, Refused
  <2>3. CASE k.op # "rename"
    BY <2>1, <2>2, <2>3, TitlesSame, HeadedKept
  <2>4. CASE k.op = "rename"
    <3> SUFFICES ASSUME Spared(Crossing)' PROVE Solo' /\ Titled'
      BY DEF Headed
    <3>1. Solo /\ Titled  BY <2>1, HeadedBefore
    <3>2. Solo'  BY <2>1, <2>2, <3>1 DEF Solo, Others
    <3>3. Undelivered => Undelivered'  BY <2>1, <2>2 DEF Undelivered, Others
    <3>4. (\E u \in Tasks : Refused(task[u])) => \E u \in Tasks : Refused(task'[u])
      BY <2>1, <2>2 DEF Others
    <3>5. LandingTitled => LandingTitled'  BY <2>1, <2>2, LandingSame DEF LandingTitled
    <3>6. ShownTitled => ShownTitled'
      <4>1. \A u \in Tasks, d \in Docs : /\ Retitling(task'[u], d) <=> Retitling(task[u], d)
                                         /\ Retitling(task[u], d) => task'[u].title = task[u].title
        BY <2>1 DEF Retitling, Others
      <4> QED  BY <1>1, <2>1, <4>1 DEF ShownTitled
    <3> QED  BY <3>1, <3>2, <3>3, <3>4, <3>5, <3>6 DEF Titled
  <2> QED  BY <2>3, <2>4
<1>5. ASSUME Undone(t) PROVE Headed'
  <2>1. "undone" \in disturbed'  BY <1>5, UndoneDoes
  <2> QED  BY <2>1 DEF Headed, Spared, Crossing
<1>6. ASSUME TrashAnswered(t) PROVE Headed'
  <2>1. /\ k.stage = "answer" /\ Others(t) /\ j.stage = "list" /\ Later(j, k)
        /\ k.op \in Emptying /\ UNCHANGED <<row, workspace, tree>> /\ disturbed \subseteq disturbed'
    BY <1>6, TrashAnsweredDoes DEF Noted
  <2>2. j.done = k.done  BY <1>6, TrashAnsweredDoes
  <2>3. /\ tree.run # t /\ (Delivering(k) => Delivering(j)) /\ k.op # "rename" /\ j.op # "rename"
        /\ j.stage \notin Fetching
    BY <1>1, <2>1, <2>2 DEF Fetching, Delivering, Later, Emptying
  <2> QED  BY <2>1, <2>3, TitlesSame, HeadedKept
<1>7. ASSUME Listed(t) PROVE Headed'
  <2>1. k.stage = "listed" /\ Others(t) /\ UNCHANGED <<row, workspace>>  BY <1>7, ListedDoes
  <2>2. k.op \in {"list", "restore", "purge"}  BY <1>1, <2>1 DEF Formed, Relisting, Emptying
  <2>3. CASE j.stage = "fetch" /\ Later(j, k) /\ tree' = Loading(t) /\ Note(Begun(k.workspace))
    <3>1. j.op = k.op /\ k.op # "rename"  BY <2>2, <2>3 DEF Later
    <3> HIDE DEF k
    <3> QED  BY <2>1, <2>3, <3>1, BegunHeaded DEF k
  <2>4. CASE /\ ~(k.op = "restore" /\ k.done) /\ UNCHANGED <<tree, disturbed>>
             /\ j.op = "none" /\ j.stage = "none"
    <3>1. tree.run # t /\ ~Delivering(k) /\ k.op # "rename" /\ j.stage \notin Fetching
      BY <1>1, <2>1, <2>2, <2>4 DEF Fetching, Delivering
    <3> QED  BY <2>1, <2>4, <3>1, TitlesSame, HeadedKept
  <2> QED  BY <1>7, <2>3, <2>4, ListedDoes
<1> QED  BY <1>2, <1>3, <1>4, <1>5, <1>6, <1>7 DEF Page

LEMMA RenameClickHeaded ==
    ASSUME Typed, Headed, NEW title \in Titles, RenameClick(title)
    PROVE  Headed'
<1> DEFINE t == FirstOf(Slots)
           j == task'[t]
<1>1. /\ tree.run # Null => tree.run \in Tasks /\ task[tree.run].stage \in Fetching
      /\ tree.shown \in Nodes
  BY DEF Typed, TreeFormed, TreeState
<1>2. /\ Called(t, "rename") /\ tree.selected # Null /\ j.doc = tree.selected /\ j.title = title
      /\ UNCHANGED <<row, workspace>> /\ disturbed \subseteq disturbed'
      /\ tree'.status = tree.status /\ tree'.run = tree.run
      /\ tree'.shown = Renamed(tree.shown, tree.selected, title)
      /\ (\E u \in Tasks : task[u].op = "rename" \/ task[u].stage \in Fetching) => "crossed" \in disturbed'
  BY RenameClickDoes DEF Noted
<1>3. t \in Tasks /\ Others(t) /\ task[t].op = "none" /\ j.op = "rename" /\ j.stage = "call"
  BY <1>2 DEF Called, Started
<1> HIDE DEF t
<1> SUFFICES ASSUME Spared(Crossing)' PROVE Solo' /\ Titled'
  BY DEF Headed
<1>4. Titled /\ \A u \in Tasks : task[u].op # "rename" /\ task[u].stage \notin Fetching
  BY <1>2, HeadedBefore DEF Crossing
<1>5. Solo'
  BY <1>3, <1>4 DEF Solo, Others, Fetching
<1>6. Undelivered => Undelivered'
  BY <1>3 DEF Undelivered, Others, Delivering
<1>7. \A u \in Tasks : ~Refused(task[u])  BY <1>4 DEF Refused
<1>8. LandingTitled'
  <2>1. tree.run = Null  BY <1>1, <1>4
  <2> QED  BY <1>2, <2>1 DEF LandingTitled, Landing
<1>9. ShownTitled => ShownTitled'
  <2> SUFFICES ASSUME ShownTitled, tree.status = "ready", NEW d \in DOMAIN tree'.shown
               PROVE  /\ \A u \in Tasks : Retitling(task'[u], d) => tree'.shown[d].title = task'[u].title
                      /\ (\A u \in Tasks : ~Retitling(task'[u], d)) => tree'.shown[d].title = row'[d].title
    BY <1>2 DEF ShownTitled
  <2>1. d \in DOMAIN tree.shown /\ tree.shown[d] \in Node
        /\ tree'.shown[d] = IF d = tree.selected THEN [tree.shown[d] EXCEPT !.title = title] ELSE tree.shown[d]
    BY <1>1, <1>2, NodesHave DEF Renamed
  <2>2. tree.shown[d].title = row[d].title
    BY <1>4, <2>1 DEF ShownTitled, Retitling
  <2>3. \A u \in Tasks : Retitling(task'[u], d) <=> (u = t /\ d = tree.selected)
    BY <1>2, <1>3, <1>4 DEF Retitling, Others
  <2>4. CASE d = tree.selected
    <3>1. tree'.shown[d].title = title  BY <2>1, <2>4 DEF Node
    <3> QED  BY <1>2, <1>3, <2>3, <2>4, <3>1
  <2>5. CASE d # tree.selected
    BY <1>2, <2>1, <2>2, <2>3, <2>5
  <2> QED  BY <2>4, <2>5
<1> QED  BY <1>4, <1>5, <1>6, <1>7, <1>8, <1>9 DEF Titled

LEMMA UserHeaded ==
    ASSUME Typed, Headed, User
    PROVE  Headed'
<1> DEFINE t == FirstOf(Slots)
           j == task'[t]
<1>1. /\ tree.run # Null => task[tree.run].stage \in Fetching
      /\ tree \in TreeState /\ disturbed \subseteq Causes /\ workspace \in Workspaces
  BY DEF Typed, TreeFormed
<1>2. ASSUME Started(t, j), disturbed \subseteq disturbed', UNCHANGED row,
             tree'.status = tree.status, tree'.run = tree.run, DOMAIN tree'.shown = DOMAIN tree.shown,
             \A d \in DOMAIN tree.shown : tree'.shown[d].title = tree.shown[d].title,
             j.op # "rename", j.stage \notin Fetching
      PROVE  Headed'
  <2>1. t \in Tasks /\ Others(t) /\ task[t].stage = "none" /\ task[t].op = "none"  BY <1>2 DEF Started
  <2>2. tree.run # t /\ ~Delivering(task[t]) /\ task[t].op # "rename"
    BY <1>1, <2>1, NullAssumption DEF Fetching, Delivering
  <2> HIDE DEF t
  <2> QED  BY <1>2, <2>1, <2>2, TitlesSame, HeadedKept
<1>3. ASSUME UNCHANGED <<row, task, disturbed>>,
             tree'.status = tree.status, tree'.run = tree.run, tree'.shown = tree.shown
      PROVE  Headed'
  BY <1>3 DEF Headed, Spared, Solo, Titled, Undelivered, ShownTitled, LandingTitled, Landing
<1>4. ASSUME NEW p \in Ids, NEW title \in Titles, CreateClick(p, title) PROVE Headed'
  BY <1>2, <1>4, CreateClickDoes DEF Called, Fetching
<1>5. ASSUME DeleteClick PROVE Headed'
  BY <1>2, <1>5, DeleteClickDoes DEF Called, Fetching
<1>6. ASSUME NEW d \in Docs,
             (\E x \in Docs, kind \in {"inside", "beside"} : Drop(d, kind, x)) \/ DropBelow(d)
      PROVE  Headed'
  BY <1>2, <1>6, MoveDoes DEF Called, Fetching
<1>7. ASSUME NEW d \in Docs, Select(d) PROVE Headed'
  BY <1>3, <1>7, SelectDoes
<1>8. ASSUME ShowDocuments \/ (\E d \in Docs : Pick(d)) PROVE Headed'
  BY <1>3, <1>8, PanelDoes
<1>9. ASSUME ShowTrash PROVE Headed'
  <2>1. Started(t, List(workspace)) /\ UNCHANGED <<row, workspace, tree, disturbed>>
    BY <1>9, ShowTrashDoes
  <2>2. Started(t, j) /\ j = List(workspace)  BY <2>1 DEF Started
  <2>3. List(workspace).op = "list" /\ List(workspace).stage = "list"  BY <1>1, ListLoadFormed
  <2>4. j.op # "rename" /\ j.stage \notin Fetching  BY <2>2, <2>3 DEF Fetching
  <2> QED  BY <1>2, <2>1, <2>2, <2>4
<1>10. ASSUME RestoreClick \/ PurgeClick PROVE Headed'
  <2>1. PICK op \in Emptying : TrashClick(op)
    BY <1>10 DEF RestoreClick, PurgeClick, Emptying
  <2>2. Called(t, op) /\ UNCHANGED <<row, tree>> /\ disturbed \subseteq disturbed'
    BY <2>1, TrashClickDoes DEF Noted
  <2>3. Started(t, j) /\ j.op # "rename" /\ j.stage \notin Fetching
    BY <2>2 DEF Called, Emptying, Fetching
  <2> QED  BY <1>2, <2>2, <2>3
<1>11. ASSUME NEW w \in Workspaces, Switch(w) PROVE Headed'
  <2> DEFINE u == FirstOf(Slots \ {t})
  <2>1. /\ t \in Tasks /\ task'[t] = Load(w)
        /\ tree'.status = "loading" /\ tree'.run = t
        /\ \/ Others(t)
           \/ u \in Tasks /\ task'[u] = List(w) /\ \A v \in Tasks \ {t, u} : task'[v] = task[v]
        /\ Note(Begun(workspace))
    BY <1>11, SwitchDoes
  <2>2. (\E v \in Tasks : task[v].op = "rename") => "crossed" \in disturbed'  BY <1>1, <2>1, BegunDoes
  <2>3. Load(w).op = "load" /\ Load(w).stage = "fetch" /\ List(w).op = "list"
    BY ListLoadFormed
  <2> HIDE DEF t, u
  <2>4. (\E v \in Tasks : task'[v].op = "rename") => "crossed" \in disturbed'
    BY <2>1, <2>2, <2>3 DEF Others
  <2> QED  BY <2>1, <2>3, <2>4, HeadedLoading
<1> QED  BY <1>4, <1>5, <1>6, <1>7, <1>8, <1>9, <1>10, <1>11, RenameClickHeaded DEF User

LEMMA InitHeaded == Init => Headed
<1> SUFFICES ASSUME Init PROVE Headed
  OBVIOUS
<1> DEFINE t == FirstOf(Tasks)
<1>1. /\ tree = [status |-> "loading", snap |-> <<>>, shown |-> <<>>, selected |-> Null, run |-> t]
      /\ task = [u \in Tasks |-> IF u = t THEN Load(workspace) ELSE NoTask]
  BY DEF Init
<1>2. t \in Tasks  BY IdsAssumption, FirstOfIn
<1>3. Load(workspace).stage = "fetch" /\ Load(workspace).op = "load" /\ NoTask.op = "none"
  <2>1. workspace \in Workspaces  BY InitTyped DEF Typed
  <2> QED  BY <2>1, ListLoadFormed DEF NoTask
<1> HIDE DEF t
<1>4. tree.status = "loading" /\ task[tree.run].stage = "fetch"  BY <1>1, <1>2, <1>3
<1>5. Solo  BY <1>1, <1>3 DEF Solo
<1> QED  BY <1>4, <1>5 DEF Headed, Titled, ShownTitled, LandingTitled, Landing

LEMMA StepHeaded == Typed /\ Headed /\ [Next]_vars => Headed'
<1> SUFFICES ASSUME Typed, Headed, [Next]_vars PROVE Headed'
  OBVIOUS
<1>1. CASE UNCHANGED vars
  BY <1>1 DEF vars, Headed, Spared, Solo, Titled, Undelivered, ShownTitled, LandingTitled, Landing
<1>2. CASE Next
  BY <1>2, ServerHeaded, PageHeaded, UserHeaded DEF Next
<1> QED  BY <1>1, <1>2

LEMMA ListingIs ==
    ASSUME Rows, NEW w, NEW nodes \in Nodes, Matches(row, w, nodes),
           \A d \in DOMAIN nodes : nodes[d].title = row[d].title
    PROVE  nodes = Listing(w)
<1> DEFINE D == {d \in Docs : row[d].status = "active" /\ row[d].workspace = w}
<1>1. nodes \in [D -> Node]  BY NodesHave DEF Matches
<1>2. Listing(w) \in Nodes /\ DOMAIN Listing(w) = D  BY ListingTyped
<1>3. Listing(w) \in [D -> Node]  BY <1>2, NodesHave
<1>4. \A d \in D : Listing(w)[d].parent_id = row[d].parent_id /\ Listing(w)[d].title = row[d].title
  BY <1>2 DEF Listing
<1>5. \A d \in D : nodes[d].parent_id = row[d].parent_id /\ nodes[d].title = row[d].title
  BY <1>1 DEF Matches
<1> HIDE DEF D
<1>6. \A d \in D : nodes[d] = Listing(w)[d]  BY <1>1, <1>3, <1>4, <1>5 DEF Node
<1> QED  BY <1>1, <1>3, <1>6

\* The tree comes to rest with the documents the server has in the current workspace,
\* each below its parent and under its title: every creation, removal, move and
\* restoration reloads once its answer is there, of several loads the latest counts
\* (runIdRef), and what is shown ahead is confirmed or taken back (serverSnapshotRef).
THEOREM TreeShown == Spec => []ShowsServer
<1>1. Typed /\ Shows /\ Headed => ShowsServer
  <2> SUFFICES ASSUME Typed, Shows, Headed, Quiet, Spared({"lost", "stray"})
               PROVE  /\ DOMAIN tree.shown = DOMAIN Listing(workspace)
                      /\ \A d \in DOMAIN tree.shown : tree.shown[d].parent_id = row[d].parent_id
                      /\ Spared({"undone", "crossed"}) => tree.shown = Listing(workspace)
    BY DEF ShowsServer
  <2>1. Rows /\ tree.shown \in Nodes /\ DOMAIN tree.snap = DOMAIN tree.shown /\ tree.status = "ready"
        /\ \A u \in Tasks : task[u].op = "none"
    BY DEF Typed, TreeFormed, TreeState, Quiet
  <2>2. ~Undelivered /\ (\A u \in Tasks : ~Relocating(task[u]) /\ ~Refused(task[u]))
        /\ \A u \in Tasks, d \in Docs : ~Retitling(task[u], d)
    BY <2>1 DEF Undelivered, Delivering, Relocating, Refused, Retitling
  <2>3. Matches(row, workspace, tree.snap)  BY <2>1, <2>2 DEF Shows, SnapMatches
  <2>4. \A d \in DOMAIN tree.shown : tree.shown[d].parent_id = tree.snap[d].parent_id
    BY <2>1, <2>2 DEF Shows, Placed
  <2>5. Matches(row, workspace, tree.shown)  BY <2>1, <2>3, <2>4 DEF Matches
  <2>6. DOMAIN tree.shown = DOMAIN Listing(workspace)  BY <2>1, <2>5, ListingTyped DEF Matches
  <2>7. ASSUME Spared({"undone", "crossed"}) PROVE tree.shown = Listing(workspace)
    <3>1. Spared(Crossing)  BY <2>7 DEF Spared, Crossing
    <3>2. ShownTitled  BY <2>2, <3>1 DEF Headed, Titled
    <3>3. \A d \in DOMAIN tree.shown : tree.shown[d].title = row[d].title
      BY <2>1, <2>2, <3>2, NodesHave DEF ShownTitled
    <3> QED  BY <2>1, <2>5, <3>3, ListingIs
  <2> QED  BY <2>5, <2>6, <2>7 DEF Matches
<1>2. Typed /\ RunHere /\ [Next]_vars => RunHere'  BY StepRunHere
<1> QED  BY <1>1, <1>2, InitTyped, StepTyped, InitHomes, InitShows, StepShows, InitHeaded, StepHeaded, PTL DEF Spec
---------------------------------------------------------------------------
(***************************************************************************)
(* The document selected.                                                  *)
(***************************************************************************)
\* A function of another workspace selects here only where its load was not the
\* latest, or began after this workspace was turned to.
Adrift == "adrift" \in disturbed => "superseded" \in disturbed \/ "stray" \in disturbed

\* A removal the server has made, whose load has not landed.
Removing(k) == k.op = "remove" /\ (k.stage \in Fetching \/ (k.stage = "answer" /\ k.done))

Active(rows, D) == \A d \in D : rows[d].status = "active"

\* A document created or restored is there to be selected.
Selectable(rows, k) == Made(k) \/ (k.op = "restore" /\ k.done) => rows[k.doc].status = "active"

ShownActive ==
    \/ Active(row, DOMAIN tree.shown) /\ (tree.selected # Null => row[tree.selected].status = "active")
    \/ \E u \in Tasks : Removing(task[u])
LandingActive ==
    Landing => \/ Active(row, DOMAIN task[tree.run].got)
               \/ \E u \in Tasks \ {tree.run} : Removing(task[u])

Haunting == {"lost", "stray", "unread", "superseded", "raced", "foreign"}
Ghosts ==
    Spared(Haunting) => ShownActive /\ LandingActive /\ \A t \in Tasks : Selectable(row, task[t])

LEMMA GhostsBefore ==
    ASSUME Ghosts, Spared(Haunting)', disturbed \subseteq disturbed'
    PROVE  ShownActive /\ LandingActive /\ (\A t \in Tasks : Selectable(row, task[t]))
           /\ \A c \in Haunting : c \notin disturbed'
BY SparedBefore DEF Ghosts

\* Every active document stays active.
StillActive == \A d \in Docs : row[d].status = "active" => row'[d].status = "active"

LEMMA RowStill ==
    ASSUME UNCHANGED row
    PROVE  StillActive
BY DEF StillActive

LEMMA TaskDocs ==
    ASSUME Typed, NEW u \in Tasks
    PROVE  /\ task[u].stage = "fetched" /\ task[u].ok => DOMAIN task[u].got \subseteq Docs
           /\ Made(task[u]) \/ task[u].op = "restore" => task[u].doc \in Docs
<1>1. Formed(task[u])  BY DEF Typed, TasksFormed
<1> QED  BY <1>1, NodesHave DEF Formed

\* Steps of a function that is not the load that is waited for, and no removal by the server.
LEMMA GhostsKept ==
    ASSUME Typed, Ghosts, disturbed \subseteq disturbed', StillActive,
           tree'.run = tree.run, DOMAIN tree'.shown = DOMAIN tree.shown, tree'.selected = tree.selected,
           NEW t \in Tasks, Others(t), tree.run # t \/ task'[t] = task[t],
           Removing(task[t]) => Removing(task'[t]),
           Spared(Haunting)' /\ Selectable(row, task[t]) => Selectable(row', task'[t])
    PROVE  Ghosts'
<1> SUFFICES ASSUME Spared(Haunting)'
             PROVE  ShownActive' /\ LandingActive' /\ \A u \in Tasks : Selectable(row', task'[u])
  BY DEF Ghosts
<1>1. ShownActive /\ LandingActive /\ \A u \in Tasks : Selectable(row, task[u])
  BY GhostsBefore
<1>2. \A S \in SUBSET Tasks : (\E u \in S : Removing(task[u])) => \E u \in S : Removing(task'[u])
  BY DEF Others
<1>3. ShownActive'
  <2>1. DOMAIN tree.shown \subseteq Docs /\ tree.selected \in Ids
    BY NodesHave DEF Typed, TreeFormed, TreeState
  <2> QED  BY <1>1, <1>2, <2>1 DEF ShownActive, Active, StillActive, Ids
<1>4. LandingActive'
  <2> SUFFICES ASSUME Landing'
               PROVE  \/ Active(row', DOMAIN task'[tree'.run].got)
                      \/ \E u \in Tasks \ {tree'.run} : Removing(task'[u])
    BY DEF LandingActive
  <2>1. Landing /\ task'[tree'.run] = task[tree.run]  BY LandingSame
  <2>2. tree.run \in Tasks  BY <2>1 DEF Landing, Typed, TreeFormed, TreeState
  <2>3. DOMAIN task[tree.run].got \subseteq Docs  BY <2>1, <2>2, TaskDocs DEF Landing
  <2>4. Active(row, DOMAIN task[tree.run].got) => Active(row', DOMAIN task'[tree'.run].got)
    BY <2>1, <2>3 DEF Active, StillActive
  <2>5. Tasks \ {tree.run} \in SUBSET Tasks  OBVIOUS
  <2> QED  BY <1>1, <1>2, <2>1, <2>4, <2>5 DEF LandingActive
<1>5. ASSUME NEW u \in Tasks PROVE Selectable(row', task'[u])
  <2>1. CASE u = t  BY <1>1, <2>1
  <2>2. CASE u # t
    <3>1. task'[u] = task[u] /\ Selectable(row, task[u])  BY <1>1, <2>2 DEF Others
    <3>2. Selectable(row', task[u])  BY <3>1, TaskDocs DEF Selectable, StillActive
    <3> QED  BY <3>1, <3>2
  <2> QED  BY <2>1, <2>2
<1> QED  BY <1>3, <1>4, <1>5

LEMMA SelectableLater ==
    ASSUME Typed, StillActive, NEW t \in Tasks, Later(task'[t], task[t]), task'[t].doc = task[t].doc,
           task'[t].done => task[t].done, Made(task'[t]) => Made(task[t]), Selectable(row, task[t])
    PROVE  Selectable(row', task'[t])
BY TaskDocs DEF Selectable, StillActive, Later

LEMMA HandleGhosts ==
    ASSUME Typed, Ghosts, NEW t \in Tasks, NEW answered \in BOOLEAN, Handle(t, answered)
    PROVE  Ghosts'
<1> DEFINE k == task[t]
           j == task'[t]
<1>1. /\ tree.run # Null => task[tree.run].stage \in Fetching
      /\ k \in Task /\ Formed(k) /\ Rows /\ t # Null /\ tree.run \in Tasks \cup {Null}
  BY NullAssumption DEF Typed, TreeFormed, TreeState, TasksFormed
<1>2. /\ k.stage = "call" /\ j.stage = "answer" /\ Later(j, k) /\ Others(t) /\ Updated(k, j.doc)
      /\ UNCHANGED <<workspace, tree>> /\ disturbed \subseteq disturbed'
      /\ ~answered => "lost" \in disturbed'
      /\ k.op # "create" => j.doc = k.doc
      /\ k.op = "remove" /\ (\E u \in Tasks : task[u].op \in {"create", "restore"}) => "raced" \in disturbed'
  BY HandleDoes DEF Noted
<1>3. j.done = answered  BY HandleDoes
<1>4. tree.run # t /\ ~Removing(k) /\ j.op = k.op
  BY <1>1, <1>2 DEF Fetching, Removing, Later
<1>5. CASE ~answered
  BY <1>2, <1>5 DEF Ghosts, Spared, Haunting
<1>6. CASE k.op # "remove"
  <2>1. StillActive
    <3> SUFFICES ASSUME NEW d \in Docs, row[d].status = "active" PROVE row'[d].status = "active"
      BY DEF StillActive
    <3>1. row[d].workspace # Null  BY <1>1, RowFacts
    <3> QED  BY <1>2, <1>6, <3>1 DEF Updated
  <2>2. Selectable(row', j)
    <3>1. k.op = "create" => row'[j.doc].status = "active"  BY <1>2 DEF Updated
    <3>2. k.op = "restore" => row'[j.doc].status = "active"  BY <1>2 DEF Updated
    <3> QED  BY <1>4, <3>1, <3>2 DEF Selectable, Made
  <2> QED  BY <1>2, <1>4, <2>1, <2>2, GhostsKept
<1>7. CASE answered /\ k.op = "remove"
  <2> SUFFICES ASSUME Spared(Haunting)'
               PROVE  ShownActive' /\ LandingActive' /\ \A u \in Tasks : Selectable(row', task'[u])
    BY DEF Ghosts
  <2>1. Removing(j)  BY <1>2, <1>3, <1>4, <1>7 DEF Removing
  <2>2. ShownActive'  BY <2>1 DEF ShownActive
  <2>3. t \in Tasks \ {tree'.run}  BY <1>2, <1>4
  <2>4. LandingActive'  BY <2>1, <2>3 DEF LandingActive
  <2>5. \A u \in Tasks : task[u].op \notin {"create", "restore"}
    BY <1>2, <1>7, GhostsBefore DEF Haunting
  <2>6. \A u \in Tasks : task'[u].op \notin {"create", "restore"}
    BY <1>2, <1>4, <2>5 DEF Others
  <2> QED  BY <2>2, <2>4, <2>6 DEF Selectable, Made
<1> QED  BY <1>5, <1>6, <1>7

LEMMA ServerGhosts ==
    ASSUME Typed, Ghosts, NEW t \in Tasks, Server(t)
    PROVE  Ghosts'
<1> DEFINE k == task[t]
           j == task'[t]
<1>1. /\ tree.run # Null => task[tree.run].stage \in Fetching
      /\ k \in Task /\ Formed(k) /\ Rows /\ t # Null
  BY NullAssumption DEF Typed, TreeFormed, TasksFormed
<1>2. ASSUME NEW answered \in BOOLEAN, Read(t, answered) PROVE Ghosts'
  <2>1. /\ Others(t) /\ UNCHANGED <<row, workspace, tree, disturbed>> /\ Later(j, k) /\ j.doc = k.doc
        /\ \/ /\ k.stage = "fetch" /\ j.stage = "fetched" /\ (answered => j.got = Listing(k.workspace))
           \/ k.stage = "list" /\ j.stage = "listed"
    BY <1>2, ReadDoes
  <2>2. j.ok = answered  BY <1>2, ReadDoes
  <2>3. j.done = k.done  BY <1>2, ReadDoes
  <2>4. StillActive  BY <2>1, RowStill
  <2>5. Made(j) => Made(k)  BY <2>1 DEF Made, Later, Fetching
  <2>6. Selectable(row, k) => Selectable(row', j)  BY <2>1, <2>3, <2>4, <2>5, SelectableLater
  <2>7. Removing(k) => Removing(j)  BY <2>1, <2>3 DEF Removing, Later, Fetching
  <2>8. CASE tree.run # t
    BY <2>1, <2>4, <2>6, <2>7, <2>8, GhostsKept
  <2>9. CASE tree.run = t
    <3> SUFFICES ASSUME Spared(Haunting)'
                 PROVE  ShownActive' /\ LandingActive' /\ \A u \in Tasks : Selectable(row', task'[u])
      BY DEF Ghosts
    <3>1. ShownActive /\ \A u \in Tasks : Selectable(row, task[u])  BY <2>1, GhostsBefore
    <3>2. (\E u \in Tasks : Removing(task[u])) => \E u \in Tasks : Removing(task'[u])
      BY <2>1, <2>7 DEF Others
    <3>3. ShownActive'  BY <2>1, <3>1, <3>2 DEF ShownActive
    <3>4. \A u \in Tasks : Selectable(row', task'[u])
      <4>1. row' = row  BY <2>1
      <4> QED  BY <2>1, <2>6, <3>1, <4>1 DEF Others
    <3>5. k.stage = "fetch"  BY <1>1, <2>1, <2>9 DEF Fetching
    <3>6. Landing' => j.got = Listing(k.workspace)  BY <2>1, <2>2, <2>9, <3>5 DEF Landing
    <3>7. Active(row, DOMAIN Listing(k.workspace))
      BY <1>1, ListingTyped DEF Active
    <3>8. LandingActive'  BY <2>1, <2>9, <3>6, <3>7 DEF LandingActive
    <3> QED  BY <3>3, <3>4, <3>8
  <2> QED  BY <2>8, <2>9
<1>3. ASSUME Fail(t) PROVE Ghosts'
  <2>1. /\ k.stage = "call" /\ j.stage = "answer" /\ Later(j, k) /\ j.doc = k.doc /\ Others(t)
        /\ UNCHANGED <<row, workspace, tree, disturbed>>
    BY <1>3, FailDoes
  <2>2. j.done = FALSE  BY <1>3, FailDoes
  <2>3. tree.run # t /\ ~Removing(k)  BY <1>1, <2>1 DEF Fetching, Removing
  <2>4. StillActive  BY <2>1, RowStill
  <2>5. Selectable(row', j)  BY <2>1, <2>2 DEF Selectable, Made, Fetching
  <2> QED  BY <2>1, <2>3, <2>4, <2>5, GhostsKept
<1> QED  BY <1>2, <1>3, HandleGhosts DEF Server

LEMMA ReloadedGhosts ==
    ASSUME Typed, Ghosts, NEW t \in Tasks, Reloaded(t)
    PROVE  Ghosts'
<1> DEFINE k == task[t]
           n == Landed(t)
<1> SUFFICES ASSUME Spared(Haunting)'
             PROVE  ShownActive' /\ LandingActive' /\ \A u \in Tasks : Selectable(row', task'[u])
  BY DEF Ghosts
<1>1. /\ k.stage = "fetched" /\ Others(t) /\ task'[t].op = "none" /\ task'[t].stage = "none"
      /\ UNCHANGED <<row, workspace>> /\ disturbed \subseteq disturbed'
      /\ tree'.run = n.run /\ tree'.snap = n.snap /\ tree'.shown = n.shown
      /\ Selecting(k, n, tree'.selected)
      /\ tree.run # t => "superseded" \in disturbed'
      /\ tree.run = t /\ ~k.ok => "unread" \in disturbed'
  BY ReloadedDoes DEF Noted
<1>2. ShownActive /\ LandingActive /\ (\A u \in Tasks : Selectable(row, task[u]))
      /\ \A c \in Haunting : c \notin disturbed'
  BY <1>1, GhostsBefore
<1>3. tree.run = t /\ k.ok  BY <1>1, <1>2 DEF Haunting
<1>4. /\ n.run = Null /\ n.snap = k.got /\ n.shown = k.got
      /\ n.selected = tree.selected \/ n.selected \in DOMAIN k.got
  BY <1>1, <1>3, LandedDoes
<1>5. k \in Task /\ Formed(k) /\ t # Null
  BY NullAssumption DEF Typed, TasksFormed
<1>6. LandingActive'  BY <1>1, <1>4 DEF LandingActive, Landing
<1>7. \A u \in Tasks : Selectable(row', task'[u])
  <2>1. Selectable(row', task'[t])  BY <1>1 DEF Selectable, Made
  <2>2. row' = row  BY <1>1
  <2> QED  BY <1>1, <1>2, <2>1, <2>2 DEF Others
<1> HIDE DEF n
<1>8. Landing  BY <1>1, <1>3, <1>5 DEF Landing
<1>9. CASE \E u \in Tasks \ {t} : Removing(task[u])
  <2>1. \E u \in Tasks : Removing(task'[u])  BY <1>1, <1>9 DEF Others
  <2>2. ShownActive'  BY <2>1 DEF ShownActive
  <2> QED  BY <1>6, <1>7, <2>2
<1>10. CASE ~\E u \in Tasks \ {t} : Removing(task[u])
  <2>1. Active(row, DOMAIN k.got)  BY <1>2, <1>3, <1>8, <1>10 DEF LandingActive
  <2>2. tree'.selected # Null => row[tree'.selected].status = "active"
    <3>1. CASE k.op \in {"create", "restore"}
      <4>1. tree'.selected = k.doc  BY <1>1, <3>1 DEF Selecting
      <4>2. Made(k) \/ (k.op = "restore" /\ k.done)  BY <1>1, <1>5, <3>1 DEF Made, Fetching, Formed
      <4> QED  BY <1>2, <4>1, <4>2 DEF Selectable
    <3>2. CASE k.op = "remove"
      <4>1. tree'.selected = Null \/ tree'.selected \in DOMAIN k.got
        BY <1>1, <1>4, <3>2 DEF Selecting
      <4> QED  BY <2>1, <4>1 DEF Active
    <3>3. CASE k.op \notin {"create", "restore", "remove"}
      <4>1. ~Removing(k)  BY <3>3 DEF Removing
      <4>2. tree.selected # Null => row[tree.selected].status = "active"
        BY <1>2, <1>10, <4>1 DEF ShownActive
      <4>3. tree'.selected = tree.selected \/ tree'.selected \in DOMAIN k.got
        BY <1>1, <1>4, <3>3 DEF Selecting
      <4> QED  BY <2>1, <4>2, <4>3 DEF Active
    <3> QED  BY <3>1, <3>2, <3>3
  <2>3. Active(row', DOMAIN tree'.shown) /\ row' = row  BY <1>1, <1>4, <2>1
  <2>4. ShownActive'  BY <2>2, <2>3 DEF ShownActive
  <2> QED  BY <1>6, <1>7, <2>4
<1> QED  BY <1>9, <1>10

\* A load starts.
LEMMA BegunGhosts ==
    ASSUME Typed, Ghosts, NEW t \in Tasks, Others(t), UNCHANGED row, disturbed \subseteq disturbed',
           tree' = Loading(t), task'[t].stage = "fetch", Removing(task[t]) => Removing(task'[t]),
           Selectable(row, task[t]) => Selectable(row', task'[t])
    PROVE  Ghosts'
<1> SUFFICES ASSUME Spared(Haunting)'
             PROVE  ShownActive' /\ LandingActive' /\ \A u \in Tasks : Selectable(row', task'[u])
  BY DEF Ghosts
<1>1. tree'.run = t /\ tree'.shown = tree.shown /\ tree'.selected = tree.selected
  BY LoadingDoes DEF Typed, TreeFormed
<1>2. ShownActive /\ \A u \in Tasks : Selectable(row, task[u])  BY GhostsBefore
<1>3. (\E u \in Tasks : Removing(task[u])) => \E u \in Tasks : Removing(task'[u])
  BY DEF Others
<1>4. ShownActive'  BY <1>1, <1>2, <1>3 DEF ShownActive
<1>5. LandingActive'  BY <1>1 DEF LandingActive, Landing
<1>6. \A u \in Tasks : Selectable(row', task'[u])  BY <1>2 DEF Others
<1> QED  BY <1>4, <1>5, <1>6

LEMMA PageGhosts ==
    ASSUME Typed, Ghosts, NEW t \in Tasks, Page(t)
    PROVE  Ghosts'
<1> DEFINE k == task[t]
           j == task'[t]
<1>1. /\ tree.run # Null => task[tree.run].stage \in Fetching
      /\ k \in Task /\ Formed(k) /\ t # Null /\ DOMAIN tree.snap = DOMAIN tree.shown
  BY NullAssumption DEF Typed, TreeFormed, TasksFormed
<1>2. ASSUME Confirmed(t) PROVE Ghosts'
  <2>1. /\ k.stage = "answer" /\ Others(t) /\ j.stage = "fetch" /\ Later(j, k) /\ j.doc = k.doc
        /\ tree' = Loading(t) /\ Note(Begun(k.workspace)) /\ UNCHANGED row
    BY <1>2, ConfirmedDoes
  <2>2. k.done /\ j.done  BY <1>2, ConfirmedDoes
  <2>3. disturbed \subseteq disturbed'  BY <2>1, BegunDoes DEF Typed, Noted
  <2>4. Removing(k) => Removing(j)  BY <2>1 DEF Removing, Later, Fetching
  <2>5. Made(j) => Made(k)  BY <2>1, <2>2 DEF Made, Later
  <2>6. Selectable(row, k) => Selectable(row', j)
    BY <2>1, <2>2, <2>5, RowStill, SelectableLater
  <2> QED  BY <2>1, <2>3, <2>4, <2>6, BegunGhosts
<1>3. ASSUME Finished(t) \/ Undone(t) PROVE Ghosts'
  <2>1. /\ k.stage = "answer" /\ Others(t) /\ UNCHANGED row /\ disturbed \subseteq disturbed'
        /\ k.op = "remove" => ~k.done
        /\ j.op = "none" /\ j.stage = "none"
        /\ tree'.run = tree.run /\ DOMAIN tree'.shown = DOMAIN tree.shown /\ tree'.selected = tree.selected
    BY <1>1, <1>3, FinishedDoes, UndoneDoes DEF Noted
  <2>2. tree.run # t /\ ~Removing(k) /\ Selectable(row', j)
    BY <1>1, <2>1 DEF Fetching, Removing, Selectable, Made
  <2> QED  BY <2>1, <2>2, RowStill, GhostsKept
<1>4. ASSUME TrashAnswered(t) PROVE Ghosts'
  <2>1. /\ k.stage = "answer" /\ Others(t) /\ j.stage = "list" /\ Later(j, k) /\ j.doc = k.doc
        /\ k.op \in Emptying /\ UNCHANGED <<row, workspace, tree>> /\ disturbed \subseteq disturbed'
    BY <1>4, TrashAnsweredDoes DEF Noted
  <2>2. j.done = k.done  BY <1>4, TrashAnsweredDoes
  <2>3. tree.run # t /\ ~Removing(k) /\ ~Made(j)
    BY <1>1, <2>1 DEF Fetching, Removing, Made, Emptying
  <2>4. Selectable(row, k) => Selectable(row', j)
    BY <2>1, <2>2, <2>3, RowStill, SelectableLater
  <2> QED  BY <2>1, <2>3, <2>4, RowStill, GhostsKept
<1>5. ASSUME Listed(t) PROVE Ghosts'
  <2>1. k.stage = "listed" /\ Others(t) /\ UNCHANGED row  BY <1>5, ListedDoes
  <2>2. ~Removing(k) /\ tree.run # t  BY <1>1, <2>1 DEF Removing, Fetching
  <2>3. CASE /\ k.op = "restore" /\ k.done /\ j.stage = "fetch" /\ Later(j, k) /\ j.doc = k.doc
             /\ tree' = Loading(t) /\ Note(Begun(k.workspace))
    <3>1. disturbed \subseteq disturbed'  BY <2>3, BegunDoes DEF Typed, Noted
    <3>2. Selectable(row, k) => Selectable(row', j)
      <4>1. ~Made(j)  BY <2>3 DEF Made, Later
      <4> QED  BY <2>1, <2>3, <4>1, RowStill, SelectableLater
    <3> QED  BY <2>1, <2>2, <2>3, <3>1, <3>2, BegunGhosts
  <2>4. CASE j.op = "none" /\ UNCHANGED <<tree, disturbed>>
    <3>1. Selectable(row', j)  BY <2>4 DEF Selectable, Made
    <3> QED  BY <2>1, <2>2, <2>4, <3>1, RowStill, GhostsKept
  <2> QED  BY <1>5, <2>3, <2>4, ListedDoes
<1> QED  BY <1>2, <1>3, <1>4, <1>5, ReloadedGhosts DEF Page

LEMMA UserGhosts ==
    ASSUME Typed, Ghosts, User
    PROVE  Ghosts'
<1> DEFINE t == FirstOf(Slots)
           j == task'[t]
<1>1. /\ tree.run # Null => task[tree.run].stage \in Fetching
      /\ tree \in TreeState /\ disturbed \subseteq Causes /\ workspace \in Workspaces /\ tree.shown \in Nodes
  BY DEF Typed, TreeFormed, TreeState
<1>2. ASSUME Started(t, j), disturbed \subseteq disturbed', UNCHANGED row, tree'.run = tree.run,
             DOMAIN tree'.shown = DOMAIN tree.shown, tree'.selected = tree.selected,
             j.stage \in {"call", "list"}, ~j.done
      PROVE  Ghosts'
  <2>1. t \in Tasks /\ Others(t) /\ task[t].stage = "none"  BY <1>2 DEF Started
  <2>2. tree.run # t /\ ~Removing(task[t]) /\ Selectable(row', j)
    BY <1>1, <1>2, <2>1, NullAssumption DEF Fetching, Removing, Selectable, Made
  <2> HIDE DEF t
  <2> QED  BY <1>2, <2>1, <2>2, RowStill, GhostsKept
<1>3. ASSUME NEW p \in Ids, NEW title \in Titles, CreateClick(p, title) PROVE Ghosts'
  BY <1>2, <1>3, CreateClickDoes DEF Called
<1>4. ASSUME NEW title \in Titles, RenameClick(title) PROVE Ghosts'
  BY <1>2, <1>4, RenameClickDoes DEF Called, Noted
<1>5. ASSUME DeleteClick PROVE Ghosts'
  BY <1>2, <1>5, DeleteClickDoes DEF Called
<1>6. ASSUME NEW d \in Docs,
             (\E x \in Docs, kind \in {"inside", "beside"} : Drop(d, kind, x)) \/ DropBelow(d)
      PROVE  Ghosts'
  BY <1>2, <1>6, MoveDoes DEF Called
<1>7. ASSUME NEW d \in Docs, Select(d) PROVE Ghosts'
  <2>1. /\ tree'.status = tree.status /\ tree'.run = tree.run /\ tree'.shown = tree.shown /\ tree'.selected = d
        /\ (tree.status = "ready" /\ d \in DOMAIN tree.shown) \/ d \in Crumbs
        /\ UNCHANGED <<row, task, disturbed>>
    BY <1>7, SelectDoes
  <2>2. d \in DOMAIN tree.shown
    <3>1. CASE d \in Crumbs
      <4>1. tree.selected # Null /\ \E n \in 1..Cardinality(Docs) : d = Ancestors(tree.shown, tree.selected)[n]
        BY <3>1 DEF Crumbs
      <4>2. d # Null /\ tree.selected \in Docs  BY <1>1, <4>1, NullAssumption DEF TreeState, Ids
      <4> QED  BY <1>1, <4>1, <4>2, AncestorsInside
    <3> QED  BY <2>1, <3>1
  <2> SUFFICES ASSUME Spared(Haunting)'
               PROVE  ShownActive' /\ LandingActive' /\ \A u \in Tasks : Selectable(row', task'[u])
    BY DEF Ghosts
  <2>3. ShownActive /\ LandingActive /\ \A u \in Tasks : Selectable(row, task[u])
    BY <2>1, GhostsBefore
  <2>4. row' = row /\ task' = task  BY <2>1
  <2>5. ShownActive'  BY <2>1, <2>2, <2>3, <2>4 DEF ShownActive, Active
  <2>6. LandingActive'  BY <2>1, <2>3, <2>4 DEF LandingActive, Landing
  <2> QED  BY <2>3, <2>4, <2>5, <2>6
<1>8. ASSUME ShowDocuments \/ (\E d \in Docs : Pick(d)) PROVE Ghosts'
  <2>1. UNCHANGED <<row, tree, task, disturbed>>  BY <1>8, PanelDoes
  <2> QED  BY <2>1 DEF Ghosts, ShownActive, LandingActive, Landing, Spared
<1>9. ASSUME ShowTrash PROVE Ghosts'
  <2>1. Started(t, List(workspace)) /\ UNCHANGED <<row, workspace, tree, disturbed>>
    BY <1>9, ShowTrashDoes
  <2>2. Started(t, j) /\ j = List(workspace)  BY <2>1 DEF Started
  <2>3. List(workspace).stage = "list" /\ List(workspace).done = FALSE  BY <1>1, ListLoadFormed
  <2> QED  BY <1>2, <2>1, <2>2, <2>3
<1>10. ASSUME RestoreClick \/ PurgeClick PROVE Ghosts'
  <2>1. PICK op \in Emptying : TrashClick(op)
    BY <1>10 DEF RestoreClick, PurgeClick, Emptying
  <2> QED  BY <1>2, <2>1, TrashClickDoes DEF Called, Noted
<1>11. ASSUME NEW w \in Workspaces, Switch(w) PROVE Ghosts'
  <2> DEFINE u == FirstOf(Slots \ {t})
  <2>1. /\ t \in Tasks /\ task'[t] = Load(w) /\ task[t].op = "none" /\ UNCHANGED row
        /\ tree'.run = t /\ tree'.selected = Null /\ tree'.shown = tree.shown
        /\ \/ Others(t)
           \/ /\ u \in Tasks /\ task'[u] = List(w) /\ task[u].op = "none"
              /\ \A v \in Tasks \ {t, u} : task'[v] = task[v]
        /\ Note(Begun(workspace))
    BY <1>11, SwitchDoes
  <2>2. disturbed \subseteq disturbed'  BY <1>1, <2>1, BegunDoes DEF Noted
  <2>3. /\ Load(w).op = "load" /\ Load(w).stage = "fetch" /\ List(w).op = "list"
    BY ListLoadFormed
  <2> HIDE DEF t, u
  <2> SUFFICES ASSUME Spared(Haunting)'
               PROVE  ShownActive' /\ LandingActive' /\ \A v \in Tasks : Selectable(row', task'[v])
    BY DEF Ghosts
  <2>4. ShownActive /\ \A v \in Tasks : Selectable(row, task[v])  BY <2>2, GhostsBefore
  <2>5. (\E v \in Tasks : Removing(task[v])) => \E v \in Tasks : Removing(task'[v])
    BY <2>1 DEF Removing, Others
  <2>6. ShownActive'  BY <2>1, <2>4, <2>5 DEF ShownActive
  <2>7. LandingActive'  BY <2>1, <2>3 DEF LandingActive, Landing
  <2>8. ASSUME NEW v \in Tasks PROVE Selectable(row', task'[v])
    <3>1. task'[v] = task[v] \/ task'[v] = Load(w) \/ task'[v] = List(w)  BY <2>1 DEF Others
    <3>2. Selectable(row', Load(w)) /\ Selectable(row', List(w))  BY <2>3 DEF Selectable, Made
    <3>3. row' = row  BY <2>1
    <3> QED  BY <2>4, <3>1, <3>2, <3>3
  <2> QED  BY <2>6, <2>7, <2>8
<1> QED  BY <1>3, <1>4, <1>5, <1>6, <1>7, <1>8, <1>9, <1>10, <1>11 DEF User

LEMMA InitGhosts == Init => Ghosts /\ Adrift
<1> SUFFICES ASSUME Init PROVE Ghosts /\ Adrift
  OBVIOUS
<1> DEFINE t == FirstOf(Tasks)
<1>1. /\ tree = [status |-> "loading", snap |-> <<>>, shown |-> <<>>, selected |-> Null, run |-> t]
      /\ task = [u \in Tasks |-> IF u = t THEN Load(workspace) ELSE NoTask]
      /\ disturbed = {}
  BY DEF Init
<1>2. t \in Tasks  BY IdsAssumption, FirstOfIn
<1>3. Load(workspace).stage = "fetch" /\ Load(workspace).op = "load" /\ NoTask.op = "none"
  <2>1. workspace \in Workspaces  BY InitTyped DEF Typed
  <2> QED  BY <2>1, ListLoadFormed DEF NoTask
<1> HIDE DEF t
<1>4. tree.selected = Null /\ DOMAIN tree.shown = {} /\ task[tree.run].stage = "fetch"
  BY <1>1, <1>2, <1>3, EmptyNodes
<1>5. ShownActive  BY <1>4 DEF ShownActive, Active
<1>6. LandingActive  BY <1>4 DEF LandingActive, Landing
<1>7. \A u \in Tasks : task[u].op \in {"load", "none"}  BY <1>1, <1>3
<1>8. \A u \in Tasks : Selectable(row, task[u])  BY <1>7 DEF Selectable, Made
<1> QED  BY <1>1, <1>5, <1>6, <1>8 DEF Ghosts, Adrift

LEMMA StepGhosts == Typed /\ Ghosts /\ [Next]_vars => Ghosts'
<1> SUFFICES ASSUME Typed, Ghosts, [Next]_vars PROVE Ghosts'
  OBVIOUS
<1>1. CASE UNCHANGED vars
  BY <1>1 DEF vars, Ghosts, ShownActive, LandingActive, Landing, Spared
<1>2. CASE Next
  BY <1>2, ServerGhosts, PageGhosts, UserGhosts DEF Next
<1> QED  BY <1>1, <1>2

\* Only a load that lands leaves a function of another workspace to select here.
LEMMA StepAdrift == Typed /\ RunHere /\ Adrift /\ [Next]_vars => Adrift'
<1> SUFFICES ASSUME Typed, RunHere, Adrift, [Next]_vars PROVE Adrift'
  OBVIOUS
<1>1. ASSUME disturbed \subseteq disturbed', "adrift" \in disturbed' => "adrift" \in disturbed
      PROVE  Adrift'
  BY <1>1 DEF Adrift
<1>2. ASSUME NEW t \in Tasks, Server(t) PROVE Adrift'
  <2>1. ASSUME NEW answered \in BOOLEAN, Handle(t, answered) PROVE Adrift'
    BY <1>1, <2>1 DEF Handle, Note
  <2> QED  BY <1>1, <1>2, <2>1, ReadDoes, FailDoes DEF Server
<1>3. ASSUME NEW t \in Tasks, Page(t) PROVE Adrift'
  <2>1. ASSUME Reloaded(t) PROVE Adrift'
    <3>1. /\ disturbed \subseteq disturbed' /\ (tree.run # t => "superseded" \in disturbed')
          /\ "adrift" \in disturbed' => "adrift" \in disturbed \/ task[t].workspace # workspace
      BY <2>1, ReloadedDoes DEF Noted
    <3>2. tree.run = t /\ "stray" \notin disturbed => task[t].workspace = workspace
      BY NullAssumption DEF RunHere, Spared
    <3> QED  BY <1>1, <3>1, <3>2 DEF Adrift
  <2>2. ASSUME Listed(t) PROVE Adrift'
    <3>1. Note(Begun(task[t].workspace)) \/ UNCHANGED disturbed  BY <2>2, ListedDoes
    <3> QED  BY <1>1, <3>1, BegunDoes DEF Typed, Noted
  <2>3. ASSUME Confirmed(t) PROVE Adrift'
    <3>1. Note(Begun(task[t].workspace))  BY <2>3, ConfirmedDoes
    <3> QED  BY <1>1, <3>1, BegunDoes DEF Typed, Noted
  <2> QED  BY <1>1, <1>3, <2>1, <2>2, <2>3, FinishedDoes, UndoneDoes, TrashAnsweredDoes DEF Page, Noted
<1>4. ASSUME User PROVE Adrift'
  <2>1. ASSUME NEW p \in Ids, NEW title \in Titles, CreateClick(p, title) PROVE Adrift'
    BY <1>1, <2>1, CreateClickDoes
  <2>2. ASSUME NEW title \in Titles, RenameClick(title) PROVE Adrift'
    BY <1>1, <2>2, RenameClickDoes DEF Noted
  <2>3. ASSUME DeleteClick PROVE Adrift'
    BY <1>1, <2>3, DeleteClickDoes
  <2>4. ASSUME NEW d \in Docs,
               (\E x \in Docs, kind \in {"inside", "beside"} : Drop(d, kind, x)) \/ DropBelow(d)
        PROVE  Adrift'
    BY <1>1, <2>4, MoveDoes
  <2>5. ASSUME NEW d \in Docs, Select(d) PROVE Adrift'
    BY <1>1, <2>5, SelectDoes
  <2>6. ASSUME ShowDocuments \/ (\E d \in Docs : Pick(d)) PROVE Adrift'
    BY <1>1, <2>6, PanelDoes
  <2>7. ASSUME ShowTrash PROVE Adrift'
    BY <1>1, <2>7, ShowTrashDoes
  <2>8. ASSUME RestoreClick \/ PurgeClick PROVE Adrift'
    <3>1. PICK op \in Emptying : TrashClick(op)
      BY <2>8 DEF RestoreClick, PurgeClick, Emptying
    <3> QED  BY <1>1, <3>1, TrashClickDoes DEF Noted
  <2>9. ASSUME NEW w \in Workspaces, Switch(w) PROVE Adrift'
    <3>1. Note(Begun(workspace))  BY <2>9, SwitchDoes
    <3> QED  BY <1>1, <3>1, BegunDoes DEF Typed, Noted
  <2> QED  BY <1>4, <2>1, <2>2, <2>3, <2>4, <2>5, <2>6, <2>7, <2>8, <2>9 DEF User
<1>5. CASE UNCHANGED vars
  BY <1>5 DEF vars, Adrift
<1> QED  BY <1>2, <1>3, <1>4, <1>5 DEF Next

\* The page comes to rest with a document of its tree selected, or none: a removal
\* selects the nearest survivor of the list it reloads, and what a creation or
\* restoration selects is in the list by then (reselectAfterRemoval,
\* useDocumentMutations.create, handleRestore).
THEOREM NoGhosts == Spec => []NoGhostSelected
<1>1. Typed /\ Homes /\ Shows /\ Ghosts /\ Adrift => NoGhostSelected
  <2> SUFFICES ASSUME Typed, Homes, Shows, Ghosts, Adrift, Quiet, Spared(Haunting), tree.selected # Null
               PROVE  tree.selected \in DOMAIN tree.shown
    BY DEF NoGhostSelected, Haunting
  <2>1. tree.status = "ready" /\ \A u \in Tasks : task[u].op = "none"  BY DEF Quiet
  <2>2. ~Undelivered /\ \A u \in Tasks : ~Removing(task[u])
    BY <2>1 DEF Undelivered, Delivering, Removing
  <2>3. Spared({"lost", "stray"}) /\ Spared(Strange)
    BY DEF Spared, Haunting, Strange, Adrift
  <2>4. Matches(row, workspace, tree.snap)  BY <2>1, <2>2, <2>3 DEF Shows, SnapMatches
  <2>5. row[tree.selected].status = "active"  BY <2>2 DEF Ghosts, ShownActive
  <2>6. row[tree.selected].workspace = workspace  BY <2>3 DEF Homes, SelectedHome
  <2>7. tree.selected \in Docs /\ DOMAIN tree.snap = DOMAIN tree.shown
    BY DEF Typed, TreeFormed, TreeState, Ids
  <2> QED  BY <2>4, <2>5, <2>6, <2>7 DEF Matches
<1>2. Typed /\ RunHere /\ [Next]_vars => RunHere'  BY StepRunHere
<1> QED  BY <1>1, <1>2, InitTyped, StepTyped, InitHomes, StepHomes, InitShows, StepShows,
            InitGhosts, StepGhosts, StepAdrift, PTL DEF Spec

=============================================================================
