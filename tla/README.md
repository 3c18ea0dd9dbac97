# Verification of the wildmeshing toolkit

These modules model the part of the toolkit on which every algorithm stands: attributes whose writes can be
undone, the ids and the memory of simplices, the connectivity tables of meshes of curves and of surfaces and the
operations that rewrite them, a surface with a curve registered on it, the operations that call each other inside
scopes, and the scheduler that runs them until a mesh has settled. TLC checks the modules on small instances, and
TLAPS proves, for every value of their constants, the safety properties of the attributes, the ids, the meshes of
curves and of surfaces, the maps between them, the operations and the scheduler, that the tables of a surface implement what the operations
mean for it, and what they mean (section 4).

Paths below are relative to the repository (`src/wmtk/...` is the library, `components/...` the algorithms built
on it). Line numbers are those of the commit this project lies beside.

## 1. The system

### Parts, state, operations

| part | where | state | operations |
|---|---|---|---|
| Transactional attribute | `attribute/CachingAttribute.hxx`, `attribute/Attribute.cpp` | `m_data`; the undo log `m_indices`, `m_buffer` with their ends; `m_transaction_starts`; `m_current_transaction_index` | mutable and const access, `push_scope`, `pop_scope`, `rollback_current_scope`, `change_to_next_scope`, `change_to_previous_scope`, `reserve`, `consolidate` |
| Attribute managers | `attribute/AttributeManager.cpp`, `attribute/TypedAttributeManager.cpp` | the live attributes per dimension and value type, `m_reserved_size`, `m_capacities` | registration, deletion, `reserve*`, `guarantee_*`, scopes over all attributes |
| Scope handle | `attribute/AttributeScopeHandle.cpp`, `multimesh/attribute/` | `m_failed`, `m_was_moved` | construction pushes, `mark_failed` rolls back, destruction pops |
| Mesh | `Mesh.cpp`, `Mesh_attributes.cpp` | one flag attribute per dimension | `request_simplex_indices`, `consolidate`, validity of tuples and simplices |
| EdgeMesh, TriMesh, TetMesh, PointMesh | `EdgeMesh.cpp`, `TriMesh.cpp`, ... and the `*OperationExecutor.cpp` | connectivity tables, which are attributes too | initialization, split, collapse, navigation, `is_connectivity_valid` |
| Operation | `operations/Operation.cpp` | invariants, transfer strategies, the scope of a call | `operator()`: `before`, `execute`, transfer, `after` |
| Sequences and composites | `operations/*OperationSequence.cpp`, `operations/composite/` | the operations they are made of | try or chain their parts |
| Attribute transfer | `operations/attribute_new/`, `operations/attribute_update/` | behaviours per attribute | fill the attributes of new and changed simplices, reading through the parent scope |
| Multimesh | `multimesh/`, `operations/utils/UpdateEdgeOperationMultiMeshMapFunctor.cpp` | tree of meshes, maps between simplices of parent and child | registration, deregistration, mapping, update after operations |
| Scheduler | `Scheduler.cpp` | `m_stats`; locals of a run | `run_operation_on_all` plain, flagged, by coloring |
| Invariants | `invariants/` | references to attributes | `before`, `after` |
| Darts, simplices | `dart/`, `autogen/`, `simplex/` | constant tables | permutations, stars, links, boundaries |
| Files, cache | `io/` | files, a unique directory | read, write, create, delete |
| Functions | `function/` | none that lasts | energies and their derivatives |
| Components, applications | `components/`, `applications/` | options | drive the scheduler with particular operations |

### How they interact

The scheduler calls an operation on one simplex after another. `Operation::operator()` asks the invariants,
opens one scope over all attributes of a family of meshes, runs `execute`, lets the transfer strategies write
attributes around the output, asks the invariants again, and keeps or undoes everything when the scope handle is
destroyed. `execute` of a split or a collapse asks the mesh for ids, which asks the managers for memory, and
rewrites connectivity; `execute` of a composite calls other operations, each with a scope of its own on the same
stack. Connectivity, flags and user data are all attributes, so the scopes of `CachingAttribute` are what makes
an operation atomic. The capacities and the sizes of the attributes are not attributes: they stay as they are
when a scope is undone.

### What is hard

There is one thread (the coloring loop of the scheduler is the exception, and every use of it is commented out),
no network and no crash recovery. The difficulties are those of a transactional in-memory store with callbacks:

* nested scopes that share one log, where inner scopes end in different ways while outer ones stay open;
* three quantities that decide whether an id has memory, changed independently, and not undone with a scope;
* failure after partial work, refused operations that report success, exceptions through nested operations;
* queues of simplices, flags and tuples that refer to a mesh which has changed since;
* degenerate connectivity, loops of one and two edges, last edges of a curve; ears and ribs at the boundary of a
  surface, edges whose collapse would pinch it;
* two meshes that change in one operation, with maps between them that name tuples of faces that are going away;
* loops that repeat until nothing succeeds, and must end, but not too early.

The complete list, each at its line with the properties that watch it, is under "hazards" in `PROJECT.json`.

### What makes each part correct

| part | properties |
|---|---|
| Attribute | a scope is as good as a full copy of the attribute; the log never grows beyond its arrays; old records never show |
| Managers and ids | an id handed out has memory in every attribute; requests are granted; ids are fresh while anybody remembers old ones |
| Mesh | tables agree with the incidence they encode; returned tuples can be navigated from; operations mean what they say on curves (surfaces, volumes) |
| Operation | one call is one atomic step, with whatever is nested in it, and every call ends |
| Scheduler | no simplex is forgotten, a run ends settled, the counters count |
| Multimesh | maps are mutual, total where they should be, and follow operations; the tree has consistent ids |

## 2. Modules

| module | models | state corresponds to |
|---|---|---|
| `TransactionStack` | abstract: what scopes promise | one complete copy per open scope |
| `CachingAttribute` | `CachingAttribute.hxx`: the log that all scopes share | `indices` is `m_indices` below `m_indices_end` with the values at their offsets; the other variables have the names of the code |
| `UndoBuffer` | the two arrays the log lives in, `update_buffer_sizes_for_add`, `cache`, `apply_cache` | `m_indices`, `m_buffer` with their whole length, stale contents included, and their ends |
| `CachingAttributeProofs`, `UndoBufferProofs` | theorems about `CachingAttribute` and `UndoBuffer` | |
| `SimplexStorage` | `request_simplex_indices`, the managers, `consolidate`, reading a file, for one dimension | `capacity` = `m_capacities`, `reserved` = `m_reserved_size`, `sizes` = `Attribute::reserved_size` of each live attribute, `active` = the flags |
| `SimplexStorageProofs` | theorems about `SimplexStorage` | |
| `PolylineComplex` | abstract: what split and collapse do to a collection of curves | a census of curves by kind and length |
| `EdgeProofs` | theorems about `EdgeMesh` and `EdgeScheduler` | |
| `EdgeMesh` | `EdgeMesh.cpp`, `EdgeMeshOperationExecutor.cpp`, the initialization, `consolidate` | `mesh` holds `m_ev`, `m_ee`, `m_ve` and the active ids; `capacity` as above; `output` is what the operation returned |
| `AtomicOperation` | abstract: what a caller may rely on | the result and what is left of the work |
| `Operation` | `Operation::operator()`, composites, And, Or and Min sequences, scope handles | the call stack, the stack of scopes, what was written |
| `OperationProofs` | theorems about `Operation`; that it implements `AtomicOperation` | |
| `TriangleComplex` | abstract: what split and collapse do to a surface, with the link condition in its textbook form | oriented triangles, one dart per corner |
| `TriMeshExecutor` | operators: the tables of a `TriMesh`, initialization, switches, cofaces, the executor's split and collapse, the link condition, the renaming by `consolidate` | a mesh record: `fv`, `fe`, `ff`, `vf`, `ef` are `m_fv` to `m_ef` at the active simplices, the domains are the flags, `cap` the capacities |
| `TriMesh` | the operations on one `TriMesh` and `is_connectivity_valid` | `mesh` is such a record |
| `TriMeshExecutorProofs` | lemmas about the operators of `TriMeshExecutor`: navigation, what the executor writes, the link condition, splits, the faces that a collapse leaves | |
| `TriMeshProofs` | collapses, `consolidate`, initialization; theorems about `TriMesh` and `Multimesh`; that `TriMesh` implements `TriangleComplex` | |
| `MarkedSurface` | abstract: a surface some of whose edges are marked | `TriangleComplex` and the set of marked edges |
| `TriangleComplexProofs` | theorems about `TriangleComplex` and `MarkedSurface` | |
| `Multimesh` | a `TriMesh` with an `EdgeMesh` as its child: extraction from a tag, `MultiMeshManager`, the map functor of splits and collapses, both multimesh invariants, `multimesh::consolidate` | `mesh` the parent, `curve` and `capacity` the child, `maps.p2c` and `maps.c2p` the two map attributes at the active edges |
| `EdgeScheduler` | `Scheduler::run_operation_on_all`, plain and flagged, over `EdgeMesh`, with the flag the way `longest_edge_split` and `shortest_edge_collapse` use it | queue, flags, the three counters; and as history what has been tried and counted |
| `MC_*` | constants of the checked instances | |

How they compose: `UndoBuffer` implements `CachingAttribute`, which implements `TransactionStack`. `Operation`
takes a scope to restore exactly the value it was opened at, which is what `TransactionStack` says. `EdgeMesh`
takes requests to be granted with fresh ids and memory, which `SimplexStorage` shows, and `EdgeScheduler` extends
`EdgeMesh` and steps its operations. `TriMesh` extends `TriMeshExecutor`. `Multimesh` extends `TriMesh`, each of its steps
being one of the parent with what it does to the child and the maps, and takes the executor of the child from
`EdgeMesh` by `INSTANCE`. `EdgeMesh` implements `PolylineComplex`, `TriMesh` implements
`TriangleComplex`, `Multimesh` implements `MarkedSurface`, `Operation` implements `AtomicOperation`.

Where the models abstract:

* The values of one attribute index (`dimension` numbers) are one model value in `CachingAttribute`; they are
  separate cells in `UndoBuffer`, since the growth of the buffer depends on their number.
* `CachingAttribute` has one action for all forms of mutable access, `vector_attribute`, with the assignment that
  the caller makes through the reference. The code records the old value even when the caller only reads
  through the reference; the write of an unchanged value is that case.
* `SimplexStorage` has one dimension and one manager. The four managers of a dimension (char, long, double,
  rational) are reserved, guaranteed and consolidated together by every caller, and dimensions do not share
  anything.
* An operation without parts is in `Operation` an edit that succeeds, that refuses after any amount of work, or
  that throws. The work is a token; half-done work is another token, "torn". So the model tells apart whose work
  is left and whether it is whole, which is all that `ImplementsAtomic` needs.
* A composite fails with a part, or by itself between its parts (`TetEdgeSwap`), or throws between them or after the
  last one (`composite_fails`). The only composite that writes by itself is `ProjectOperation`, after its one part. That write is
  counted with its attribute transfer, as no other step comes between: whole in "transfer", cut short in "torn".
* In `EdgeMesh` the answer of the invariants is `accepted`, chosen freely, except in a free mesh, where
  `EdgeCollapse` asks none. Attempts beyond the bounds are those that a length invariant would refuse.
* The executors of `TriMesh` fill the faces of the ears and of the two halves one table after another. The model
  writes each table of each step as one function of the rows before it, in the order of the code where a later
  write reads an earlier one (`update_ids_in_ear`, `replace_incident_face`, `connect_faces_across_spine`,
  `connect_ears`). Rows of deleted simplices are dropped from the record at once, as
  `delete_simplices` clears their flags; a read of one stops TLC with an error.
* A tuple is its face with the local vertex and the local edge. The tables of `autogen/` are arithmetic on the
  three local indices, in the numbering of the code: edge i is opposite to vertex i.
* In `Multimesh` the maps are read with the involution the code computes, so that the local indices of a tuple
  in one face are applied to another one where the code does that (finding 3).
* The scheduler's priorities can be anything, so a pass takes its queue in every order. Failures before the
  scope opens are `refuse`, later ones are `attempt` with `accepted = FALSE`.
* All models are of the default build: `WMTK_TEST_BREAKING_CHECKS` is off, hence `operator()` catches
  `std::exception`, marks its scope and throws again. Assertions are properties and not guards,
  with one exception: `at_current_scope` of `CachingAttribute` is the assertion that no checkpoint is being read. The
  model assumes it of the callers; no property restates it.
* After a collapse, `Multimesh` leaves out the call of `update_all_maps` that follows `update_ear_replacement`. It looks at
  the ears that are left, and gives a new tuple to one whose map names a removed face
  (`CollapseAlternateFacetData::get_alternative` returns null for every other face). `MapsAgree`, which is checked and proved
  without the call, says that the map of an active edge names an active face, so the call writes nothing.

Assumptions that the models make and the code does not check: no attribute is registered or deleted, and no mesh
consolidated, while a scope is open (`SimplexStorage`); checkpoint reads nest less deep than the open scopes
(`CachingAttribute`).

## 3. Runs

| run | instance | shows |
|---|---|---|
| `caching_attribute` | 2 values, 0 to 2 indices, 3 scopes, 4 records; about 99 000 states | `TypeOK`, `ScopesNest`, `RecordsInRange`, `ScopesAreStable`, and the refinement of `TransactionStack`, under a mapping that reads every scope through `const_vector_attribute` |
| `undo_buffer` | the same with 2 scopes, dimension 2, first sizes 3 and 5; about 27 000 states | the assertions of `cache` (`BufferHasRoom`, `EndsAgree`) and the refinement of `CachingAttribute` |
| `undo_buffer_wide` | dimension 60, first sizes of the code | finding 1 |
| `simplex_storage` | the flags and two more attributes, ids up to 4, 2 scopes | `TypeOK`, `EveryIdHasMemory`, `BeliefIsCovered`, `RequestsAreGranted`, `GrantedIdsAreFresh` |
| `edge_mesh` | inputs of up to 4 vertices and 2 edges, free ones too; capacities 4 and 5; about 565 000 states | `TypeOK`, `is_connectivity_valid`, `TablesAgree`, `OutputNavigable`, `IdsAreFresh`, the refinement of `PolylineComplex` |
| `edge_mesh_success` | 2 edges | finding 2 |
| `operation` | a composite; an Or around it; an And; a Min around the Or | `TypeOK`, `ScopesMatchCalls`, `FailureLeavesNothing`, the refinement of `AtomicOperation`, `CallsEnd` |
| `edge_scheduler` | inputs of up to 3 edges, capacities 5 and 6, one call, either priority; about 81 000 states | `SchedulerTypeOK`, `NothingForgotten`, `SettledAtTheEnd`, `ResultCountsAttempts`, `RunsEnd` |
| `edge_scheduler_random` | the random priority | finding 4 |
| `tri_mesh` | a triangle, two triangles of equal and of opposite orientation, a disk of three, a sphere of four, an annulus of six, a Moebius band of five, free triangles; one split (two on the triangle), any collapses; about 15 000 states | `TypeOK`, `is_connectivity_valid`, `TablesAgree`, `StarsReachable`, `OutputNavigable`, `LinkConditionExact`, `TopologyKept`, the refinement of `TriangleComplex` |
| `multimesh` | the triangle, both pairs of triangles, the disk and the sphere, with the boundary, an inner edge, an open or a closed path as the child; up to two splits of any edge, any collapses; about 32 000 states | `MapsAgree`, `BoundaryFollowed`, the refinement of `MarkedSurface` |
| `multimesh_equivalent` | the same | finding 3 |

Every property of a passing run has a mutant, a change of the modelled code (a dropped condition, a wrong order,
a missing reset) under which TLC finds that property violated. The variants stand in the modules before the
definition they alter, each marked "Variant with a bug"; no specification uses them.

### Why the bounds are enough

* Three scopes and four records give every relation between an outer scope, a middle one and an inner one that
  ends before the middle one writes again, with an index recorded twice in a scope and in two scopes. Two
  indices tell a record of one index from that of another. Two values distinguish old from new.
* With first sizes 3 and 5 (32 and 64 in the code) and dimension 2 the four records grow both arrays, the buffer
  twice and before it is full; the arrays are reused by later transactions with their stale contents.
* Four ids allow a request after an undone one, a consolidation to fewer ids and a request after it. An
  attribute can be registered before and after each of these.
* Two edges on up to four vertices give a segment, a path, loops of one and two edges, two components and free
  edges, every vertex in at most two edges. Curves of three edges, closed and open, come from them by a split; five
  edge ids leave room for a split and a collapse of every edge in every order, and consolidation gives the ids of
  deleted edges back any number of times.
* The inputs of `tri_mesh` have boundary edges and inner ones, inner edges between boundary vertices, vertices
  whose faces close up and those whose faces do not, consistent and inconsistent orientations, one and two
  boundary curves. A split or a collapse rewrites only the stars of the ends of one edge; in these shapes each ear
  is met with and without a face behind it, and both halves of the spine with one and with two incident faces.
  Each is split once (the triangle twice) and then collapsed as far as the link condition allows; the annulus and
  the Moebius band are where a collapse can be refused for a closed path of three edges that bounds no face.
* In `multimesh` the child has a mapped spine, mapped ears on either side, and none; its edges are stored in either
  of the faces of the parent's edge, and the operating tuple in either face and either end.
* The tree of operations nests composite, Or and Min three deep, and has an And of three parts with a composite
  at the end; failure and exception are possible at each step of each call.
* In `edge_scheduler` one split fits after an input of three edges and two after a smaller one, so a flagged run
  has passes over new edges; collapses make up to three passes over three edges.

### Fairness and deadlock

Two specifications state fairness: weak fairness of the steps of a call once it has been made
(`WF_vars(Step)` in `Operation`, `WF_svars(Step)` in `EdgeScheduler`). The program is one thread that executes
the next statement; nothing it does in these parts waits for anybody. No fairness is assumed of the choice among
steps (an invariant may refuse every time) or of the caller, who need not call again. `RunsEnd` rests on the
bounds of the mesh as well: a split succeeds only while there is room, which is what length invariants give the
components that use it.

Deadlock is checked everywhere except in the two scheduler configurations, where the single call of
`run_operation_on_all` that the bound `MaxRuns` allows is over at the end of a behaviour.

## 4. Proofs

All theorems hold for every value of the constants that the named assumptions of the modules admit; TLC evaluates
these assumptions in the runs. `ValueAssumption`, `BoundAssumption`, `FlagsAssumption`, `BoundsAssumption` (an input
fits into the bounds), `RandomsAssumption`, `MaxVerticesAssumption` and `BufferBoundAssumption` only say of what kind the
constants are. `InputsAssumption` says which lists of triangles `TriMesh` is initialized with: manifolds, with or without
boundary and in any orientation, any number of faces and pieces, or free triangles, with as many splits as there is room
for. The code does not look whether its input is a manifold; its neighbour tables have one entry per edge, so
no other surface fits into them. `TagsAssumption` says of the tags from which a child is extracted what the initialization
of an `EdgeMesh` asserts of its input: at most two tagged edges meet in a vertex.
`TreeAssumption` says that edits and no others have no parts. `InitialAssumption` is what the code
asserts before either array of the log grows: it has more than two elements (at first 32 and 64), and `BufferValueAssumption` keeps the mark of a half-written value apart from the values. Two
results need a hypothesis of their own, stated with them and explained below: `BufferFits` and `Hierarchy`.

**CachingAttributeProofs.** The inductive invariant is `Inv == TypeOK /\ ScopesNest /\ RecordsInRange`. No
conjunct is inductive alone: a replay is of the right type only if its records are in range and its scope starts
inside the log; a record is in range of an attribute that grows only by the types; the starts stay ordered
because a new one is the length of a log that never shrinks while a scope is open. From it follow `TypeCorrect`,
`NestingCorrect` and `RangeCorrect`.

`ScopesStable` is the central result: no step changes what a scope that stays open would restore. Its core is
two lemmas about the search in the log. `SearchAfterWrite`: writing an index after its old value was appended
does not change the search result of any scope, because either the scope had a record of it before, which is
found first, or the new record is the first one and holds the old value. `SearchAfterReplay`: replaying an inner
scope changes nothing for a scope around it, since the first record of the inner one is the value the outer one
would find. `Refinement` uses the same lemmas (`CopiesKept`) to map each step to a step of `TransactionStack` under
`copies`, what a reader sees through each scope.

**UndoBufferProofs.** `EndsAlwaysAgree`, for every dimension: the invariant `Ends` adds to `EndsAgree` that scopes
start inside the log and that an attribute without an open scope has an empty one, which is why both ends may be
reset when the outermost scope closes. Everything else needs `BufferFits == 4 * Dimension <= 3 * InitialBuffer`, the
condition that one growth by three quarters gains room for a record. With the 64 of the code it holds up to 48 values per
index; that it cannot be dropped is finding 1. (It is sufficient, and not far from necessary: the first dimension that
fails is 57.) Under it `Contents` is inductive: every record of the live part of the arrays finds the cells of one
whole value in the buffer, whatever the arrays held before. From it follow `RoomCorrect` and `Refinement`. The replay, a
loop from the end of the log, is a recursive function there and a choice of the oldest record in `CachingAttribute`; that
the two agree is shown by a least slot at which they do not. `StackRefinement` puts this together with
`CachingAttributeProofs`: the two arrays of the code, with their stale contents and their growth, implement one full
copy of the attribute per open scope.

**SimplexStorageProofs.** The inductive invariant is `Inv == TypeOK /\ BeliefIsCovered`. What the runs check,
`EveryIdHasMemory`, is not inductive: `guarantee_at_least` decides by `reserved`, so memory follows only if
`reserved` lies between the capacity and every size, which is `BeliefIsCovered`. The lemmas `ReserveCovers` and
`GuaranteeCovers` show how the two ways to reserve keep it; `RequestEffect` says what a request does under the
invariant, and gives `GrantsCorrect` and `FreshCorrect`. For the latter, `TypeOK` says that what open scopes
remember lies below the capacity.

**EdgeProofs, the mesh.** `is_connectivity_valid`, the check of the code, is not inductive: it accepts a missing neighbour, and
a collapse next to one would join what does not meet. `TablesAgree` is inductive with the types, but it speaks of sets of
pairs. `Agree` says the same of two half-edges at a time (an edge and one of its sides): two at one
vertex name each other's edge, so there is no third; a named neighbour is at the vertex; `m_ve` names an edge of its
vertex. `AgreeIsTablesAgree` leads back. `SplitTables` and `CollapseTables` say what the tables hold after each
operation, and `SplitAgrees` and `CollapseAgrees` go through the half-edges: loops of one and two edges, where one edge is
the neighbour of both ends, are the cases that need the vertex in the condition of `split_ee`. `IdsArePacked` is about
the numbering of `consolidate`. Proved are `TypeCorrect`, `ConnectivityIsValid`, `TablesAlwaysAgree`, `OutputIsNavigable`
and `IdsStayFresh`.

**EdgeProofs, the scheduler.** The invariant of the mesh is the first conjunct of `SInv`. The next say what
holds in the middle of a run: in either branch the counters add up to what the operations returned, and a pass by priority
that has had no success so far has every active edge attempted or still queued (`PassCovers`), which is what `SettledAtTheEnd`
comes from when such a pass is the last one. `NothingForgotten` needs of a split and of a collapse which edges have an
end that changed, which is read off the proved tables. All four properties of the module are theorems.

**TriMeshExecutorProofs and TriMeshProofs.** The inductive invariant is `Inv`: the mesh is `Manifold` and its capacity is within
the bound. `is_connectivity_valid` and `TablesAgree` are not inductive: tables can agree on a surface pinched at a vertex,
where turning from `m_vf` meets only some of the faces, and a collapse there moves its vertex in those alone. So
`Manifold` also has `Stars`: the faces of a vertex cannot be divided into two parts that are not neighbours. Its other
parts are `Corners` (a face has three vertices, and no other face has the same), `EdgesAgree` (places have the same
edge id just if they have the same ends), `Mates` and `Across` (the two faces at an edge are neighbours, and no
third one is there) and `Named` (what a vertex or an edge names has it). Then:

1. *Navigation.* `SwitchFace`: the involution leads to the same edge and vertex of the neighbour and back. `CofacesAreStar`: as
   many turns as there are faces meet every face of a vertex, by `Stars` and counting. `Incident`: the incident faces
   are the one or two faces at the edge.
2. *What is written.* `SplitEdgeIs` and `CollapseEdgeIs` follow the writes of the executor table by table and face by
   face, and end in `SplitTables` and `CollapseTables`. The ears need care: two ears may be of one face, so the
   writes for one face are shown not to disturb what the next one reads (`Before`, `Ready`).
3. *What it means.* `SplitFacts` and `CollapseFacts` say the same by geometry: a face is replaced by two with the new
   vertex; the faces at one end get the other. From these come the parts of `Manifold`, one lemma each. For a
   collapse every part rests on `LinkFacts`. `CollapseStars` is the hardest: were the faces at the merged vertex to fall into two
   parts, one part at an end would hold the face behind one ear and not the one behind the other. Its faces have
   two edges each at that end, shared in pairs within the part but for one, and an odd number of things cannot be
   paired (`NoOddPart`). At an inner edge the link condition has one of the ends inside.
4. *Free meshes.* No two places share a simplex (`Apart`), which is all there is to show.
5. *`consolidate`* numbers each set of ids without a gap (`Packed`), the same way in all tables. *`initialize`* numbers edges by
   sorting them (`EdgeNumbers`), and joins the two faces at each.

`AlwaysManifold` is `Spec => []Inv`, and the five invariants of `tri_mesh` about one state follow:
`TypeCorrect`, `ConnectivityCorrect`, `TablesCorrect`, `StarsCorrect`, `OutputCorrect`. `LinkConditionCorrect` is about
`link_condition`, which compares links without the edges at the boundary and then looks for common neighbours at
the boundary: in a manifold that is the same as comparing links in the surface closed by a cone (`LinkExact`).
`ComplexRefinement` maps every step to one of `TriangleComplex` on darts: a split moves each dart at the edge to the new vertex,
once for either end (`SplitDarts`), a collapse moves the darts of one end, `consolidate` renumbers them. The capacity never reaches
`MaxVertices` while a split is allowed, since each one takes one vertex, or three in a free mesh, of what
`InputsAssumption` leaves free.

**TriMeshProofs, the maps.** `MapsCorrect` is `MapsAgree` for every parent and tag. The inductive invariant `FamilyInv`
(`AlwaysFamily`) adds to it that the parent is `Manifold` and not free, since a map names tuples of the parent and edges have to be
told by them, and that the child's ids lie below its capacity, so that a new one is in no map. TLC found it
invariant on the run `multimesh` before the proof. The steps of the parent are those of `TriMesh`, for which `Inv` is proved; for the maps:

1. *Split.* The functor visits the ears in an order that nothing fixes, and after each of them a map names
   either what it named or the same edge from a face that replaces its own: `Carried` says so of the
   faces visited so far, and `AtHalves` of the two halves of a mapped spine, which get the new ids of the child.
2. *Collapse.* An ear that is mapped lends its mapping to the edge that both ears become. `EarsJoined` says what holds
   after a set of the faces at the edge has been visited. It needs that at most one ear of a face is mapped, which is
   `map_valid`, the invariant that the code asks before a collapse: with both mapped one would be lost.
3. *Consolidation.* The ids of either end are renamed without a gap, and the maps with them.
4. *Registration* (`RegisteredMaps`). Each tagged edge has one tuple, and the child numbers its edges in the order of the tags.

**OperationProofs.** `Inv` has three parts, each inductive given the ones before: the shape of the call stack (who waits
for whom at which part), the correspondence of scopes and calls, and `Untouched`: a sequence none of whose parts has
succeeded yet is where it was called. The last is what makes a sequence, which opens no scope, as atomic as an operation
with one, and gives `FailuresLeaveNothing`. None of it depends on how operations are built from each other, so
`ScopesAlwaysMatch` and `FailuresLeaveNothing` hold even for operations that call themselves.

**OperationProofs, the refinement.** `AtomicOperation` defines what an operation may leave by recursion over its parts, so
`Refinement` is about operations of some finite depth: `Hierarchy` gives every operation a level above those of its parts.
The code justifies it: a composite or a sequence gets its parts as pointers to operations that have been
constructed. The recursion is solved level by level (`LeastNatural`, a least level at which it has no solution, stands
in for induction). The invariant `Origins` says that each call on the stack has done what its parts so far may leave; it
is what the refinement needs at the moment a call returns.

**TriangleComplexProofs.** About the surface that a `TriMesh` stands for, with any vertices `0 .. N - 1`.
`SurfaceStaysManifold`: no operation gives an edge a third triangle. For a collapse of ab this is the link condition at
work: an edge bx has afterwards the triangles of bx and of ax; if both had some besides abx, then x is in both links, so
abx is a triangle and takes one of the two places on either side. `MarksStayOnEdges` needs the cone over the boundary in the
link condition: were ac and bc both boundary edges of the triangle abc, a mark on ac would end on no edge, but the
links of a and b would then meet in the edge from c to the apex. `TypeOK` counts triangles with `Cardinality`; the invariant
`Surface` says the same of any three triangles. The runs `tri_mesh` and `multimesh` check that the tables implement these
specifications, and `ComplexRefinement` proves it for `TriMesh`, so the first result holds of the tables of every size.

The proof of this module showed that `TypeOK` of `TriangleComplex` was not inductive as it first stood: a free mesh could
hold a triangle in both orientations. It now says that darts which meet are of one triangle, which is what the free inputs
of the code are.

**Only model-checked.**

* Liveness under fairness (`CallsEnd`, `RunsEnd`), which is out of reach of the prover.
* `ImplementsPolylines`: the census of a mesh is made of its connected pieces; not attempted yet.
* `Multimesh`: `BoundaryFollowed` and the refinement of `MarkedSurface`. Both relate the ends of the child's edges to those of
  the parent's, which `FamilyInv` does not: the first fails outside the boundary (finding 3 and the end of section 5), and the
  second asks of a collapse that a marked edge meets another one, which is known only through the tables of the child.
* `TopologyKept` counts pieces by a recursive function and compares Euler characteristics, which asks for counting
  arguments over stars of any size.

## 5. Findings

1. `undo_buffer_wide`: the buffer of the log grows once by 1.75 (`attribute/CachingAttribute.hxx:225-228`). An
   attribute with 57 to 63 or 99 to 112 values per index needs more for its second record, one with more than
   112 for its first, and the assertion at line 250 fails; without assertions the copy at line 252 writes past the end.
2. `edge_mesh_success`: a collapse that the executor refuses (`EdgeMeshOperationExecutor.cpp:204-208`) is
   reported as a success, against `operations/Operation.hpp:79`.
3. `multimesh_equivalent`: to map a tuple from the parent to the child, `map_tuple_between_meshes` brings it into
   the face that the map is about before it applies the stored local indices. The search
   (`multimesh/MultiMeshManager.cpp:145`) compares the candidates with the face the tuple is already in, not with
   the one it found at line 134, so the tuple stays where it is, and its local indices are taken for those of
   another face. The result is the right edge of the child and can be the wrong end of it, against
   `Mesh.hpp:782`. When such an edge is split from that face, the halves of the child are mapped to the wrong
   halves of the parent's edge. `MapsAgree` does not see this, since each half is mapped to one half and back.
4. `edge_scheduler_random`: a flagged run with random priority counts its operations in another variable than
   the one that the statistics and the loop read (`Scheduler.cpp:205-228`): the statistics of `Scheduler.hpp:13`
   miss them, and only one pass is made.

Two things that are no disagreement with a text, but that a reader should know. The assertion on the degree of a
vertex in `utils/edgemesh_topology_initialization.cpp:32` joins its two bounds by "or" and accepts every degree;
the inputs of the models have at most two edges at a vertex. And the link condition of a family of meshes is asked
in each mesh by itself (`invariants/MultiMeshLinkConditionInvariant.cpp`): the collapse of an unmarked edge between
two pieces of an inner curve joins them in the parent and not in the child, so that the child follows the parent end by
end only where it is the boundary, which is what `BoundaryFollowed` says. `ImplementsMarkedSurface` compares edges
and is not affected.

The clearing of an attribute (`CachingAttribute::clear`, reached only by unit tests) computes the new end of the
buffer from a slot of `m_indices` beyond the live part; it is left out of `UndoBuffer` with that remark.

## 6. Not modelled, and why

* **TetMesh**: its executor has the structure of the one of `TriMesh`, one dimension higher: ears become faces, ribs
  and spines get faces of their own. It is the last item of the plan.
* **Larger families of meshes**: trees of several meshes, absolute ids, deregistration and detachment, children of
  the parent's own dimension, free children, and the sharing of one edge by several children.
* **Surfaces that are not manifold**: `TriMesh` is not meant for them, and initialization does not look for them.
* **Orientation queries** (`is_ccw`, `orient_vertices`), hashing and iteration of simplices: they only read.
* **The permutation tables of tetrahedra** and the alternatives of collapsed facets, which nothing modelled reads.
* **PointMesh**: no connectivity and no operations.
* **Functions, energies, geometric invariants, wildmeshing, isotropic remeshing, marching, insertion**: their
  own logic is floating-point arithmetic, or a script of scheduler calls.
* **Files, applications, options, logging**: input and output; only the order in which reading a file sets
  capacities and attributes matters to other parts, and it is an action of `SimplexStorage`.
* **The coloring loop of the scheduler**: runs operations in parallel on one stack of scopes; unused.
* **Copying, hashing and serialization of attributes**: no state beyond the copy.
* **The build with `WMTK_TEST_BREAKING_CHECKS`** and exceptions that are no `std::exception`.

## 7. Plan

Done in this order: attributes and scopes (the mechanism under everything), ids and memory, the mesh of
dimension one, operations, the scheduler, the mesh of dimension two with the link condition, and a mesh of dimension
two with one of dimension one as its child; the proofs of section 4.

Next, in order of importance:

1. **Proofs**: `ImplementsPolylines` (the pieces of a mesh are the atoms of the sets of its edges that are `apart`, so
   no induction is needed; then one step of each kind, and the census); the refinement of `MarkedSurface` by `Multimesh`, from
   `FamilyInv` and an invariant that relates the vertices of the child to the marks.
2. **Trees of meshes**: registration, deregistration and detachment with the absolute ids; a second child that
   shares edges with the first; a child of the parent's own dimension.
3. **Scopes and registration**: a variant of `SimplexStorage` without the assumption that nothing is registered
   inside a scope.
4. **TetMesh**: one split and one collapse on fixed inputs of up to three tetrahedra.
