--------------------------- MODULE DependencyGraph ---------------------------
(***************************************************************************)
(* GroupFromConfig (groups.go): from the files of the test directory and   *)
(* the expressions of a configuration to the tests of a group, with the    *)
(* topological sort of graph/graph.go that refuses cycles.  The goroutines *)
(* of every stage report to the caller in any order; the iteration order   *)
(* of Go's maps is arbitrary.                                              *)
(***************************************************************************)
EXTENDS Naturals, Sequences, FiniteSets

CONSTANTS
  TestFile,     \* the test files below TestDir
  Glob,         \* file expressions: the test files that each one matches
  Tags,         \* the tags of each test
  DependsOf,    \* the expressions that the tests may depend on: a set of functions
  ConfigTests,  \* the lists of expressions a configuration may have
  NoNode        \* TopSort is not at a node

Tag == UNION {Tags[t] : t \in TestFile}
Expr == DOMAIN Glob \cup Tag

ASSUME GlobAssumption ==
  /\ IsFiniteSet(TestFile) /\ NoNode \notin TestFile
  /\ \A g \in DOMAIN Glob : Glob[g] \subseteq TestFile
  /\ DOMAIN Glob \cap Tag = {}
ASSUME ConfigAssumption ==
  /\ \A d \in DependsOf : DOMAIN d = TestFile
  /\ \A c \in ConfigTests : IsFiniteSet(c)

VARIABLES
  depends,      \* Test.Depends, as the files say
  broken,       \* the files that TestFromFile cannot read
  config,       \* GroupConfig.Tests
  withDeps,     \* GroupConfig.UseDeps
  pc,           \* the stage of GroupFromConfig
  todo,         \* the goroutines whose result it has not received
  errs,         \* has one of them reported an error?
  tests,        \* testMap.Tests
  expanded,     \* Test.ExpandedDeps
  group,        \* TestGroup.Tests
  isDep,        \* the tests with IsDependency
  requested,    \* the tests the expressions stand for (history)
  edgesOut, edgesIn,   \* of the copy that TopSort consumes
  empty,        \* its queue of nodes without incoming edges
  node, left,   \* the node at hand, and the nodes its loop has not come to
  sorted,
  frontier, found      \* getDepNodes, one for each requested test

input == <<depends, broken, config, withDeps>>
sort == <<edgesOut, edgesIn, empty, node, left, sorted>>
walk == <<frontier, found>>
graphVars == <<input, pc, todo, errs, tests, expanded, group, isDep, requested, sort, walk>>

\* The values the variables take.
GraphTypeOK ==
  /\ pc \in {"load", "expand", "deps", "graph", "sort", "collect", "done", "failed"}
  /\ todo \subseteq TestFile \cup UNION ConfigTests
  /\ errs \in BOOLEAN
  /\ tests \subseteq TestFile
  /\ expanded \in [TestFile -> SUBSET TestFile]
  /\ group \subseteq tests /\ requested \subseteq group /\ isDep \subseteq group
  /\ edgesOut \in [TestFile -> SUBSET TestFile] /\ edgesIn \in [TestFile -> SUBSET TestFile]
  /\ empty \in Seq(TestFile) /\ sorted \in Seq(TestFile)
  /\ node \in TestFile \cup {NoNode} /\ left \subseteq TestFile
  /\ frontier \in [TestFile -> SUBSET TestFile] /\ found \in [TestFile -> SUBSET TestFile]

NoTests == [t \in TestFile |-> {}]

GraphInit ==
  /\ depends \in DependsOf
  /\ broken \in SUBSET TestFile
  /\ config \in ConfigTests
  /\ withDeps \in BOOLEAN
  /\ pc = "load" /\ todo = TestFile /\ errs = FALSE
  /\ tests = {} /\ expanded = NoTests
  /\ group = {} /\ isDep = {} /\ requested = {}
  /\ edgesOut = NoTests /\ edgesIn = NoTests
  /\ empty = <<>> /\ sorted = <<>> /\ node = NoNode /\ left = {}
  /\ frontier = NoTests /\ found = NoTests

\* The tests an expression stands for: none is an error.
Matches(e) == IF e \in DOMAIN Glob THEN Glob[e] ELSE {t \in tests : e \in Tags[t]}

UnknownDep(t) == \E e \in depends[t] : Matches(e) = {}

\* The end of a stage: an error of any goroutine is the end of it all.
Stage(from, to, workers) ==
  /\ pc = from
  /\ todo = {}
  /\ pc' = IF errs THEN "failed" ELSE to
  /\ todo' = IF errs THEN {} ELSE workers
-----------------------------------------------------------------------------
(* newTestMap, expandTests and expandAllDeps. *)

Load(t) ==
  /\ pc = "load"
  /\ t \in todo
  /\ todo' = todo \ {t}
  /\ IF t \in broken THEN errs' = TRUE /\ UNCHANGED tests
                     ELSE tests' = tests \cup {t} /\ UNCHANGED errs
  /\ UNCHANGED <<input, pc, expanded, group, isDep, requested, sort, walk>>

LoadDone ==
  /\ Stage("load", "expand", config)
  /\ UNCHANGED <<input, errs, tests, expanded, group, isDep, requested, sort, walk>>

ExpandTest(e) ==
  /\ pc = "expand"
  /\ e \in todo
  /\ todo' = todo \ {e}
  /\ errs' = (errs \/ Matches(e) = {})
  /\ group' = group \cup Matches(e)
  /\ requested' = group'
  /\ UNCHANGED <<input, pc, tests, expanded, isDep, sort, walk>>

ExpandTestsDone ==
  /\ IF withDeps THEN Stage("expand", "deps", tests) ELSE Stage("expand", "done", {})
  /\ UNCHANGED <<input, errs, tests, expanded, group, isDep, requested, sort, walk>>

\* expandTestDeps: the map of a test with an unknown dependency stays
\* incomplete, and is not read.
ExpandDeps(t) ==
  /\ pc = "deps"
  /\ t \in todo
  /\ todo' = todo \ {t}
  /\ IF UnknownDep(t)
     THEN errs' = TRUE /\ UNCHANGED expanded
     ELSE /\ expanded' = [expanded EXCEPT ![t] = UNION {Matches(e) : e \in depends[t]}]
          /\ UNCHANGED errs
  /\ UNCHANGED <<input, pc, tests, group, isDep, requested, sort, walk>>

ExpandDepsDone ==
  /\ Stage("deps", "graph", {})
  /\ UNCHANGED <<input, errs, tests, expanded, group, isDep, requested, sort, walk>>
-----------------------------------------------------------------------------
(* The graph of all tests, an edge from a test to each of its dependencies, *)
(* and its topological sort.                                                *)

Dependents(t) == {u \in tests : t \in expanded[u]}

SelfDependent == \E t \in tests : t \in expanded[t]

\* The nodes of a set, in whatever order the map gives them.
Orders(S) == {s \in [1..Cardinality(S) -> S] : \A i, j \in DOMAIN s : i # j => s[i] # s[j]}

BuildGraph ==
  /\ pc = "graph"
  /\ IF SelfDependent
     THEN pc' = "failed" /\ UNCHANGED sort
     ELSE /\ pc' = "sort"
          /\ edgesOut' = expanded
          /\ edgesIn' = [t \in TestFile |-> Dependents(t)]
          /\ \E s \in Orders({t \in tests : Dependents(t) = {}}) : empty' = s
          /\ UNCHANGED <<node, left, sorted>>
  /\ UNCHANGED <<input, todo, errs, tests, expanded, group, isDep, requested, walk>>

TakeNode ==
  /\ pc = "sort"
  /\ node = NoNode
  /\ empty # <<>>
  /\ node' = Head(empty)
  /\ left' = edgesOut[node']
  /\ sorted' = Append(sorted, node')
  /\ empty' = Tail(empty)
  /\ UNCHANGED <<input, pc, todo, errs, tests, expanded, group, isDep, requested,
                 edgesOut, edgesIn, walk>>

RemoveEdge_FirstEdge(t) ==
  /\ pc = "sort"
  /\ t \in left
  /\ left' = left \ {t}
  /\ edgesIn' = [edgesIn EXCEPT ![t] = @ \ {node}]
  /\ empty' = IF \E i \in 1..Len(empty) : empty[i] = t THEN empty ELSE Append(empty, t)
  /\ UNCHANGED <<input, pc, todo, errs, tests, expanded, group, isDep, requested,
                 edgesOut, node, sorted, walk>>

RemoveEdge(t) ==
  /\ pc = "sort"
  /\ t \in left
  /\ left' = left \ {t}
  /\ edgesIn' = [edgesIn EXCEPT ![t] = @ \ {node}]
  /\ empty' = IF edgesIn'[t] = {} THEN Append(empty, t) ELSE empty
  /\ UNCHANGED <<input, pc, todo, errs, tests, expanded, group, isDep, requested,
                 edgesOut, node, sorted, walk>>

NodeDone ==
  /\ pc = "sort"
  /\ node # NoNode
  /\ left = {}
  /\ edgesOut' = [edgesOut EXCEPT ![node] = {}]
  /\ node' = NoNode
  /\ UNCHANGED <<input, pc, todo, errs, tests, expanded, group, isDep, requested,
                 edgesIn, empty, left, sorted, walk>>

EdgeLeft == \E t \in tests : edgesIn[t] # {} \/ edgesOut[t] # {}

\* An edge that is left is on a cycle, or behind one; otherwise a goroutine for
\* each requested test collects what it depends on.
SortDone ==
  /\ pc = "sort"
  /\ node = NoNode
  /\ empty = <<>>
  /\ IF EdgeLeft
     THEN pc' = "failed" /\ UNCHANGED <<todo, frontier>>
     ELSE /\ pc' = "collect"
          /\ todo' = group
          /\ frontier' = [t \in TestFile |-> IF t \in group THEN {t} ELSE {}]
  /\ UNCHANGED <<input, errs, tests, expanded, group, isDep, requested, sort, found>>
-----------------------------------------------------------------------------
(* getDepNodes: a walk that does not remember where it has been.  The nodes *)
(* it still has to visit are a set; the same node may come back.            *)

Visit_OneLevel(t, n) ==
  /\ pc = "collect"
  /\ n \in frontier[t]
  /\ found' = [found EXCEPT ![t] = @ \cup {n} \cup expanded[n]]
  /\ frontier' = [frontier EXCEPT ![t] = @ \ {n}]
  /\ UNCHANGED <<input, pc, todo, errs, tests, expanded, group, isDep, requested, sort>>

Visit(t, n) ==
  /\ pc = "collect"
  /\ n \in frontier[t]
  /\ found' = [found EXCEPT ![t] = @ \cup {n}]
  /\ frontier' = [frontier EXCEPT ![t] = (@ \ {n}) \cup expanded[n]]
  /\ UNCHANGED <<input, pc, todo, errs, tests, expanded, group, isDep, requested, sort>>

AddDeps(t) ==
  /\ pc = "collect"
  /\ t \in todo
  /\ frontier[t] = {}
  /\ todo' = todo \ {t}
  /\ isDep' = isDep \cup (found[t] \ group)
  /\ group' = group \cup found[t]
  /\ UNCHANGED <<input, pc, errs, tests, expanded, requested, sort, walk>>

\* The loop counts as many results as there were tests when it began.
AllAdded_Recount == Cardinality(requested \ todo) = Cardinality(group)
AllAdded == todo = {}

CollectDone ==
  /\ pc = "collect"
  /\ AllAdded
  /\ pc' = "done"
  /\ UNCHANGED <<input, todo, errs, tests, expanded, group, isDep, requested, sort, walk>>

GraphNext ==
  \/ \E t \in TestFile : Load(t) \/ ExpandDeps(t) \/ RemoveEdge(t) \/ AddDeps(t)
  \/ \E e \in config : ExpandTest(e)
  \/ \E t, n \in TestFile : Visit(t, n)
  \/ LoadDone \/ ExpandTestsDone \/ ExpandDepsDone
  \/ BuildGraph \/ TakeNode \/ NodeDone \/ SortDone \/ CollectDone

GraphSpec == GraphInit /\ [][GraphNext]_graphVars
-----------------------------------------------------------------------------

\* What the configuration says, computed from the files: the reference for the
\* stages above.
Meaning(e) == IF e \in DOMAIN Glob THEN Glob[e] ELSE {t \in TestFile : e \in Tags[t]}
DirectDeps(t) == UNION {Meaning(e) : e \in depends[t]}

\* Some tests and everything they depend on: the least set of tests that has
\* them and lacks nothing that one of its tests depends on.
Complete(S) == \A t \in S : DirectDeps(t) \subseteq S
Behind(T) == {u \in TestFile : \A S \in SUBSET TestFile : T \subseteq S /\ Complete(S) => u \in S}
Cyclic == \E t \in TestFile : t \in Behind(DirectDeps(t))

Valid ==
  /\ broken = {}
  /\ \A e \in config : Meaning(e) # {}
  /\ withDeps => ~Cyclic /\ \A t \in TestFile : \A e \in depends[t] : Meaning(e) # {}

\* The group is made exactly when every file can be read, every expression
\* stands for a test and, with dependencies, no test depends on itself.  It is the
\* requested tests and, with dependencies, everything they depend on, whatever
\* the goroutines' order, and only what was not requested is marked as a
\* dependency: what the DependencyRunner takes for granted.
GroupIsAsConfigured ==
  /\ pc = "failed" => ~Valid
  /\ pc = "done" =>
       LET asked == UNION {Meaning(e) : e \in config} IN
       /\ Valid
       /\ group = IF withDeps THEN Behind(asked) ELSE asked
       /\ isDep = group \ asked
       /\ \A t \in group : withDeps => expanded[t] \subseteq group

\* "If there is a cycle, an error is returned, otherwise the topological sort"
\* (graph.go:61): a node is sorted once, and after all its dependents.
SortIsTopological ==
  \A i \in 1..Len(sorted) :
    /\ \A j \in 1..(i - 1) : sorted[j] # sorted[i]
    /\ \A t \in Dependents(sorted[i]) : \E j \in 1..(i - 1) : sorted[j] = t

\* The expansion ends, cycles or not ("If there's a cycle, this will loop
\* forever", groups.go:344).
Terminates == <>(pc \in {"done", "failed"})
=============================================================================
