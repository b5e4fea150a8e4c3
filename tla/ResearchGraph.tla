---------------------------- MODULE ResearchGraph ----------------------------
(***************************************************************************)
(* The dependency graph of a research job's tasks (backend/research/       *)
(* graph.py): specs are built into it one after the other, and             *)
(* topological_order() reads the tasks, then their dependencies, and       *)
(* orders what it has read.                                                *)
(***************************************************************************)
EXTENDS Integers, FiniteSets

CONSTANTS Node,      \* tasks; the rows of research_tasks and their keys
          Sorter     \* those who ask for the order of the job's tasks

ASSUME GraphAssumption == IsFiniteSet(Node)

VARIABLES
  nodes,     \* the tasks of the job
  depends,   \* its dependencies, <<upstream, downstream>>
  sorting    \* sorting[q]: what q has read, and what came of it; grown is a ghost,
             \* the tasks added between its two reads

graphVars == <<nodes, depends, sorting>>

NoOrder == [at |-> "idle", tasks |-> {}, edges |-> {}, grown |-> {}, outcome |-> "none"]

GraphInit == nodes = {} /\ depends = {} /\ sorting = [q \in Sorter |-> NoOrder]

-----------------------------------------------------------------------------
(* Kahn's algorithm, of the tasks N.  An edge may name tasks outside N.    *)

\* What is left of in_degree[t] when these tasks were popped.
InDegree(edges, popped, t) == Cardinality({e \in edges : e[2] = t /\ e[1] \notin popped})

\* Mutant of Popped: a task is queued when its in_degree is first decremented.
Popped_FirstDecrement(N, edges) ==
  LET popped[n \in 0 .. Cardinality(N)] ==
        IF n = 0 THEN {}
        ELSE popped[n-1] \cup
               {t \in N : \/ InDegree(edges, popped[n-1], t) = 0
                          \/ \E u \in popped[n-1] : <<u, t>> \in edges}
  IN popped

\* The tasks that are popped from the queue when n levels are done.
Popped(N, edges) ==
  LET popped[n \in 0 .. Cardinality(N)] ==
        IF n = 0 THEN {}
        ELSE popped[n-1] \cup {t \in N : InDegree(edges, popped[n-1], t) = 0}
  IN popped

Level(N, edges, n) == Popped(N, edges)[n] \ Popped(N, edges)[n-1]

\* visited # len(tasks)
CycleDetected(N, edges) == Popped(N, edges)[Cardinality(N)] # N

\* id_to_index knows the tasks that were read, no others: a task that is popped and
\* leads to another one ends the sort with a KeyError.
SortOf(N, edges) ==
  IF \E e \in edges : e[1] \in Popped(N, edges)[Cardinality(N)] /\ e[2] \notin N THEN "key_error"
  ELSE IF CycleDetected(N, edges) THEN "cycle" ELSE "ordered"

-----------------------------------------------------------------------------

\* build: the tasks whose key is new are added.  The edges of the spec are
\* checked on their own, among themselves, and added to those that earlier
\* specs left; an edge that is there already fails the transaction.
Build(tasks, edges) ==
  LET named == {e[1] : e \in edges} \cup {e[2] : e \in edges}
  IN  /\ edges \cap depends = {}
      /\ named \subseteq nodes \cup tasks
      /\ ~CycleDetected(named, edges)
      /\ nodes' = nodes \cup tasks
      /\ depends' = depends \cup edges
      /\ UNCHANGED sorting

\* topological_order: two SELECTs, each of what is committed then.
ReadTasks(q) ==
  /\ sorting[q].at = "idle"
  /\ sorting' = [sorting EXCEPT ![q] = [NoOrder EXCEPT !.at = "read", !.tasks = nodes]]
  /\ UNCHANGED <<nodes, depends>>

ReadDependencies(q) ==
  /\ sorting[q].at = "read"
  /\ sorting' = [sorting EXCEPT ![q] =
       [@ EXCEPT !.at = "done", !.edges = depends, !.grown = nodes \ sorting[q].tasks,
                 !.outcome = SortOf(sorting[q].tasks, depends)]]
  /\ UNCHANGED <<nodes, depends>>

ReturnOrder(q) ==
  /\ sorting[q].at = "done"
  /\ sorting' = [sorting EXCEPT ![q] = NoOrder]
  /\ UNCHANGED <<nodes, depends>>

GraphNext ==
  \/ \E tasks \in SUBSET (Node \ nodes) :
       \E edges \in SUBSET (((nodes \cup tasks) \X (nodes \cup tasks)) \ depends) : Build(tasks, edges)
  \/ \E q \in Sorter : ReadTasks(q) \/ ReadDependencies(q) \/ ReturnOrder(q)

GraphSpec == GraphInit /\ [][GraphNext]_graphVars

-----------------------------------------------------------------------------
(* Properties *)

GraphTypeOK ==
  /\ nodes \subseteq Node /\ depends \subseteq nodes \X nodes
  /\ sorting \in [Sorter -> [at : {"idle", "read", "done"}, tasks : SUBSET Node,
                             edges : SUBSET (Node \X Node), grown : SUBSET Node,
                             outcome : {"none", "key_error", "cycle", "ordered"}]]

\* A cycle, by definition: tasks each of which waits for another of them.
HasCycle(N, edges) ==
  \E ring \in (SUBSET N) \ {{}} : \A t \in ring : \E u \in ring : <<u, t>> \in edges

\* graph.py: "detect cycles before execution".  Specs that are acyclic each on
\* its own may close a cycle together, and specs may be built between the two reads.
\* What is ordered has no cycle, no dependency on a task that was not read, and no
\* task in a level before one it waits for; and an order without a cycle is refused
\* only for a dependency between a task that was read and one added since.
OrderIsSound ==
  \A q \in Sorter :
    LET N == sorting[q].tasks  edges == sorting[q].edges  grown == sorting[q].grown
    IN  sorting[q].at = "done" =>
          /\ sorting[q].outcome = "ordered" =>
               /\ ~HasCycle(N, edges)
               /\ \A e \in edges : e[1] \in N <=> e[2] \in N
               /\ \A n \in 1 .. Cardinality(N) : \A e \in edges :
                    e[2] \in Level(N, edges, n) => e[1] \in Popped(N, edges)[n-1]
          /\ sorting[q].outcome # "ordered" =>
               \/ HasCycle(N, edges)
               \/ \E e \in edges : \/ e[1] \in grown /\ e[2] \in N
                                   \/ e[1] \in N /\ e[2] \in grown

\* graph.py:40, "Validates for cycles before writing dependencies": what was
\* built never has one.
\* The code does not keep this: a claim on record, asked by no run.
NeverACycle == ~HasCycle(nodes, depends)
=============================================================================
