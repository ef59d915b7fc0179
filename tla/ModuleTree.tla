----------------------------- MODULE ModuleTree -----------------------------
(***************************************************************************)
(* kkappm/kkmodule: the tree of modules of an application without actors.  *)
(* AddModule enters a module and calls its OnInit and OnStart, which may   *)
(* add further modules and may fail; ReleaseModule stops a module and all  *)
(* below it.  The tree is used by one goroutine: the calls of AddModule    *)
(* that are under way form a stack.                                        *)
(***************************************************************************)
EXTENDS Integers, Sequences, FiniteSets, SequencesExt

CONSTANTS
    Modules,        \* without the root
    Adds,           \* what the OnInit of each adds: a sequence of [to, module], to "self" or "parent"
    TreeCalls       \* calls of the user (bound)

Root == "root"
Nil == "nil"
Everyone == Modules \union {Root}

ASSUME TreeAdds ==
    /\ Root \notin Modules /\ Nil \notin Modules
    /\ Adds \in [Modules -> Seq([to : {"self", "parent"}, module : Modules])]

VARIABLES
    parent, childs,
    descendants,    \* the root's map, without the root
    adding,         \* the calls of AddModule under way, innermost last: [module, at, next]
    running,        \* modules that were started and not stopped since
    treeCalls,
    undone,         \* an AddModule failed in a module that had added others by then
    indirect        \* a module was released through another than its parent

treeVars == <<parent, childs, descendants, adding, running, treeCalls, undone, indirect>>

TreeInit ==
    /\ parent = [x \in Modules |-> Nil] /\ childs = [x \in Everyone |-> <<>>]
    /\ descendants = {} /\ adding = <<>> /\ running = {}
    /\ treeCalls = 0 /\ undone = FALSE /\ indirect = FALSE

InTree(x) == x \in descendants \union {Root}
Top == Last(adding)
At(place, k) == adding' = [adding EXCEPT ![Len(adding)] = [@ EXCEPT !.at = place, !.next = k]]
-----------------------------------------------------------------------------
\* m.AddModule(x), where the calls under way are as given; a module with a known id is refused.
Enters(m, x, calls) ==
    IF x = m \/ x \in descendants
    THEN adding' = calls /\ UNCHANGED <<parent, childs, descendants>>
    ELSE /\ parent' = [parent EXCEPT ![x] = m]
         /\ childs' = [childs EXCEPT ![m] = Append(@, x)]
         /\ descendants' = descendants \union {x}
         /\ adding' = Append(calls, [module |-> x, at |-> "init", next |-> 1])

AddModule(m, x) ==
    /\ adding = <<>> /\ treeCalls < TreeCalls /\ treeCalls' = treeCalls + 1
    /\ InTree(m) /\ Enters(m, x, adding)
    /\ UNCHANGED <<running, undone, indirect>>

\* OnInit adds a module; if it is refused, OnInit may go on or return the error.
OnInitAdds ==
    LET x == Top.module
        k == Top.next IN
    /\ adding # <<>> /\ Top.at = "init" /\ k <= Len(Adds[x])
    /\ LET m == IF Adds[x][k].to = "self" THEN x ELSE parent[x] IN
       Enters(m, Adds[x][k].module, [adding EXCEPT ![Len(adding)].next = k + 1])
    /\ UNCHANGED <<running, treeCalls, undone, indirect>>

OnInitEnds ==
    /\ adding # <<>> /\ Top.at = "init" /\ Top.next > Len(Adds[Top.module])
    /\ At("start", Top.next)
    /\ UNCHANGED <<parent, childs, descendants, running, treeCalls, undone, indirect>>

OnStart ==
    /\ adding # <<>> /\ Top.at = "start"
    /\ running' = running \union {Top.module} /\ adding' = Front(adding)
    /\ UNCHANGED <<parent, childs, descendants, treeCalls, undone, indirect>>

\* OnInit or OnStart returned an error.
AddFails ==
    LET x == Top.module
        m == parent[x] IN
    /\ adding # <<>>
    /\ descendants' = descendants \ {x} /\ childs' = [childs EXCEPT ![m] = Front(@)]
    /\ adding' = Front(adding)
    /\ undone' = (undone \/ Top.next > 1)
    /\ UNCHANGED <<parent, running, treeCalls, indirect>>
-----------------------------------------------------------------------------
\* Nobody outside S is the child of one in S.
Below(S) == \A y \in S : Range(childs[y]) \intersect descendants \subseteq S

\* x and what ReleaseModule finds below it.
Released(x) == {y \in Everyone : \A S \in SUBSET Everyone : x \in S /\ Below(S) => y \in S}

\* slices.DeleteFunc(list, in out)
DeleteFunc(list, out) ==
    LET Of[i \in 0..Len(list)] == IF i = 0 THEN <<>>
                                  ELSE IF list[i] \in out THEN Of[i - 1]
                                  ELSE Append(Of[i - 1], list[i])
    IN Of[Len(list)]

\* Mutant: the modules below x are left to themselves.
ReleaseModuleAlone(m, x) ==
    /\ adding = <<>> /\ treeCalls < TreeCalls /\ treeCalls' = treeCalls + 1
    /\ x \in descendants /\ InTree(m) /\ m \notin Released(x) \ {x}
    /\ parent' = [parent EXCEPT ![x] = Nil]
    /\ childs' = [y \in Everyone |-> IF y = x THEN <<>>
                                     ELSE IF y = m THEN DeleteFunc(childs[m], {x})
                                     ELSE childs[y]]
    /\ descendants' = descendants \ {x} /\ running' = running \ {x}
    /\ indirect' = (indirect \/ parent[x] # m)
    /\ UNCHANGED <<adding, undone>>

\* m.ReleaseModule(x): those below x are released through m as well.  (Through a module below x
\* it panics: m.ancestor is nil by then.)
ReleaseModule(m, x) ==
    LET out == Released(x) IN
    /\ adding = <<>> /\ treeCalls < TreeCalls /\ treeCalls' = treeCalls + 1
    /\ x \in descendants /\ InTree(m) /\ m \notin out \ {x}
    /\ parent' = [y \in Modules |-> IF y \in out THEN Nil ELSE parent[y]]
    /\ childs' = [y \in Everyone |-> IF y \in out THEN <<>>
                                     ELSE IF y = m THEN DeleteFunc(childs[m], out)
                                     ELSE childs[y]]
    /\ descendants' = descendants \ out /\ running' = running \ out
    /\ indirect' = (indirect \/ parent[x] # m)
    /\ UNCHANGED <<adding, undone>>

TreeNext ==
    \/ \E m \in Everyone, x \in Modules : AddModule(m, x) \/ ReleaseModule(m, x)
    \/ OnInitAdds \/ OnInitEnds \/ OnStart \/ AddFails

TreeSpec == TreeInit /\ [][TreeNext]_treeVars
-----------------------------------------------------------------------------
\* A walk from the root finds the modules the root knows by their id, each below its own parent
\* and nowhere else.
Listed == UNION {{<<m, x>> : x \in Range(childs[m])} : m \in Everyone}
OneTree ==
    /\ Listed = {<<parent[x], x>> : x \in descendants}
    /\ \A m \in Everyone : Len(childs[m]) = Cardinality(Range(childs[m]))
    /\ descendants \subseteq Released(Root)

(* Between two calls of the user the modules the root knows are those     *)
(* that run, whatever failed: none is lost running, and none is left that *)
(* was stopped or never started.  And they are a tree that a walk from    *)
(* the root finds.  Two things in the code undo this, and nothing else    *)
(* does: a module whose OnInit fails after it has added modules           *)
(* (module.go:95 takes the last child, and forgets those below), and a    *)
(* release through another module than the parent (module.go:128), which  *)
(* leaves the module in the list of its parent.                           *)
TreeHolds ==
    adding = <<>> => descendants = running /\ (~undone /\ ~indirect => OneTree)
=============================================================================
