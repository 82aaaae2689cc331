------------------------------- MODULE Loader -------------------------------
(***************************************************************************)
(* Boot-time loading of the configured plugins (plugins/loader.rs): the    *)
(* manifests are validated, `requires` is resolved, topo_sort (Kahn's      *)
(* algorithm) orders the plugins, and they are started, or registered as   *)
(* dormant, one after the other.                                           *)
(*                                                                         *)
(* A plugin is its position in the configuration. Everything up to the     *)
(* first start is local to load_all; the loops of topo_sort are steps.     *)
(* The specification is LoaderSpec, so that a module can extend this one   *)
(* together with another component's.                                      *)
(***************************************************************************)
EXTENDS Integers, Sequences, FiniteSets, Functions

CONSTANTS
    N,           \* number of plugins in the configuration
    MaxRequires, \* bound: entries of one plugin's `requires`
    Lazy,        \* plugins with `lazy: true`
    WithEvents,  \* plugins whose manifest declares events
    WithActions  \* plugins whose manifest declares actions

Ids == 1..N
\* A required plugin that is not in the configuration.
Missing == 0

ASSUME LoaderAssumption ==
    /\ N \in Nat /\ MaxRequires \in Nat \ {0}
    /\ Lazy \cup WithEvents \cup WithActions \subseteq Ids

VARIABLES
    requires,   \* plugin -> the `requires` list of its manifest
    valid,      \* plugins that pass validate_plugin_def
    pc,
    refused,
    in_degree,
    queue,      \* of topo_sort
    rest,       \* entries of rev of the popped plugin still to be visited
    order,      \* plugins in the order topo_sort pops them
    plan,       \* plugins still to be loaded
    supervised, \* plugins whose start succeeded
    dormant,    \* lazy plugins, registered without a process
    subscribed, \* plugins subscribed to the events of their manifest
    loaded      \* history: plugins in the order they were started or registered

manifests == <<requires, valid>>
sorting == <<in_degree, queue, rest, order>>
effects == <<supervised, dormant, subscribed, loaded>>
loaderVars == <<manifests, pc, refused, sorting, plan, effects>>

\* Lists, with repetitions, of plugins that may be missing.
RequiresLists == UNION {[1..k -> Ids \cup {Missing}] : k \in 0..MaxRequires}

LoaderInit ==
    /\ requires \in [Ids -> RequiresLists]
    /\ valid \in SUBSET Ids
    /\ pc = "validate" /\ refused = {}
    /\ in_degree = [id \in Ids |-> 0]
    /\ queue = <<>> /\ rest = {} /\ order = <<>> /\ plan = <<>>
    /\ supervised = {} /\ dormant = {} /\ subscribed = {} /\ loaded = <<>>

\* Plugins in the order of the configuration: each after those before it.
ConfigOrder(plugins) ==
    [k \in 1..Cardinality(plugins) |->
       CHOOSE id \in plugins : Cardinality({other \in plugins : other < id}) = k - 1]

-----------------------------------------------------------------------------
(* What is loaded.                                                         *)

Validate ==
    /\ pc = "validate"
    /\ refused' = Ids \ valid
    /\ pc' = "resolve"
    /\ UNCHANGED <<manifests, sorting, plan, effects>>

\* A requirement must be in the configuration; it may have been refused.
Resolve ==
    /\ pc = "resolve"
    /\ refused' = refused \cup
         {id \in Ids : \E k \in DOMAIN requires[id] : requires[id][k] = Missing}
    /\ pc' = "sort"
    /\ UNCHANGED <<manifests, sorting, plan, effects>>

-----------------------------------------------------------------------------
(* topo_sort                                                               *)

active == Ids \ refused

InDegree_refused(id) == Len(requires[id])

\* Edges to refused plugins do not count; repeated ones do, here and in rev.
InDegree(id) == Cardinality({k \in DOMAIN requires[id] : requires[id][k] \notin refused})

\* The entries of the `requires` lists that name dep, as plugin and position.
rev(dep) ==
    {e \in active \X (1..MaxRequires) : /\ e[2] \in DOMAIN requires[e[1]]
                                       /\ requires[e[1]][e[2]] = dep}

SortBegin ==
    /\ pc = "sort"
    /\ in_degree' = [id \in Ids |-> IF id \in active THEN InDegree(id) ELSE 0]
    /\ queue' = ConfigOrder({id \in active : InDegree(id) = 0})
    /\ pc' = "kahn"
    /\ UNCHANGED <<manifests, refused, rest, order, plan, effects>>

SortPop ==
    /\ pc = "kahn" /\ rest = {} /\ queue # <<>>
    /\ queue' = Tail(queue)
    /\ order' = Append(order, Head(queue))
    /\ rest' = rev(Head(queue))
    /\ UNCHANGED <<manifests, pc, refused, in_degree, plan, effects>>

Decremented(n) == IF n > 0 THEN n - 1 ELSE n

Ready_any(id) == in_degree[id] = InDegree(id)

\* The last requirement of the dependant has been popped.
Ready(id) == Decremented(in_degree[id]) = 0

\* Entries are in rev in the order of the configuration.
SortEdge ==
    /\ pc = "kahn"
    /\ \E e \in rest :
         /\ \A f \in rest : e[1] < f[1] \/ (e[1] = f[1] /\ e[2] <= f[2])
         /\ in_degree' = [in_degree EXCEPT ![e[1]] = Decremented(@)]
         /\ queue' = IF Ready(e[1]) THEN Append(queue, e[1]) ELSE queue
         /\ rest' = rest \ {e}
    /\ UNCHANGED <<manifests, pc, refused, order, plan, effects>>

\* Plugins that were never popped are on a cycle or depend on one: they are
\* refused, and the others are loaded in the order of the configuration.
SortEnd ==
    /\ pc = "kahn" /\ rest = {} /\ queue = <<>>
    /\ IF Len(order) < Cardinality(active)
       THEN refused' = refused \cup (active \ Range(order)) /\ plan' = ConfigOrder(Range(order))
       ELSE plan' = order /\ UNCHANGED refused
    /\ pc' = "load"
    /\ UNCHANGED <<manifests, sorting, effects>>

-----------------------------------------------------------------------------
(* Loading.                                                                *)

\* A lazy plugin that has events would miss them, and one without actions
\* would never be woken: they are started like the others.
Sleeps(id) == id \in Lazy /\ id \notin WithEvents /\ id \in WithActions

\* The record replaces an older one of the same id.
register_dormant(id) == dormant' = dormant \cup {id}

\* register_lazy
RegisterLazy ==
    /\ pc = "load" /\ plan # <<>> /\ Sleeps(Head(plan))
    /\ register_dormant(Head(plan))
    /\ loaded' = Append(loaded, Head(plan))
    /\ plan' = Tail(plan)
    /\ UNCHANGED <<manifests, pc, refused, sorting, supervised, subscribed>>

\* The plugin is subscribed when it has been spawned; it need not have
\* registered by then.
StartOk ==
    /\ pc = "load" /\ plan # <<>> /\ ~Sleeps(Head(plan))
    /\ supervised' = supervised \cup {Head(plan)}
    /\ subscribed' = subscribed \cup ({Head(plan)} \cap WithEvents)
    /\ loaded' = Append(loaded, Head(plan))
    /\ plan' = Tail(plan)
    /\ UNCHANGED <<manifests, pc, refused, sorting, dormant>>

\* A start that fails is logged: the plugins that require this one go on.
StartFails ==
    /\ pc = "load" /\ plan # <<>> /\ ~Sleeps(Head(plan))
    /\ loaded' = Append(loaded, Head(plan))
    /\ plan' = Tail(plan)
    /\ UNCHANGED <<manifests, pc, refused, sorting, supervised, dormant, subscribed>>

\* The waker runs only if a plugin is dormant.
Finish ==
    /\ pc = "load" /\ plan = <<>>
    /\ pc' = IF dormant = {} THEN "ready" ELSE "ready_with_waker"
    /\ UNCHANGED <<manifests, refused, sorting, plan, effects>>

LoaderNext ==
    \/ Validate \/ Resolve \/ SortBegin \/ SortPop \/ SortEdge \/ SortEnd
    \/ RegisterLazy \/ StartOk \/ StartFails \/ Finish

LoaderSpec == LoaderInit /\ [][LoaderNext]_loaderVars

-----------------------------------------------------------------------------
Requires(id) == Range(requires[id])

\* Plugins with nothing in the way but, possibly, a cycle.
Eligible == {id \in valid : Missing \notin Requires(id)}

\* Those that are on a cycle of requirements or depend on one: the largest set
\* whose members all require a member.
Circular == UNION {s \in SUBSET Eligible : \A id \in s : Requires(id) \cap s # {}}

\* "Deps are loaded first" (load_all), for every graph of requirements without
\* a cycle, repeated and refused requirements included.
DepsFirst ==
    Circular = {} =>
      \A k \in DOMAIN loaded : \A dep \in Requires(loaded[k]) \cap Eligible :
        \E j \in 1..(k - 1) : loaded[j] = dep

\* "Circular dependencies are refused. Missing deps refuse the dependant", and
\* nothing else does: when the boot is over, every other valid plugin has been
\* started or is dormant, and once only, although starts failed.
LoadsTheRest ==
    pc \in {"ready", "ready_with_waker"} =>
      /\ Range(loaded) = Eligible \ Circular
      /\ Len(loaded) = Cardinality(Eligible \ Circular)
      /\ dormant = {id \in Eligible \ Circular : Sleeps(id)}
=============================================================================
