------------------------------ MODULE ModuleTree ------------------------------
(***************************************************************************)
(* The tree of modules under a service: Module.AddModule, ReleaseModule,   *)
(* NewModuleId and GetModule (service/module.go).  All of it runs on the   *)
(* goroutine of the service.  Ids come from NewModuleId; those that        *)
(* SetModuleId can set, zero and below, are left out.  The code is used as *)
(* a tree: a module that is in it is not added a second time or below one  *)
(* of its own children, and no module releases one that it is below.       *)
(*                                                                         *)
(* OnInit is the module's own code.  It may add modules below itself and   *)
(* it may fail, so AddModule is two steps: up to the call of OnInit and    *)
(* after it.  Modules are released between two calls of AddModule.         *)
(***************************************************************************)
EXTENDS Naturals, Sequences, SequencesExt

CONSTANTS Module,        \* the Module objects below the service
          Root,          \* the service, the ancestor of all of them
          MaxId          \* bound on seedModuleId

TreeNode == Module \cup {Root}

ASSUME TreeAssumption ==
    Root \notin Module /\ MaxId \in Nat

VARIABLES
    seedModuleId,   \* Module.seedModuleId of the service, less InitModuleId
    moduleId,       \* Module.moduleId, 0 if never added
    child,          \* the keys of Module.child
    descendants,    \* the service's descendants: a set of <<id, module>>
    adding,         \* the AddModule calls in progress: <<parent, module>>, innermost last
    foreign,        \* history: a module was released by another one than its parent
    broken          \* ReleaseModule dereferenced nil or recursed without end

treeVars == <<seedModuleId, moduleId, child, descendants, adding, foreign, broken>>

ModuleIds == 1..MaxId
Registered == {d[1] : d \in descendants}
InTree == {Root} \cup {d[2] : d \in descendants}
BeingAdded == {adding[k][2] : k \in DOMAIN adding}

TreeTypeOK ==
    /\ seedModuleId \in 0..MaxId
    /\ moduleId \in [Module -> 0..MaxId]
    /\ \A m, n \in Module : m # n /\ moduleId[m] # 0 => moduleId[m] # moduleId[n]
    /\ child \in [TreeNode -> SUBSET ModuleIds]
    /\ descendants \subseteq {<<moduleId[m], m>> : m \in Module}
    /\ adding \in Seq(TreeNode \X Module) /\ foreign \in BOOLEAN /\ broken \in BOOLEAN

TreeInit ==
    /\ seedModuleId = 0 /\ moduleId = [m \in Module |-> 0]
    /\ child = [n \in TreeNode |-> {}] /\ descendants = {} /\ adding = <<>>
    /\ foreign = FALSE /\ broken = FALSE

\* The module registered under id i: a set of one, or the empty set for nil.
GetModule(i) == {d[2] : d \in {x \in descendants : x[1] = i}}

\* The ids reached from those of S through child and GetModule: the least set
\* with S and, for an id it has, the children of the module of that id.
Below(S) ==
    LET Closed(C) == \A i \in C : \A m \in GetModule(i) : child[m] \subseteq C
    IN  {i \in ModuleIds : \A C \in SUBSET ModuleIds : S \subseteq C /\ Closed(C) => i \in C}

\* The modules found under the ids of S.
Found(S) == UNION {GetModule(i) : i \in S}

-----------------------------------------------------------------------------
(* AddModule.                                                              *)

\* Only a module that never had an id gets one: ReleaseModule leaves it.
NewModuleId(m) ==
    IF moduleId[m] # 0 THEN UNCHANGED <<moduleId, seedModuleId>>
    ELSE /\ seedModuleId < MaxId /\ seedModuleId' = seedModuleId + 1
         /\ moduleId' = [moduleId EXCEPT ![m] = seedModuleId + 1]

\* AddModule up to OnInit.  An id that the parent already lists is refused.
AddModule(p, m) ==
    /\ ~broken /\ p \in InTree \cup BeingAdded /\ m \notin InTree \cup BeingAdded
    /\ ({p} \cup {adding[k][1] : k \in DOMAIN adding}) \cap Found(Below(child[m])) = {}
    /\ NewModuleId(m)
    /\ adding' = IF moduleId'[m] \in child[p] THEN adding ELSE Append(adding, <<p, m>>)
    /\ UNCHANGED <<child, descendants, foreign, broken>>

\* OnInit of the innermost module returns nil: the module joins the tree.
OnInitOk ==
    LET p == Last(adding)[1]
        m == Last(adding)[2]
    IN  /\ ~broken /\ adding # <<>> /\ adding' = Front(adding)
        /\ child' = [child EXCEPT ![p] = @ \cup {moduleId[m]}]
        /\ descendants' = descendants \cup {<<moduleId[m], m>>}
        /\ UNCHANGED <<seedModuleId, moduleId, foreign, broken>>

\* OnInit of the innermost module fails: AddModule returns the error.
OnInitErr ==
    /\ ~broken /\ adding # <<>> /\ adding' = Front(adding)
    /\ UNCHANGED <<seedModuleId, moduleId, child, descendants, foreign, broken>>

-----------------------------------------------------------------------------
(* ReleaseModule.                                                          *)

\* The recursion of ReleaseModule(i) fails: it meets an id that is not
\* registered, or one that it has released already.
ReleaseFails(i) ==
    LET mods == Found(Below({i}))
    IN  \/ ~(Below({i}) \subseteq Registered)
        \/ \E m \in mods : i \in child[m]
        \/ \E m, n \in mods : m # n /\ child[m] \cap child[n] # {}

\* Mutant of ReleaseEffect: the releaser keeps the id in its child map.
ReleaseEffectKeepsChild(s, ids, mods) ==
    /\ child' = [n \in TreeNode |-> IF n \in mods THEN {} ELSE child[n]]
    /\ descendants' = {d \in descendants : d[1] \notin ids}

\* What the recursion leaves: the modules are cleared, their ids leave the
\* releaser's child map and the service's descendants.
ReleaseEffect(s, ids, mods) ==
    /\ child' = [n \in TreeNode |-> IF n \in mods THEN {} ELSE
                                IF n = s THEN child[n] \ ids ELSE child[n]]
    /\ descendants' = {d \in descendants : d[1] \notin ids}

ReleaseModule(s, i) ==
    /\ ~broken /\ adding = <<>> /\ s \in InTree /\ i \in Registered
    /\ s \notin Found(Below({i}) \ {i})
    /\ foreign' = (foreign \/ i \notin child[s])
    /\ \/ ReleaseFails(i) /\ broken' = TRUE /\ UNCHANGED <<child, descendants>>
       \/ /\ ~ReleaseFails(i) /\ UNCHANGED broken
          /\ ReleaseEffect(s, Below({i}), Found(Below({i})))
    /\ UNCHANGED <<seedModuleId, moduleId, adding>>

TreeNext ==
    \/ \E p \in TreeNode, m \in Module : AddModule(p, m)
    \/ OnInitOk \/ OnInitErr
    \/ \E s \in TreeNode, i \in ModuleIds : ReleaseModule(s, i)

TreeSpec == TreeInit /\ [][TreeNext]_treeVars

-----------------------------------------------------------------------------
(* Properties.                                                             *)

\* A module in the tree lists only ids that GetModule finds, for as long as
\* modules are released by their parents: whatever OnInit calls fail in
\* between, no child map keeps the id of a module that is gone.
ChildrenRegistered == foreign \/ \A n \in InTree : child[n] \subseteq Registered

\* Released by its parent, a module goes with everything below it and
\* ReleaseModule returns: its recursion finds every id it meets.
ReleaseSafe == broken => foreign

\* Between two calls of AddModule, every module that GetModule finds is below
\* the service through the child maps, where releasing from the top reaches
\* it, or below a module whose own OnInit failed: whoever releases what, no
\* module is lost otherwise.
DescendantsReachable ==
    adding = <<>> =>
        Registered \subseteq Below(child[Root] \cup UNION {child[m] : m \in Module \ InTree})

\* The maps of the tree agree in every state.
TreeInv == TreeTypeOK /\ ChildrenRegistered /\ ReleaseSafe /\ DescendantsReachable

=============================================================================
