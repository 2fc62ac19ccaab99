----------------------------- MODULE BusObjectTree -----------------------------
(***************************************************************************)
(* The asynchronous walk over the objects of an application                *)
(* (GetBusObjectsAsync of xmppconnutil.cpp).  Every object is asked for    *)
(* its interfaces and children; its answer is a callback, which enters the *)
(* object in the result, asks the children, and, when it finds the whole   *)
(* tree complete, hands the result to the receiver and frees the context   *)
(* all callbacks share.  The bus, which makes the callbacks, is external.  *)
(***************************************************************************)
EXTENDS Naturals, Sequences, SequencesExt, FiniteSets

CONSTANTS
    Nodes,        \* object paths, at most
    Root,         \* the path of the proxy the walk starts from
    Concurrent,   \* TRUE: the bus may run a callback while another runs
    StartFails    \* TRUE: a child's introspection may fail to start

ASSUME ConstantsAssumption ==
    /\ IsFiniteSet(Nodes) /\ Root \in Nodes
    /\ Concurrent \in BOOLEAN /\ StartFails \in BOOLEAN

VARIABLES
    parent,       \* the tree of the application's objects; its own: not in it
    answer,       \* of each object: "failed", "bare" (only the interfaces every
                  \* object has), "full"
    first,        \* what the root answered before the walk: "bare" or "full"
    state,        \* of each node of the completion tree
    toAsk,        \* of each running callback: children its loop has not reached
    busObjects,   \* ctx->busObjects: what is collected
    ctx,          \* the GetBusObjectsAsyncContext: "none", "live", "deleted"
    results       \* what the receiver's handler was called with

tree == <<parent, answer, first>>
vars == <<tree, state, toAsk, busObjects, ctx, results>>

Children(n) == {c \in Nodes \ {Root, n} : parent[c] = n}

(* What p puts below the root, keeping only the objects in keep: the least *)
(* set with the root and, with an object, its children.                    *)
Closed(X, p, keep) ==
    /\ Root \in keep => Root \in X
    /\ \A c \in keep \ {Root} : p[c] \in X => c \in X

Below(p, keep) == {n \in keep : \A X \in SUBSET Nodes : Closed(X, p, keep) => n \in X}

(* What the proxy of each object holds when its callback comes.  That of   *)
(* the root comes from the listener, which has had it introspected; it     *)
(* keeps what it got if it is asked again in vain.                         *)
Held == [answer EXCEPT ![Root] = first]

Init ==
    /\ parent \in {p \in [Nodes \ {Root} -> Nodes] :
                     \A c \in Nodes \ {Root} : p[c] # c => c \in Below(p, Nodes)}
    /\ answer \in [Nodes -> {"failed", "bare", "full"}]
    /\ first \in {"bare", "full"} /\ answer[Root] \in {"failed", first}
    /\ \A c \in Nodes \ {Root} : parent[c] = c => answer[c] = "failed"
    /\ state = [n \in Nodes |-> "absent"]
    /\ toAsk = [n \in Nodes |-> {}]
    /\ busObjects = <<>>
    /\ ctx = "none"
    /\ results = <<>>

Callbacks == {n \in Nodes : state[n] \in {"visiting", "reporting"}}

-----------------------------------------------------------------------------
(* GetBusObjectsAsync: context, root of the completion tree, first         *)
(* introspection.                                                          *)
GetBusObjectsAsync ==
    /\ ctx = "none"
    /\ ctx' = "live"
    /\ state' = [state EXCEPT ![Root] = "asked"]
    /\ UNCHANGED <<tree, toAsk, busObjects, results>>

(* The callback for n: the status is not looked at, only what the proxy    *)
(* holds, which for an object that has never answered is neither           *)
(* interfaces nor children.  An object of interest is collected, and the   *)
(* node is complete before its children are added.                         *)
IntrospectCallback(n) ==
    /\ state[n] = "asked"
    /\ Concurrent \/ Callbacks = {}
    /\ state' = [state EXCEPT ![n] = "visiting"]
    /\ busObjects' = IF Held[n] = "full" THEN Append(busObjects, n) ELSE busObjects
    /\ toAsk' = IF Held[n] = "failed" THEN toAsk
                  ELSE [toAsk EXCEPT ![n] = Children(n)]
    /\ UNCHANGED <<tree, ctx, results>>

(* Mutant: the loop leaves out the last child.                             *)
AddChildButOne(n) ==
    /\ state[n] = "visiting"
    /\ \E c \in toAsk[n] :
          /\ toAsk' = [toAsk EXCEPT ![n] = @ \ {c}]
          /\ state' = IF toAsk[n] = {c} THEN state
                      ELSE [state EXCEPT ![c] = "asked"]
    /\ UNCHANGED <<tree, busObjects, ctx, results>>

(* One round of the callback's loop: AddChild and                          *)
(* GetBusObjectsAsyncInternal.  If the introspection cannot be started the *)
(* node stays in the tree and nothing will complete it.                    *)
AddChild(n) ==
    /\ state[n] = "visiting"
    /\ \E c \in toAsk[n] :
          /\ toAsk' = [toAsk EXCEPT ![n] = @ \ {c}]
          /\ \E s \in {"asked"} \cup IF StartFails THEN {"stuck"} ELSE {} :
                state' = [state EXCEPT ![c] = s]
    /\ UNCHANGED <<tree, busObjects, ctx, results>>

IsComplete(n) == state[n] \in {"visiting", "reporting", "done"}

(* Mutant: only the children of the node are looked at, not the tree.      *)
IsTreeCompleteBelow(n) ==
    \A c \in Children(n) : state[c] = "absent" \/ IsComplete(c)

(* IsTreeComplete: from any node up to the root and down again.            *)
IsTreeComplete(n) ==
    \A m \in Nodes : state[m] = "absent" \/ IsComplete(m)

(* Mutant: only the root's callback calls the receiver (what the comment   *)
(* over the check says).                                                   *)
CheckTreeAtRoot(n) ==
    /\ state[n] = "visiting" /\ toAsk[n] = {}
    /\ state' = [state EXCEPT ![n] =
                    IF IsTreeComplete(n) /\ n = Root THEN "reporting" ELSE "done"]
    /\ UNCHANGED <<tree, toAsk, busObjects, ctx, results>>

(* After the loop.                                                         *)
CheckTree(n) ==
    /\ state[n] = "visiting" /\ toAsk[n] = {}
    /\ state' = [state EXCEPT ![n] =
                    IF IsTreeComplete(n) THEN "reporting" ELSE "done"]
    /\ UNCHANGED <<tree, toAsk, busObjects, ctx, results>>

(* The receiver's handler gets the objects; then context, receiver and     *)
(* list are deleted, and of the tree this node alone (DeleteTree).         *)
CallHandler(n) ==
    /\ state[n] = "reporting"
    /\ results' = Append(results, busObjects)
    /\ ctx' = "deleted"
    /\ state' = [state EXCEPT ![n] = "done"]
    /\ UNCHANGED <<tree, toAsk, busObjects>>

Next ==
    \/ GetBusObjectsAsync
    \/ \E n \in Nodes :
          IntrospectCallback(n) \/ AddChild(n) \/ CheckTree(n) \/ CallHandler(n)

Spec == Init /\ [][Next]_vars

(* The bus answers, or times out, every introspection it accepted, and a   *)
(* callback runs to its end.                                               *)
FairSpec ==
    /\ Spec
    /\ WF_vars(GetBusObjectsAsync)
    /\ \A n \in Nodes :
          /\ WF_vars(IntrospectCallback(n))
          /\ WF_vars(AddChild(n) \/ CheckTree(n) \/ CallHandler(n))

-----------------------------------------------------------------------------
(* The values each variable may take.                                      *)
TypeOK ==
    /\ state \in [Nodes -> {"absent", "asked", "stuck", "visiting", "reporting", "done"}]
    /\ toAsk \in [Nodes -> SUBSET Nodes]
    /\ busObjects \in Seq(Nodes)
    /\ ctx \in {"none", "live", "deleted"}
    /\ results \in Seq(Seq(Nodes))

(* Once the context is deleted no callback that would read it runs or is   *)
(* still to come: the walk ends exactly when its last callback does        *)
(* (GetBusObjectsAsyncIntrospectCallback, node->GetContext()).             *)
NoUseAfterDelete ==
    ctx = "deleted" =>
        \A n \in Nodes : state[n] \notin {"asked", "visiting", "reporting"}

(* GetBusObjectsRecursive: the same walk made synchronously, of objects    *)
(* that answer as info says: one that fails is left out with what is below *)
(* it, its siblings are not.                                               *)
GetBusObjectsRecursive(info) ==
    {n \in Below(parent, {m \in Nodes : info[m] # "failed"}) : info[n] = "full"}

(* The asynchronous walk implements the synchronous one: the receiver gets *)
(* one result, and it is the one GetBusObjectsRecursive returns, each      *)
(* object once.  Of a root that fails now GetBusObjectsRecursive returns   *)
(* nothing; the asynchronous walk goes by its earlier answer.              *)
Walk == INSTANCE ObjectWalk WITH
    objects <- GetBusObjectsRecursive(Held), results <- results

WalkSpec == Walk!Spec

(* The receiver is always called: the advertisement or announcement that   *)
(* waits for the walk is sent (GetBusObjectsCallback).                     *)
HandlerCalled == <>(results # <<>>)
=============================================================================
