-------------------------- MODULE BusObjectTree_proofs --------------------------
(* Theorems about BusObjectTree, for any application's objects, when the   *)
(* bus makes one callback at a time.                                       *)
EXTENDS BusObjectTree, SequenceTheorems, FiniteSetTheorems, TLAPS

(* One callback runs at a time, and the one that reports is the last.      *)
CallbackInv ==
    /\ state \in [Nodes -> {"absent", "asked", "stuck", "visiting", "reporting", "done"}]
    /\ ctx = "none" => \A n \in Nodes : state[n] = "absent"
    /\ ctx # "none" => state[Root] # "absent"
    /\ ctx = "deleted" => \A n \in Nodes : state[n] \notin {"asked", "visiting", "reporting"}
    /\ \A m, n \in Callbacks : m = n
    /\ \A n \in Nodes : state[n] = "reporting" =>
          \A m \in Nodes \ {n} : state[m] \in {"absent", "done"}
    /\ results = <<>> <=> ctx # "deleted"

LEMMA CallbackInvInductive ==
    ASSUME ~Concurrent
    PROVE  Spec => []CallbackInv
<1> USE ConstantsAssumption
<1>1. Init => CallbackInv
  BY DEF Init, CallbackInv, Callbacks
<1>2. CallbackInv /\ [Next]_vars => CallbackInv'
  <2> SUFFICES ASSUME CallbackInv, [Next]_vars PROVE CallbackInv'
    OBVIOUS
  <2> USE DEF CallbackInv, Callbacks
  <2>1. ASSUME GetBusObjectsAsync PROVE CallbackInv'
    BY <2>1 DEF GetBusObjectsAsync
  <2>2. ASSUME NEW n \in Nodes, IntrospectCallback(n) PROVE CallbackInv'
    BY <2>2 DEF IntrospectCallback
  <2>3. ASSUME NEW n \in Nodes, AddChild(n) PROVE CallbackInv'
    BY <2>3, ZenonT(60) DEF AddChild
  <2>4. ASSUME NEW n \in Nodes, CheckTree(n) PROVE CallbackInv'
    BY <2>4 DEF CheckTree, IsTreeComplete, IsComplete
  <2>5. ASSUME NEW n \in Nodes, CallHandler(n) PROVE CallbackInv'
    BY <2>5 DEF CallHandler
  <2>6. CASE UNCHANGED vars
    BY <2>6 DEF vars
  <2>7. QED BY <2>1, <2>2, <2>3, <2>4, <2>5, <2>6 DEF Next
<1>3. QED BY <1>1, <1>2, PTL DEF Spec

(* The context is deleted when no callback that would read it is running   *)
(* or to come, if callbacks do not overlap.                                *)
THEOREM ContextOutlivesCallbacks ==
    ASSUME ~Concurrent
    PROVE  Spec => []NoUseAfterDelete
<1>1. CallbackInv => NoUseAfterDelete
  BY DEF CallbackInv, NoUseAfterDelete
<1>2. QED BY <1>1, CallbackInvInductive, PTL

-----------------------------------------------------------------------------
(* What has been asked is a tree, whichever of its callbacks comes next.   *)

Kept == {n \in Nodes : Held[n] # "failed"}

(* Each object is asked once, by its parent's callback, and everything     *)
(* that has been asked and answers can be reached.                         *)
AskedByParent ==
    \A n \in Nodes : \A c \in toAsk[n] :
       c \in Children(n) /\ state[c] = "absent" /\ state[n] = "visiting" /\ n \in Kept
ParentsFirst ==
    \A c \in Nodes \ {Root} : state[c] # "absent" =>
       parent[c] # c /\ IsComplete(parent[c]) /\ parent[c] \in Kept
ChildrenNext ==
    \A n \in Kept : IsComplete(n) =>
       \A c \in Children(n) : c \in toAsk[n] \/ state[c] # "absent"
AskedIsReachable == \A n \in Kept : state[n] # "absent" => n \in Below(parent, Kept)

WalkInv ==
    /\ parent \in [Nodes \ {Root} -> Nodes]
    /\ toAsk \in [Nodes -> SUBSET Nodes]
    /\ AskedByParent /\ ParentsFirst /\ ChildrenNext /\ AskedIsReachable

LEMMA ReachesRoot ==
    ASSUME Root \in Kept
    PROVE  Root \in Below(parent, Kept)
BY ConstantsAssumption DEF Below, Closed, Kept

LEMMA ReachesChild ==
    ASSUME NEW n \in Below(parent, Kept), NEW c \in Kept \ {Root}, parent[c] = n
    PROVE  c \in Below(parent, Kept)
BY DEF Below, Closed, Kept

LEMMA WalkInvInductive ==
    ASSUME ~Concurrent
    PROVE  Spec => []WalkInv
<1> USE ConstantsAssumption
<1>1. Init => WalkInv
  <2> SUFFICES ASSUME Init PROVE WalkInv
    OBVIOUS
  <2>1. parent \in [Nodes \ {Root} -> Nodes]
    BY DEF Init
  <2>2. \A n \in Nodes : state[n] = "absent" /\ toAsk[n] = {}
    BY DEF Init
  <2>3. toAsk \in [Nodes -> SUBSET Nodes]
    BY DEF Init
  <2>4. AskedByParent /\ ParentsFirst /\ ChildrenNext /\ AskedIsReachable
    BY <2>2 DEF AskedByParent, ParentsFirst, ChildrenNext, AskedIsReachable, IsComplete, Kept
  <2>5. QED BY <2>1, <2>3, <2>4 DEF WalkInv
<1>2. CallbackInv /\ WalkInv /\ [Next]_vars => WalkInv'
  <2> SUFFICES ASSUME CallbackInv, WalkInv, [Next]_vars PROVE WalkInv'
    OBVIOUS
  <2>0. /\ state \in [Nodes -> {"absent", "asked", "stuck", "visiting", "reporting", "done"}]
        /\ UNCHANGED <<parent, Held>>
        /\ Kept' = Kept /\ Below(parent, Kept)' = Below(parent, Kept)
        /\ \A n \in Nodes : Children(n)' = Children(n)
    <3>1. UNCHANGED tree
      BY DEF Next, GetBusObjectsAsync, IntrospectCallback, AddChild, CheckTree, CallHandler, vars
    <3>2. QED BY <3>1 DEF CallbackInv, tree, Held, Kept, Below, Closed, Children
  <2>a. (parent \in [Nodes \ {Root} -> Nodes])'
    BY <2>0 DEF WalkInv
  <2> USE DEF WalkInv, IsComplete
  <2>1. ASSUME GetBusObjectsAsync PROVE WalkInv'
    <3>1. \A n \in Nodes : state[n] = "absent"
      BY <2>1 DEF GetBusObjectsAsync, CallbackInv
    <3>2. state' = [state EXCEPT ![Root] = "asked"] /\ toAsk' = toAsk
      BY <2>1 DEF GetBusObjectsAsync
    <3>3. \A n \in Nodes : toAsk[n] = {} /\ n # Root => state'[n] = "absent"
      BY <2>0, <3>1, <3>2
      <3>4. (toAsk \in [Nodes -> SUBSET Nodes])'
        BY <2>0, <3>1, <3>2, ReachesRoot DEF WalkInv
      <3>5. (AskedByParent)'
        BY <2>0, <3>1, <3>2, ReachesRoot DEF AskedByParent, Kept
      <3>6. (ParentsFirst)'
        BY <2>0, <3>1, <3>2, ReachesRoot DEF AskedByParent, ParentsFirst, Kept
      <3>7. (ChildrenNext)'
        BY <2>0, <3>1, <3>2, ReachesRoot DEF AskedByParent, ChildrenNext, Kept
      <3>8. (AskedIsReachable)'
        BY <2>0, <3>1, <3>2, ReachesRoot DEF AskedIsReachable, Kept
      <3>9. QED BY <2>a, <3>4, <3>5, <3>6, <3>7, <3>8
  <2>2. ASSUME NEW n \in Nodes, IntrospectCallback(n) PROVE WalkInv'
    <3>1. \A c \in Children(n) : c \in Nodes \ {Root} /\ parent[c] = n /\ state[c] = "absent"
      BY <2>2 DEF IntrospectCallback, Children, ParentsFirst
    <3>2. state[n] = "asked" /\ state' = [state EXCEPT ![n] = "visiting"]
      BY <2>2 DEF IntrospectCallback
    <3>3. toAsk[n] = {}
      BY <3>2 DEF AskedByParent
    <3>4. toAsk' = IF n \in Kept THEN [toAsk EXCEPT ![n] = Children(n)] ELSE toAsk
      BY <2>2 DEF IntrospectCallback, Kept
    <3>5. n \notin Children(n) /\ Children(n) \subseteq Nodes
      BY DEF Children
      <3>6. (toAsk \in [Nodes -> SUBSET Nodes])'
        BY <2>0, <3>1, <3>2, <3>3, <3>4, <3>5 DEF WalkInv
      <3>7. (AskedByParent)'
        BY <2>0, <3>1, <3>2, <3>3, <3>4, <3>5 DEF AskedByParent, Kept
      <3>8. (ParentsFirst)'
        BY <2>0, <3>1, <3>2, <3>3, <3>4, <3>5 DEF AskedByParent, ParentsFirst, Kept
      <3>9. (ChildrenNext)'
        BY <2>0, <3>1, <3>2, <3>3, <3>4, <3>5 DEF AskedByParent, ChildrenNext, Kept
      <3>10. (AskedIsReachable)'
        BY <2>0, <3>1, <3>2, <3>3, <3>4, <3>5 DEF AskedIsReachable, Kept
      <3>11. QED BY <2>a, <3>6, <3>7, <3>8, <3>9, <3>10
  <2>3. ASSUME NEW n \in Nodes, AddChild(n) PROVE WalkInv'
    <3>1. PICK c \in toAsk[n], s \in {"asked", "stuck"} :
             /\ toAsk' = [toAsk EXCEPT ![n] = @ \ {c}]
             /\ state' = [state EXCEPT ![c] = s]
      BY <2>3 DEF AddChild
    <3>2. /\ c \in Nodes \ {Root} /\ parent[c] = n /\ c # n
          /\ state[c] = "absent" /\ state[n] = "visiting" /\ n \in Kept
      BY <3>1 DEF Children, AskedByParent
    <3>3. \A m \in Nodes \ {n} : c \notin Children(m)
      BY <3>2 DEF Children
    <3>4. c \in Kept => c \in Below(parent, Kept)
      BY <3>2, ReachesChild DEF AskedIsReachable
    <3>5. \A m \in Nodes : m # c => state'[m] = state[m]
      BY <2>0, <3>1
    <3>6. state'[c] \in {"asked", "stuck"}
      BY <2>0, <3>1, <3>2
      <3>7. (toAsk \in [Nodes -> SUBSET Nodes])'
        BY <2>0, <3>1, <3>2, <3>3, <3>4, <3>5, <3>6 DEF WalkInv
      <3>8. (AskedByParent)'
        BY <2>0, <3>1, <3>2, <3>3, <3>4, <3>5, <3>6 DEF AskedByParent, Kept
      <3>9. (ParentsFirst)'
        BY <2>0, <3>1, <3>2, <3>3, <3>4, <3>5, <3>6 DEF AskedByParent, ParentsFirst, Kept
      <3>10. (ChildrenNext)'
        BY <2>0, <3>1, <3>2, <3>3, <3>4, <3>5, <3>6 DEF AskedByParent, ChildrenNext, Kept
      <3>11. (AskedIsReachable)'
        BY <2>0, <3>1, <3>2, <3>3, <3>4, <3>5, <3>6 DEF AskedIsReachable, Kept
      <3>12. QED BY <2>a, <3>7, <3>8, <3>9, <3>10, <3>11
  <2>4. ASSUME NEW n \in Nodes, CheckTree(n) PROVE WalkInv'
    <3>1. PICK s \in {"reporting", "done"} : state' = [state EXCEPT ![n] = s]
      BY <2>4 DEF CheckTree
    <3>2. state[n] = "visiting" /\ toAsk[n] = {} /\ toAsk' = toAsk
      BY <2>4 DEF CheckTree
      <3>3. (toAsk \in [Nodes -> SUBSET Nodes])'
        BY <2>0, <3>1, <3>2 DEF WalkInv
      <3>4. (AskedByParent)'
        BY <2>0, <3>1, <3>2 DEF AskedByParent, Kept
      <3>5. (ParentsFirst)'
        BY <2>0, <3>1, <3>2 DEF AskedByParent, ParentsFirst, Kept
      <3>6. (ChildrenNext)'
        BY <2>0, <3>1, <3>2 DEF AskedByParent, ChildrenNext, Kept
      <3>7. (AskedIsReachable)'
        BY <2>0, <3>1, <3>2 DEF AskedIsReachable, Kept
      <3>8. QED BY <2>a, <3>3, <3>4, <3>5, <3>6, <3>7
  <2>5. ASSUME NEW n \in Nodes, CallHandler(n) PROVE WalkInv'
    <3>1. /\ state[n] = "reporting" /\ state' = [state EXCEPT ![n] = "done"]
          /\ toAsk' = toAsk
      BY <2>5 DEF CallHandler
      <3>2. (toAsk \in [Nodes -> SUBSET Nodes])'
        BY <2>0, <3>1 DEF WalkInv
      <3>3. (AskedByParent)'
        BY <2>0, <3>1 DEF AskedByParent, Kept
      <3>4. (ParentsFirst)'
        BY <2>0, <3>1 DEF AskedByParent, ParentsFirst, Kept
      <3>5. (ChildrenNext)'
        BY <2>0, <3>1 DEF AskedByParent, ChildrenNext, Kept
      <3>6. (AskedIsReachable)'
        BY <2>0, <3>1 DEF AskedIsReachable, Kept
      <3>7. QED BY <2>a, <3>2, <3>3, <3>4, <3>5, <3>6
  <2>6. CASE UNCHANGED vars
    <3>1. UNCHANGED <<state, toAsk>>
      BY <2>6 DEF vars
      <3>2. (toAsk \in [Nodes -> SUBSET Nodes])'
        BY <2>0, <3>1 DEF WalkInv
      <3>3. (AskedByParent)'
        BY <2>0, <3>1 DEF AskedByParent, Kept
      <3>4. (ParentsFirst)'
        BY <2>0, <3>1 DEF AskedByParent, ParentsFirst, Kept
      <3>5. (ChildrenNext)'
        BY <2>0, <3>1 DEF AskedByParent, ChildrenNext, Kept
      <3>6. (AskedIsReachable)'
        BY <2>0, <3>1 DEF AskedIsReachable, Kept
      <3>7. QED BY <2>a, <3>2, <3>3, <3>4, <3>5, <3>6
  <2>7. QED BY <2>1, <2>2, <2>3, <2>4, <2>5, <2>6 DEF Next
<1>3. QED BY <1>1, <1>2, CallbackInvInductive, PTL DEF Spec

-----------------------------------------------------------------------------
(* What is collected are the objects of interest that have answered.       *)

Elements(s) == {s[i] : i \in DOMAIN s}
Once(s)     == \A i, j \in DOMAIN s : s[i] = s[j] => i = j

LEMMA AppendOnce ==
    ASSUME NEW S, NEW s \in Seq(S), NEW e \in S
    PROVE  /\ Append(s, e) \in Seq(S)
           /\ Elements(Append(s, e)) = Elements(s) \cup {e}
           /\ Once(s) /\ e \notin Elements(s) => Once(Append(s, e))
<1>1. /\ DOMAIN s = 1 .. Len(s) /\ Len(s) \in Nat
      /\ DOMAIN Append(s, e) = 1 .. Len(s) + 1
      /\ \A i \in 1 .. Len(s) : Append(s, e)[i] = s[i]
      /\ Append(s, e)[Len(s) + 1] = e
  OBVIOUS
<1>2. DOMAIN Append(s, e) = DOMAIN s \cup {Len(s) + 1}
  BY <1>1
<1>3. QED BY <1>1, <1>2 DEF Elements, Once

CollectedInv ==
    /\ busObjects \in Seq(Nodes) /\ Once(busObjects)
    /\ Elements(busObjects) = {n \in Nodes : IsComplete(n) /\ Held[n] = "full"}

LEMMA CollectedInvInductive ==
    ASSUME ~Concurrent
    PROVE  Spec => []CollectedInv
<1> USE ConstantsAssumption
<1>1. Init => CollectedInv
  BY DEF Init, CollectedInv, IsComplete, Elements, Once
<1>2. CallbackInv /\ WalkInv /\ CollectedInv /\ [Next]_vars => CollectedInv'
  <2> SUFFICES ASSUME CallbackInv, WalkInv, CollectedInv, [Next]_vars PROVE CollectedInv'
    OBVIOUS
  <2>0. /\ state \in [Nodes -> {"absent", "asked", "stuck", "visiting", "reporting", "done"}]
        /\ UNCHANGED Held
    BY DEF CallbackInv, Next, GetBusObjectsAsync, IntrospectCallback, AddChild, CheckTree,
           CallHandler, vars, tree, Held
  <2>1. ASSUME busObjects' = busObjects, \A n \in Nodes : IsComplete(n)' = IsComplete(n)
        PROVE  CollectedInv'
    BY <2>0, <2>1 DEF CollectedInv, Elements, Once
  <2>2. ASSUME GetBusObjectsAsync PROVE CollectedInv'
    BY <2>0, <2>1, <2>2 DEF GetBusObjectsAsync, IsComplete, CallbackInv
  <2>3. ASSUME NEW n \in Nodes, IntrospectCallback(n) PROVE CollectedInv'
    <3>1. ~IsComplete(n) /\ IsComplete(n)'
          /\ \A m \in Nodes \ {n} : IsComplete(m)' = IsComplete(m)
      BY <2>0, <2>3 DEF IntrospectCallback, IsComplete
    <3>2. CASE Held[n] = "full"
      <4>1. busObjects' = Append(busObjects, n) /\ n \notin Elements(busObjects)
        BY <2>3, <3>1, <3>2 DEF IntrospectCallback, CollectedInv
      <4>2. /\ busObjects' \in Seq(Nodes) /\ Once(busObjects')
            /\ Elements(busObjects') = Elements(busObjects) \cup {n}
        BY <4>1, AppendOnce DEF CollectedInv
      <4>3. /\ \A m \in Nodes : Held'[m] = "full" <=> Held[m] = "full"
            /\ {m \in Nodes : IsComplete(m)' /\ Held'[m] = "full"}
                 = {m \in Nodes : IsComplete(m) /\ Held[m] = "full"} \cup {n}
        BY <2>0, <3>1, <3>2
      <4>4. QED BY <4>2, <4>3 DEF CollectedInv
    <3>3. CASE Held[n] # "full"
      <4>1. busObjects' = busObjects
        BY <2>3, <3>3 DEF IntrospectCallback
      <4>2. QED BY <2>0, <3>1, <3>3, <4>1 DEF CollectedInv, Elements, Once
    <3>4. QED BY <3>2, <3>3
  <2>4. ASSUME NEW n \in Nodes, AddChild(n) PROVE CollectedInv'
    <3>1. \A m \in Nodes : IsComplete(m)' = IsComplete(m)
      BY <2>0, <2>4 DEF AddChild, IsComplete, WalkInv, AskedByParent
    <3>2. QED BY <2>1, <2>4, <3>1 DEF AddChild
  <2>5. ASSUME NEW n \in Nodes, CheckTree(n) PROVE CollectedInv'
    <3>1. \A m \in Nodes : IsComplete(m)' = IsComplete(m)
      BY <2>0, <2>5 DEF CheckTree, IsComplete
    <3>2. QED BY <2>1, <2>5, <3>1 DEF CheckTree
  <2>6. ASSUME NEW n \in Nodes, CallHandler(n) PROVE CollectedInv'
    <3>1. \A m \in Nodes : IsComplete(m)' = IsComplete(m)
      BY <2>0, <2>6 DEF CallHandler, IsComplete
    <3>2. QED BY <2>1, <2>6, <3>1 DEF CallHandler
  <2>7. CASE UNCHANGED vars
    BY <2>0, <2>1, <2>7 DEF vars, IsComplete
  <2>8. QED BY <2>2, <2>3, <2>4, <2>5, <2>6, <2>7 DEF Next
<1>3. QED BY <1>1, <1>2, CallbackInvInductive, WalkInvInductive, PTL DEF Spec

(* A sequence without repetitions is one of the orders of its elements.    *)
LEMMA OnceIsAnOrder ==
    ASSUME NEW S, NEW s \in Seq(S), Once(s)
    PROVE  s \in SetToSeqs(Elements(s))
<1>1. Len(s) \in Nat /\ DOMAIN s = 1 .. Len(s) /\ s \in [1 .. Len(s) -> Elements(s)]
  BY DEF Elements
<1>2. s \in Bijection(1 .. Len(s), Elements(s))
  BY <1>1 DEF Bijection, Injection, Surjection, IsInjective, Once, Elements
<1>3. ExistsBijection(1 .. Len(s), Elements(s))
  BY <1>2 DEF ExistsBijection
<1>4. Cardinality(Elements(s)) = Len(s)
  BY <1>1, <1>3, FS_CountingElements
<1>5. QED BY <1>1, <1>4 DEF SetToSeqs, Once

(* The asynchronous walk implements the synchronous one, in whatever order *)
(* the callbacks come: its receiver is called at most once, with every     *)
(* object of interest that can be reached through objects that answer, and *)
(* each of them once.  A root that fails this time goes by the answer it   *)
(* gave before, since the callback does not look at the status.            *)
THEOREM WalkCollectsAll ==
    ASSUME ~Concurrent
    PROVE  Spec => WalkSpec
<1> USE ConstantsAssumption
<1>1. Init => Walk!Init
  BY DEF Init, Walk!Init
<1>2. CallbackInv /\ WalkInv /\ CollectedInv /\ [Next]_vars
         => [Walk!CallHandler]_<<GetBusObjectsRecursive(Held), results>>
  <2> SUFFICES ASSUME CallbackInv, WalkInv, CollectedInv, [Next]_vars
               PROVE  [Walk!CallHandler]_<<GetBusObjectsRecursive(Held), results>>
    OBVIOUS
  <2>0. GetBusObjectsRecursive(Held)' = GetBusObjectsRecursive(Held)
    <3>1. UNCHANGED <<parent, Held>>
      BY DEF Next, GetBusObjectsAsync, IntrospectCallback, AddChild, CheckTree, CallHandler,
             vars, tree, Held
    <3>2. QED BY <3>1 DEF GetBusObjectsRecursive, Below, Closed
  <2>1. ASSUME NEW n \in Nodes, CallHandler(n) PROVE Walk!CallHandler
    <3>1. /\ state[n] = "reporting" /\ results' = Append(results, busObjects)
          /\ results = <<>>
      BY <2>1 DEF CallHandler, CallbackInv
    <3>2. \A m \in Nodes : state[m] \in {"absent", "reporting", "done"} /\ toAsk[m] = {}
      BY <3>1 DEF CallbackInv, WalkInv, AskedByParent
    <3>3. GetBusObjectsRecursive(Held) = {m \in Below(parent, Kept) : Held[m] = "full"}
      BY DEF GetBusObjectsRecursive, Kept
    <3>4. Below(parent, Kept) \subseteq {m \in Kept : IsComplete(m)}
      <4> DEFINE X == {m \in Kept : IsComplete(m)}
      <4>1. Root \in Kept => Root \in X
        BY <3>1, <3>2 DEF CallbackInv, IsComplete
      <4>2. ASSUME NEW c \in Kept \ {Root}, parent[c] \in X PROVE c \in X
        <5>1. parent[c] \in Kept /\ IsComplete(parent[c])
          BY <4>2
        <5>2. CASE parent[c] # c
          <6>1. c \in Children(parent[c])
            BY <4>2, <5>2 DEF Children, Kept
          <6>2. state[c] # "absent"
            BY <3>2, <5>1, <6>1 DEF WalkInv, ChildrenNext, Kept
          <6>3. QED BY <3>2, <4>2, <6>2 DEF IsComplete, Kept
        <5>3. QED BY <4>2, <5>2
      <4>3. X \in SUBSET Nodes /\ Closed(X, parent, Kept)
        BY <4>1, <4>2 DEF Closed, Kept
      <4>4. QED BY <4>3 DEF Below
    <3>5. \A m \in Nodes : IsComplete(m) /\ Held[m] = "full" => m \in Below(parent, Kept)
      BY DEF WalkInv, AskedIsReachable, Kept, IsComplete
    <3>6. GetBusObjectsRecursive(Held) = Elements(busObjects)
      BY <3>3, <3>4, <3>5 DEF CollectedInv, Kept, Below
    <3>7. busObjects \in SetToSeqs(GetBusObjectsRecursive(Held))
      BY <3>6, OnceIsAnOrder DEF CollectedInv
    <3>8. results' = <<busObjects>>
      BY <3>1
    <3>9. \E order \in Walk!SetToSeqs(GetBusObjectsRecursive(Held)) : results' = <<order>>
      <4>1. Walk!SetToSeqs(GetBusObjectsRecursive(Held)) = SetToSeqs(GetBusObjectsRecursive(Held))
        <5>1. Walk!Cardinality(GetBusObjectsRecursive(Held)) = Cardinality(GetBusObjectsRecursive(Held))
          BY Zenon DEF Cardinality, Walk!Cardinality
        <5>2. QED BY <5>1 DEF SetToSeqs, Walk!SetToSeqs
      <4>2. QED BY <3>7, <3>8, <4>1
    <3>10. QED BY <2>0, <3>1, <3>9 DEF Walk!CallHandler
  <2>2. CASE Next
    <3>1. ASSUME ~\E n \in Nodes : CallHandler(n) PROVE results' = results
      BY <2>2, <3>1 DEF Next, GetBusObjectsAsync, IntrospectCallback, AddChild, CheckTree
    <3>2. QED BY <2>0, <2>1, <3>1
  <2>3. CASE UNCHANGED vars
    BY <2>0, <2>3 DEF vars
  <2>4. QED BY <2>2, <2>3
<1>3. QED BY <1>1, <1>2, CallbackInvInductive, WalkInvInductive, CollectedInvInductive, PTL
           DEF Spec, WalkSpec, Walk!Spec
=============================================================================
