--------------------------- MODULE GraphStructure ---------------------------
(***************************************************************************)
(* The topology of the shared graph (src/codex/nodegraph/NodeGraph.cpp,    *)
(* WriteAccess): ordered children with the position each child caches,     *)
(* relations with the incoming edges each target keeps, incarnations, and  *)
(* the array of retired nodes.  The write lock makes every operation       *)
(* atomic; what is checked are the cached positions and the shortened      *)
(* erasures that trust them, and that each operation reports all it        *)
(* changed, for only reported nodes reach the views.  An operation whose   *)
(* arguments the code refuses with an exception is not enabled.            *)
(***************************************************************************)
EXTENDS Naturals, SequencesExt

CONSTANTS
    Nodes,      \* the Node objects ever made; several may carry one id
    IdOf,       \* the id of each
    KindOf,     \* the kind of each, a part of its id
    Sources,    \* the nodes that relations start from
    Relations   \* RelationKind

None == "none"
PendingInteraction == "PendingInteraction"
PendingOperation == "PendingOperation"
\* What the proofs ask of the constants: no node is called None, and the relations that
\* the operations name are among them.
GraphAssumption == None \notin Nodes /\ {PendingInteraction, PendingOperation} \subseteq Relations

VARIABLES
    ordered,    \* orderedNodes_: the live nodes, by insertion order
    born,       \* all nodes ever inserted, by insertion order
    parent, children,   \* parent_, children_
    index,      \* parentIndex_: among the siblings, or among the retired nodes
    out,        \* relations_
    incoming,   \* incomingRelations_, edges <<source, kind>>
    pending,    \* the status is Pending or Failed
    retired,    \* retiredNodes_
    noted       \* what the last operation passed to prepareChanges(), or removed

graphVars == <<ordered, born, parent, children, index, out, incoming, pending, retired, noted>>
edges == <<out, incoming>>

NoEdges == [r \in Relations |-> <<>>]
Nothing == [nodes |-> {}, structure |-> {}, lists |-> {}]

GraphInit ==
    /\ ordered = <<>> /\ born = <<>> /\ retired = <<>>
    /\ parent = [n \in Nodes |-> None]
    /\ children = [n \in Nodes |-> <<>>]
    /\ index = [n \in Nodes |-> 0]
    /\ out = [n \in Nodes |-> NoEdges]
    /\ incoming = [n \in Nodes |-> {}]
    /\ pending = [n \in Nodes |-> FALSE]
    /\ noted = Nothing

Live == ToSet(ordered)
InsertionOrder(n) == CHOOSE i \in DOMAIN born : born[i] = n
Kinds == {KindOf[n] : n \in Nodes}
\* Nodes and the parents that are none, cleaned as prepareChanges() does.
Note(nodes, structure, lists) ==
    noted' = [nodes |-> nodes \ {None}, structure |-> structure \ {None},
              lists |-> {l \in lists : l[1] # None}]
\* The elements of s that are in S, in their order: SelectSeq by the ranks of the indices.
Only(s, S) ==
    LET in == {i \in DOMAIN s : s[i] \in S}
    IN [k \in 1 .. Cardinality(in) |->
          s[CHOOSE i \in in : Cardinality({j \in in : j <= i}) = k]]
Erase(s, R) == Only(s, Nodes \ R)
OfKind(s, k) == Only(s, {n \in Nodes : KindOf[n] = k})
\* parentIndex_.store(...) for the elements of s from position first on.
Renumber(at, s, first) ==
    [n \in Nodes |-> IF \E i \in DOMAIN s : i >= first /\ s[i] = n
                     THEN (CHOOSE i \in DOMAIN s : s[i] = n) - 1 ELSE at[n]]

\* n, its parent, and so on: the least set with n that holds the parents of its own.
Ancestors(n) ==
    LET closed == {S \in SUBSET Live : n \in S /\ \A m \in S : parent[m] \in S \cup {None}}
    IN {m \in Live : \A S \in closed : m \in S}

-----------------------------------------------------------------------------
\* upsert() of an id that is not in the graph.
Upsert(n) ==
    /\ n \notin ToSet(born) /\ \A m \in Live : IdOf[m] # IdOf[n]
    /\ ordered' = Append(ordered, n)
    /\ born' = Append(born, n)
    /\ pending' = [pending EXCEPT ![n] = TRUE]
    /\ Note({n}, {}, {})
    /\ UNCHANGED <<parent, children, index, edges, retired>>

\* replaceState() that makes a node terminal, or pending again.
ReplaceState(n) ==
    /\ n \in Live
    /\ KindOf[n] = "Interaction"     \* the status of the others decides nothing here
    /\ pending[n] =>
           \A e \in incoming[n] : e[2] # PendingInteraction
    /\ pending' = [pending EXCEPT ![n] = ~@]
    /\ Note({n}, {}, {})
    /\ UNCHANGED <<ordered, born, parent, children, index, edges, retired>>

\* Mutant: only the place of the new child is stored.
SetParentWithoutShift(p, n, before) ==
    LET old == parent[n]
        position == IF before = None THEN Len(children[p]) ELSE index[before]
        siblings == InsertAt(children[p], position + 1, n)
        left == IF old = None THEN <<>> ELSE Erase(children[old], {n})
    IN /\ {p, n} \subseteq Live /\ old # p
       /\ before # None => before \in Live /\ parent[before] = p
       /\ n \notin Ancestors(p)
       /\ children' = [m \in Nodes |-> CASE m = p -> siblings [] m = old -> left [] OTHER -> children[m]]
       /\ index' = [Renumber(index, left, 1) EXCEPT ![n] = position]
       /\ parent' = [parent EXCEPT ![n] = p]
       /\ Note({p, n, old}, {p, n, old}, {<<p, KindOf[n]>>, <<old, KindOf[n]>>})
       /\ UNCHANGED <<ordered, born, edges, pending, retired>>
SetParent(p, n, before) ==
    LET old == parent[n]
        position == IF before = None THEN Len(children[p]) ELSE index[before]
        siblings == InsertAt(children[p], position + 1, n)
        left == IF old = None THEN <<>> ELSE Erase(children[old], {n})
    IN /\ {p, n} \subseteq Live /\ old # p
       /\ before # None => before \in Live /\ parent[before] = p
       /\ n \notin Ancestors(p)
       /\ children' = [m \in Nodes |-> CASE m = p -> siblings [] m = old -> left [] OTHER -> children[m]]
       /\ index' = Renumber(Renumber(index, left, 1), siblings, position + 1)
       /\ parent' = [parent EXCEPT ![n] = p]
       /\ Note({p, n, old}, {p, n, old}, {<<p, KindOf[n]>>, <<old, KindOf[n]>>})
       /\ UNCHANGED <<ordered, born, edges, pending, retired>>

\* Mutant: the kind of the list that lost a child is not reported.
ClearParentUnlisted(n) ==
    LET p == parent[n]
    IN /\ n \in Live /\ p # None
       /\ children' = [children EXCEPT ![p] = Erase(@, {n})]
       /\ index' = [Renumber(index, children'[p], 1) EXCEPT ![n] = 0]
       /\ parent' = [parent EXCEPT ![n] = None]
       /\ Note({p, n}, {p, n}, {})
       /\ UNCHANGED <<ordered, born, edges, pending, retired>>
ClearParent(n) ==
    LET p == parent[n]
    IN /\ n \in Live /\ p # None
       /\ children' = [children EXCEPT ![p] = Erase(@, {n})]
       /\ index' = [Renumber(index, children'[p], 1) EXCEPT ![n] = 0]
       /\ parent' = [parent EXCEPT ![n] = None]
       /\ Note({p, n}, {p, n}, {<<p, KindOf[n]>>})
       /\ UNCHANGED <<ordered, born, edges, pending, retired>>

\* replaceChildren(): next is without repetition; an ancestor or a removed node is refused.
ReplaceChildren(p, next) ==
    LET kept == ToSet(next)
        previous == children[p]
        dropped == ToSet(previous) \ kept
        moved == {n \in kept : parent[n] # p}
        olds == {parent[n] : n \in moved} \ {None}
    IN /\ next # previous
       /\ children' = [m \in Nodes |-> CASE m = p -> next [] m \in olds -> Erase(children[m], kept)
                                        [] OTHER -> children[m]]
       /\ index' = [n \in Nodes |->
                      CASE n \in kept -> (CHOOSE i \in DOMAIN next : next[i] = n) - 1
                        [] n \in dropped -> 0
                        [] n \notin kept /\ parent[n] \in olds ->
                             (CHOOSE i \in DOMAIN children'[parent[n]] : children'[parent[n]][i] = n) - 1
                        [] OTHER -> index[n]]
       /\ parent' = [n \in Nodes |-> IF n \in kept THEN p ELSE IF n \in dropped THEN None ELSE parent[n]]
       /\ Note({p} \cup dropped \cup kept \cup olds, {p} \cup dropped \cup moved \cup olds,
               {<<p, k>> : k \in {k \in Kinds : OfKind(previous, k) # OfKind(next, k)}}
                 \cup {<<parent[n], KindOf[n]>> : n \in moved})
       /\ UNCHANGED <<ordered, born, edges, pending, retired>>

\* What a relation of kind r may lead to.
MayRelate(r, t) ==
    /\ r = PendingOperation => KindOf[t] = "Operation"
    /\ r = PendingInteraction => KindOf[t] = "Interaction" /\ pending[t]

Relate(s, r, t) ==
    /\ {s, t} \subseteq Live /\ MayRelate(r, t) /\ ~Contains(out[s][r], t)
    /\ r = PendingInteraction /\ out[s][r] # <<>> => InsertionOrder(Last(out[s][r])) <= InsertionOrder(t)
    /\ out' = [out EXCEPT ![s][r] = Append(@, t)]
    /\ incoming' = [incoming EXCEPT ![t] = @ \cup {<<s, r>>}]
    /\ Note({s, t}, {s}, {})
    /\ UNCHANGED <<ordered, born, parent, children, index, pending, retired>>

Unrelate(s, r, t) ==
    /\ {s, t} \subseteq Live /\ Contains(out[s][r], t)
    /\ out' = [out EXCEPT ![s][r] = Erase(@, {t})]
    /\ incoming' = [incoming EXCEPT ![t] = @ \ {<<s, r>>}]
    /\ Note({s, t}, {s}, {})
    /\ UNCHANGED <<ordered, born, parent, children, index, pending, retired>>

\* replaceRelated(): next is without repetition and of targets the kind allows.
ReplaceRelated(s, r, next) ==
    LET kept == ToSet(next)
        previous == ToSet(out[s][r])
    IN /\ s \in Live /\ next # out[s][r]
       /\ r = PendingInteraction =>
              \A i, j \in DOMAIN next : i < j => InsertionOrder(next[i]) < InsertionOrder(next[j])
       /\ out' = [out EXCEPT ![s][r] = next]
       /\ incoming' = [t \in Nodes |->
              CASE t \in previous \ kept -> incoming[t] \ {<<s, r>>}
                [] t \in kept \ previous -> incoming[t] \cup {<<s, r>>}
                [] OTHER -> incoming[t]]
       /\ Note({s} \cup previous \cup kept, {s}, {})
       /\ UNCHANGED <<ordered, born, parent, children, index, pending, retired>>

\* removeMany(): the pending operations of what is removed go with it.  The code retires
\* the nodes in the order of its arguments; here it is that of their insertion.
Closure(R) ==
    LET closed == {S \in SUBSET Live : R \subseteq S /\ \A n \in S : ToSet(out[n][PendingOperation]) \subseteq S}
    IN {n \in Live : \A S \in closed : n \in S}
\* The children of p without those in R: only from the first cached position on.
ChildrenWithout(p, R) ==
    LET at == {index[n] : n \in {m \in R : parent[m] = p}}
        first == CHOOSE i \in at : \A j \in at : i <= j
    IN IF at = {} THEN children[p]
       ELSE SubSeq(children[p], 1, first) \o Erase(SubSeq(children[p], first + 1, Len(children[p])), R)
\* The edges of s without those to R: from the back, as many as R knows of.
OutWithout(s, r, R) ==
    LET targets == out[s][r]
        known == Cardinality({n \in R : <<s, r>> \in incoming[n]})
        first == CHOOSE i \in DOMAIN targets :
                     targets[i] \in R /\ Cardinality({j \in DOMAIN targets : j >= i /\ targets[j] \in R}) = known
    IN IF known = 0 THEN targets
       ELSE SubSeq(targets, 1, first - 1) \o Erase(SubSeq(targets, first, Len(targets)), R)

RemoveMany(some) ==
    LET R == Closure(some)
        gone == Only(ordered, R)
        orphans == {m \in Nodes \ R : parent[m] \in R}
        sources == {e[1] : e \in UNION {incoming[n] : n \in R}}
        topology == (({parent[n] : n \in R} \cup orphans \cup sources) \ {None}) \ R
        bound == {n \in R : parent[n] # None \/ children[n] # <<>> \/ out[n] # NoEdges}
    IN /\ some # {} /\ some \subseteq Live
       /\ children' = [p \in Nodes |-> IF p \in R THEN <<>> ELSE ChildrenWithout(p, R)]
       /\ parent' = [n \in Nodes |-> IF n \in R \cup orphans THEN None ELSE parent[n]]
       /\ index' = [n \in Nodes |->
              CASE n \in R -> Len(retired) + (CHOOSE i \in DOMAIN gone : gone[i] = n) - 1
                [] n \in orphans -> 0
                [] n \notin R \cup orphans /\ parent[n] # None ->
                     (CHOOSE i \in DOMAIN children'[parent[n]] : children'[parent[n]][i] = n) - 1
                [] OTHER -> index[n]]
       /\ out' = [n \in Nodes |-> IF n \in R THEN NoEdges
                                   ELSE [r \in Relations |-> OutWithout(n, r, R)]]
       /\ incoming' = [n \in Nodes |-> IF n \in R THEN {} ELSE {e \in incoming[n] : e[1] \notin R}]
       /\ ordered' = Erase(ordered, R)
       /\ retired' = retired \o gone
       /\ Note(topology \cup R, topology \cup bound,
               {<<parent[n], KindOf[n]>> : n \in R}
                 \cup {<<parent[m], KindOf[m]>> : m \in {c \in Nodes : parent[c] \in R}})
       /\ UNCHANGED <<born, pending>>

\* releaseRetired(): the last retired node takes the place of the one released.
ReleaseRetired(n) ==
    LET at == index[n] + 1
    IN /\ at \in DOMAIN retired /\ retired[at] = n
       /\ retired' = SubSeq([retired EXCEPT ![at] = Last(retired)], 1, Len(retired) - 1)
       /\ index' = [index EXCEPT ![Last(retired)] = index[n], ![n] = 0]
       /\ noted' = Nothing
       /\ UNCHANGED <<ordered, born, parent, children, edges, pending>>

LifeNext == \/ \E n \in Nodes : Upsert(n) \/ ReplaceState(n)
            \/ \E some \in SUBSET Live : RemoveMany(some)
TreeNext ==
    \/ \E p, n \in Live, before \in Live \cup {None} : SetParent(p, n, before)
    \/ \E n \in Live : ClearParent(n)
    \/ \E p \in Live : \E next \in SetToAllKPermutations(Live \ Ancestors(p)) : ReplaceChildren(p, next)
EdgeNext ==
    \/ \E s \in Sources, t \in Live, r \in Relations : Relate(s, r, t) \/ Unrelate(s, r, t)
    \/ \E s \in Sources, r \in Relations : 
         \E next \in SetToAllKPermutations({t \in Live : MayRelate(r, t)}) :
           ReplaceRelated(s, r, next)
GraphNext == LifeNext \/ TreeNext \/ EdgeNext \/ (\E n \in Nodes : ReleaseRetired(n))

GraphSpec == GraphInit /\ [][GraphNext]_graphVars

-----------------------------------------------------------------------------
\* The live nodes are a forest without cycles, each child listed once by its parent at the
\* position it caches; a removed node hangs nowhere and stays in the array of the retired
\* ones, at the position it caches, until the views release it (setParent to releaseRetired).
Forest ==
    /\ \A p \in Nodes : \A i \in DOMAIN children[p] :
         LET c == children[p][i] IN parent[c] = p /\ index[c] = i - 1 /\ {p, c} \subseteq Live
    /\ \A n \in Nodes : parent[n] # None => Contains(children[parent[n]], n)
    /\ \A S \in SUBSET Live : S # {} => \E n \in S : parent[n] \notin S
    /\ \A i \in DOMAIN retired : index[retired[i]] = i - 1 /\ retired[i] \notin Live

\* Every relation is known to its target exactly once and both its ends are live; requests
\* that wait for an answer are linked in the order they came and are still open.
EdgesMirrored ==
    /\ \A s \in Nodes, r \in Relations :
         /\ IsInjective(out[s][r])
         /\ \A t \in ToSet(out[s][r]) :
              <<s, r>> \in incoming[t] /\ {s, t} \subseteq Live /\ MayRelate(r, t)
    /\ \A t \in Nodes : \A e \in incoming[t] : Contains(out[e[1]][e[2]], t)
    /\ \A s \in Nodes : LET w == out[s][PendingInteraction]
         IN \A i, j \in DOMAIN w : i < j => InsertionOrder(w[i]) < InsertionOrder(w[j])

\* The caches agree with what they stand for: shortened erasures trust them.
GraphIntact == Forest /\ EdgesMirrored

\* No operation changes the place, the children or the relations of a live node without
\* reporting the node, and the list of children of the right kind, to the views.
ChangesNoted ==
    \A n \in Nodes :
       n \in Live' /\ <<parent[n], children[n], out[n]>>' # <<parent[n], children[n], out[n]>> =>
       /\ n \in noted'.nodes \cap noted'.structure
       /\ \A k \in Kinds :
            OfKind(children'[n], k) # OfKind(children[n], k) => <<n, k>> \in noted'.lists
EveryChangeReported == [][ChangesNoted]_graphVars
=============================================================================
