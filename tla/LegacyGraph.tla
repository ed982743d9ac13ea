------------------------------- MODULE LegacyGraph -------------------------------
(***************************************************************************)
(* The graph of src/src/graph.c: a sequence of adjacency lists             *)
(* [key, dests], dests the vertices that the nodes of the list lead to.    *)
(* Like the other structures it is looked at as a collection of keys: k    *)
(* stands for the edge from k \div Base to k % Base.  Weights are never    *)
(* read.                                                                   *)
(***************************************************************************)
EXTENDS Integers, Sequences, SequencesExt, SearchBase

CONSTANT Base  (* bound: vertices are integers below Base *)

Source(k) == k \div Base

Dest(k) == k % Base

(* Graph_find_AdjList: which list is the one of vertex v, 0 if none is. *)
ListOf(g, v) == SelectInSeq(g, LAMBDA list : list.key = v)

(* Graph_add_vertex_not_exists *)
WithVertex(g, v) ==
  IF ListOf(g, v) # 0 THEN g ELSE Append(g, [key |-> v, dests |-> <<>>])

AddVertex(g, v) == {Out(WithVertex(g, v), NULL), Lost(g, "exit", "none")}

(* AdjList_is_node_in_list does not look at the last node. *)
IsNodeInList(dests, v) == \E i \in 1..Len(dests) - 1 : dests[i] = v

(* Graph_add_edge.  Without memory the program exits, or it writes to NULL; *)
(* an edge to where the last node leads gets a second node.                 *)
AddEdge(g, k) ==
  LET u     == WithVertex(WithVertex(g, Source(k)), Dest(k))
      i     == ListOf(u, Source(k))
      dests == u[i].dests
  IN  {Lost(g, "exit", "none"),
       IF IsNodeInList(dests, Dest(k)) THEN Out(u, "kept")
       ELSE Lost([u EXCEPT ![i].dests = Append(dests, Dest(k))], "stored",
                 IF Dest(k) \in ToSet(dests) THEN "twice" ELSE "all")}

(* Graph_find_AdjNode *)
FindAdjNode(g, k) ==
  LET i == ListOf(g, Source(k)) IN
  {Out(g, IF i = 0 THEN No ELSE Answer(Dest(k) \in ToSet(g[i].dests)))}

(* Graph_has_edge asks whether some node leads elsewhere. *)
HasEdge(g, k) ==
  \E i \in DOMAIN g : g[i].key = Source(k) /\ ToSet(g[i].dests) \ {Dest(k)} # {}

(* Graph_DFS_traverse and Graph_BFS_traverse.  visited holds the source    *)
(* alone, and item_exists takes every other vertex for it: only an edge to *)
(* the source itself is followed, and what is pushed is then taken for a   *)
(* node of a list that it is not; every edge, if memory runs out.          *)
Search(g, v) ==
  LET i     == ListOf(g, v)
      dests == IF i = 0 THEN {} ELSE ToSet(g[i].dests)
  IN  (IF v \in dests THEN {} ELSE {Out(g, <<>>)})
        \cup (IF dests = {} THEN {} ELSE {Lost(g, "crash", "none")})

(* Graph_destory frees every list but the last, none of their nodes, and   *)
(* follows NULL if there is no list.                                       *)
Destroy(g) == {IF g = <<>> THEN Lost(g, "crash", "none") ELSE Out(<<>>, NULL)}

-------------------------------------------------------------------------------
(* The entries list by list. *)
Entries(g) ==
  FlattenSeq([i \in DOMAIN g |->
                [j \in DOMAIN g[i].dests |-> <<Base * g[i].key + g[i].dests[j], NULL>>]])

(* A vertex has one list, every node leads to a vertex, and the only       *)
(* second nodes for the same vertex are those that the search for the      *)
(* first one stopped short of: each follows the first directly.            *)
WellFormed(g) ==
  /\ \A i \in DOMAIN g : ListOf(g, g[i].key) = i
  /\ \A i \in DOMAIN g : \A m \in DOMAIN g[i].dests :
       /\ ListOf(g, g[i].dests[m]) # 0
       /\ \A n \in DOMAIN g[i].dests :
            m < n /\ g[i].dests[m] = g[i].dests[n] => n = m + 1
===============================================================================
