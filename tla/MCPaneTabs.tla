---------------------------- MODULE MCPaneTabs ----------------------------
EXTENDS PaneTabs

CONSTANTS a, h1, h2
MCHostOf == a :> h1
Tabs == Permutations(TabIds)

(* Pane ids are only compared: what matters of them is which leaf has the  *)
(* focus of its tab.                                                       *)
View ==
  <<tabs, active, DOMAIN focus, storeVars,
    [t \in TabSet |-> [p \in DOMAIN layouts[t] |->
       <<layouts[t][p].ch, t \in DOMAIN focus /\ focus[t] = layouts[t][p].id>>]]>>
===========================================================================
