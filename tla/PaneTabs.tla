------------------------------ MODULE PaneTabs ------------------------------
(***************************************************************************)
(* The tabs of the web client and the tree of panes in each of them:       *)
(* usePaneTree, useTabManager, useLayout and the handlers of App.vue that   *)
(* call them.                                                              *)
(*                                                                         *)
(* A tree is the function from the paths of its leaves to the leaves.  A   *)
(* path is the sequence of turns from the root, 1 for "first" and 2 for    *)
(* "second"; split nodes are the proper prefixes.  Direction and ratio of  *)
(* a split are left out.                                                   *)
(***************************************************************************)
EXTENDS Integers, Sequences, SequencesExt, FiniteSets

CONSTANTS Hosts,
          Channels,   \* channels of the hub
          HostOf,     \* host of each channel
          Temps,      \* ids of spawns that are not answered yet
          TabIds,     \* tabs (bound)
          None,
          MaxPanes,   \* MAX_PANE_COUNT
          MaxIds,     \* pane ids in use at a time (bound)
          CloseDead   \* uiConfig.onChannelDead is "close"

ASSUME PaneAssumption ==
  /\ HostOf \in [Channels -> Hosts]
  /\ MaxPanes \in Nat \ {0} /\ MaxIds \in Nat \ {0} /\ CloseDead \in BOOLEAN
  /\ None \notin Channels \cup Temps /\ Channels \cap Temps = {}

VARIABLES
  tabs,      \* the tab bar
  active,    \* activeTabIndex, counted from 0
  layouts,   \* the tree of every tab
  focus,     \* activePaneIds
  status,    \* status of each channel on the hub
  host,      \* selectedHostId
  fetching,  \* the channels of the host have been asked for
  listed,    \* channels in the channels store
  mapped,    \* channels in channelHostMap
  then       \* what the running handler or watcher still has to open

tabVars == <<tabs, active, layouts, focus>>
storeVars == <<status, host, fetching, listed, mapped, then>>
vars == <<tabVars, storeVars>>

Leaf == [id : 1 .. MaxIds + 1, ch : Channels \cup Temps \cup {None}]
TabSet == Range(tabs)
ActiveTab == IF active < Len(tabs) THEN tabs[active + 1] ELSE None

TypeOK ==
  /\ tabs \in Seq(TabIds) /\ IsInjective(tabs)
  /\ active \in Nat /\ (active < Len(tabs) \/ (active = 0 /\ tabs = <<>>))
  /\ DOMAIN layouts = TabSet /\ DOMAIN focus \subseteq TabSet
  /\ \A t \in TabSet : \A p \in DOMAIN layouts[t] :
        p \in Seq({1, 2}) /\ layouts[t][p] \in Leaf
  /\ status \in [Channels -> {"none", "live", "dead"}]
  /\ host \in Hosts /\ fetching \in BOOLEAN
  /\ listed \subseteq mapped /\ mapped \subseteq Channels
  /\ then \in {"nothing", "welcome", "selected"}

(* A client that has just selected its first host. *)
Init ==
  /\ tabs = <<>> /\ active = 0
  /\ layouts = <<>> /\ focus = <<>>
  /\ status \in [Channels -> {"none", "live"}]
  /\ host \in Hosts /\ fetching = TRUE
  /\ listed = {} /\ mapped = {} /\ then = "nothing"

-----------------------------------------------------------------------------
(* Trees.                                                                  *)

Before(p, q) == \E i \in 1 .. Len(p) :
                   i <= Len(q) /\ p[i] < q[i] /\ \A j \in 1 .. i - 1 : p[j] = q[j]
FirstPath(paths) == CHOOSE p \in paths : \A q \in paths \ {p} : Before(p, q)

Terminals(tree) == {p \in DOMAIN tree : tree[p].ch # None}
ChannelsIn(tree) == {tree[p].ch : p \in Terminals(tree)}
PathsOf(tree, c) == {p \in DOMAIN tree : tree[p].ch = c}
PathsOfPane(tree, id) == {p \in DOMAIN tree : tree[p].id = id}
OnlyTerminal(tree, c) == Cardinality(Terminals(tree)) = 1 /\ ChannelsIn(tree) = {c}

SplitLeaf(tree, p, first, second) ==
  [q \in (DOMAIN tree \ {p}) \cup {p \o <<1>>, p \o <<2>>} |->
     IF q = p \o <<1>> THEN first ELSE IF q = p \o <<2>> THEN second ELSE tree[q]]

CollapseKeepPath(tree, p) == [q \in DOMAIN tree \ {p} |-> tree[q]]

(* The pane at p goes and its sibling takes the place of their parent. *)
Collapse(tree, p) ==
  LET parent == Front(p)
      sibling == Append(parent, 3 - Last(p))
      moved == {q \in DOMAIN tree : IsPrefix(sibling, q)}
      Raised(q) == parent \o SubSeq(q, Len(sibling) + 1, Len(q))
      kept == DOMAIN tree \ (moved \cup {p})
  IN [r \in kept \cup {Raised(q) : q \in moved} |->
        IF r \in kept THEN tree[r]
        ELSE tree[sibling \o SubSeq(r, Len(parent) + 1, Len(r))]]

-----------------------------------------------------------------------------
(* Helpers over all tabs.                                                  *)

IdsInUse == UNION {{layouts[t][p].id : p \in DOMAIN layouts[t]} : t \in TabSet}
            \cup {focus[t] : t \in DOMAIN focus}

PaneIds == 1 .. MaxIds + 1

(* generateId: two ids that no pane has and no tab remembers; vacating a   *)
(* pane frees the id of it.                                                *)
CanMake == Cardinality(IdsInUse) < MaxIds
Fresh(n) == CHOOSE i \in PaneIds \ IdsInUse :
               Cardinality({j \in PaneIds \ IdsInUse : j < i}) = n - 1

Without(f, S) == [t \in DOMAIN f \ S |-> f[t]]
With(f, t, v) == [u \in DOMAIN f \cup {t} |-> IF u = t THEN v ELSE f[u]]
Vacant(n) == [id |-> Fresh(n), ch |-> None]
Terminal(n, c) == [id |-> Fresh(n), ch |-> c]

(* findTabForChannel: the active tab before the others. *)
TabsOf(c) ==
  LET all == {t \in TabSet : PathsOf(layouts[t], c) # {}} IN
  IF ActiveTab \in all THEN {ActiveTab} ELSE all

(* getActiveChannelId *)
ActiveChannel(t) ==
  LET tree == layouts[t]
      paths == IF t \in DOMAIN focus
               THEN PathsOfPane(tree, focus[t]) \cap Terminals(tree) ELSE {}
  IN IF paths # {} THEN tree[FirstPath(paths)].ch
     ELSE IF Terminals(tree) # {} THEN tree[FirstPath(Terminals(tree))].ch ELSE None

(* The focus of a tab after a pane with channel c has gone from its tree. *)
Refocused(t, old, new, c) ==
  IF t \in DOMAIN focus /\ \E p \in PathsOfPane(old, focus[t]) : old[p].ch = c
  THEN IF Terminals(new) = {} THEN Without(focus, {t})
       ELSE With(focus, t, new[FirstPath(Terminals(new))].id)
  ELSE focus

-----------------------------------------------------------------------------
(* Tabs.                                                                   *)

InsertTab(t, i) ==
  /\ tabs' = InsertAt(tabs, i + 1, t)
  /\ active' = i

(* openTab: the tab that shows the channel, or a new one behind the active *)
(* tab or at the end.                                                      *)
OpenTab(c) ==
  \/ \E t \in TabsOf(c), i \in 1 .. Len(tabs) :
        /\ tabs[i] = t
        /\ active' = i - 1
        /\ UNCHANGED <<tabs, layouts, focus>>
  \/ /\ TabsOf(c) = {} /\ CanMake
     /\ \E t \in TabIds \ TabSet, i \in {Min({active + 1, Len(tabs)}), Len(tabs)} :
          /\ InsertTab(t, i)
          /\ layouts' = With(layouts, t, <<>> :> Terminal(1, c))
          /\ focus' = With(focus, t, Fresh(1))

ClosedOneNoShift(s, i) ==
  [tabs |-> RemoveAt(s.tabs, i + 1),
   active |-> IF s.active >= Len(s.tabs) - 1 THEN Max({0, Len(s.tabs) - 2}) ELSE s.active]

(* closeTab: the index keeps naming the active tab. *)
ClosedOne(s, i) ==
  [tabs |-> RemoveAt(s.tabs, i + 1),
   active |-> IF s.active >= Len(s.tabs) - 1 THEN Max({0, Len(s.tabs) - 2})
              ELSE IF s.active > i THEN s.active - 1 ELSE s.active]

(* Tabs are closed one after another. *)
CloseTabs(order) ==
  LET IndexOf(s, t) == (CHOOSE i \in 1 .. Len(s.tabs) : s.tabs[i] = t) - 1
      end == FoldLeft(LAMBDA s, t : ClosedOne(s, IndexOf(s, t)),
                      [tabs |-> tabs, active |-> active], order)
  IN /\ tabs' = end.tabs
     /\ active' = end.active
     /\ layouts' = Without(layouts, Range(order))
     /\ focus' = Without(focus, Range(order))

(* purgeDeadTabs, purgeOrphanedTabs and onPurgeDead go from right to left. *)
FromTheRight(S) == SelectSeq(Reverse(tabs), LAMBDA t : t \in S)

CloseTab == \E t \in TabSet : CloseTabs(<<t>>) /\ UNCHANGED storeVars

SetActiveTab ==
  \E i \in 0 .. Len(tabs) - 1 :
     active' = i /\ UNCHANGED <<tabs, layouts, focus, storeVars>>

(* reorderTab: the active index follows the tab it names. *)
Reordered(from, to) ==
  IF active = from THEN to
  ELSE IF from < active /\ to >= active THEN active - 1
  ELSE IF from > active /\ to <= active THEN active + 1 ELSE active

ReorderTab ==
  \E from, to \in 0 .. Len(tabs) - 1 :
     /\ from # to
     /\ tabs' = InsertAt(RemoveAt(tabs, from + 1), to + 1, tabs[from + 1])
     /\ active' = Reordered(from, to)
     /\ UNCHANGED <<layouts, focus, storeVars>>

KeepOnly(S) ==
  /\ tabs' = SelectSeq(tabs, LAMBDA t : t \in S)
  /\ layouts' = Without(layouts, TabSet \ S)
  /\ focus' = Without(focus, TabSet \ S)

CloseOthers == \E t \in TabSet : KeepOnly({t}) /\ active' = 0 /\ UNCHANGED storeVars

CloseToRight ==
  \E i \in 0 .. Len(tabs) - 1 :
     /\ KeepOnly({tabs[j] : j \in 1 .. i + 1})
     /\ active' = Min({active, i})
     /\ UNCHANGED storeVars

(* closeAll keeps the tab of the welcome channel, if there is one. *)
CloseAll ==
  /\ \/ KeepOnly({})
     \/ \E c \in listed : \E t \in TabsOf(c) : KeepOnly({t})
  /\ active' = 0
  /\ UNCHANGED storeVars

-----------------------------------------------------------------------------
(* Panes of the active tab.                                                *)

SetTree(t, tree) == layouts' = With(layouts, t, tree)

SplitPane(c) ==
  /\ ActiveTab # None /\ CanMake
  /\ LET tree == layouts[ActiveTab] IN
     /\ Cardinality(DOMAIN tree) < MaxPanes
     /\ PathsOf(tree, c) # {}
     /\ LET p == FirstPath(PathsOf(tree, c)) IN
        SetTree(ActiveTab, SplitLeaf(tree, p, tree[p], Vacant(1)))
  /\ UNCHANGED <<tabs, active, focus, storeVars>>

(* vacatePaneInTab *)
Vacated(t, c) ==
  [layouts[t] EXCEPT ![FirstPath(PathsOf(layouts[t], c))] = Vacant(1)]

DetachPane(c) ==
  /\ ActiveTab # None /\ CanMake
  /\ PathsOf(layouts[ActiveTab], c) # {}
  /\ SetTree(ActiveTab, Vacated(ActiveTab, c))
  /\ focus' = Refocused(ActiveTab, layouts[ActiveTab], Vacated(ActiveTab, c), c)
  /\ UNCHANGED <<tabs, active, storeVars>>

ClosePane(c) ==
  /\ ActiveTab # None /\ CanMake
  /\ LET tree == layouts[ActiveTab] IN
     /\ PathsOf(tree, c) # {}
     /\ LET p == FirstPath(PathsOf(tree, c)) IN
        IF p = <<>>
        THEN /\ SetTree(ActiveTab, <<>> :> Vacant(1))
             /\ focus' = Without(focus, {ActiveTab})
        ELSE /\ SetTree(ActiveTab, Collapse(tree, p))
             /\ focus' = Refocused(ActiveTab, tree, Collapse(tree, p), c)
  /\ UNCHANGED <<tabs, active, storeVars>>

(* fillVacant, with a channel of the list or with a spawn of its own *)
FillVacant(c) ==
  /\ ActiveTab # None /\ CanMake
  /\ LET tree == layouts[ActiveTab] IN
     \E p \in DOMAIN tree \ Terminals(tree) :
        /\ SetTree(ActiveTab, [tree EXCEPT ![p] = Terminal(1, c)])
        /\ focus' = With(focus, ActiveTab, Fresh(1))
  /\ UNCHANGED <<tabs, active, storeVars>>

RearrangeVacant ==
  /\ ActiveTab # None
  /\ LET tree == layouts[ActiveTab] IN
     \E p \in DOMAIN tree \ Terminals(tree) :
        p # <<>> /\ SetTree(ActiveTab, Collapse(tree, p))
  /\ UNCHANGED <<tabs, active, focus, storeVars>>

FocusPane ==
  \E t \in TabSet : \E p \in Terminals(layouts[t]) :
     /\ t = ActiveTab
     /\ focus' = With(focus, t, layouts[t][p].id)
     /\ UNCHANGED <<tabs, active, layouts, storeVars>>

-----------------------------------------------------------------------------
(* Drag and drop.                                                          *)

(* The tree of tab t once the channel is put on the pane id, at the side   *)
(* of it or in its place.                                                  *)
Dropped(tree, id, zone, leaf) ==
  LET p == CHOOSE q \in PathsOfPane(tree, id) : TRUE IN
  CASE zone = "center" -> [tree EXCEPT ![p] = leaf]
    [] zone = "before" -> SplitLeaf(tree, p, leaf, tree[p])
    [] zone = "after"  -> SplitLeaf(tree, p, tree[p], leaf)

MovePaneStale(c, src, t, id, zone) ==
  /\ layouts' = With(With(layouts, src, Vacated(src, c)), t,
                     Dropped(layouts[t], id, zone, Terminal(2, c)))
  /\ focus' = With(Refocused(src, layouts[src], Vacated(src, c), c), t, Fresh(2))

(* movePaneTo: the source is vacated first, and the target is looked for   *)
(* in what is left.                                                        *)
MovePane(c, src, t, id, zone) ==
  LET left == With(layouts, src, Vacated(src, c))
      seen == Refocused(src, layouts[src], Vacated(src, c), c)
  IN IF PathsOfPane(left[t], id) = {}
     THEN layouts' = left /\ focus' = seen
     ELSE /\ layouts' = With(left, t, Dropped(left[t], id, zone, Terminal(2, c)))
          /\ focus' = With(seen, t, Fresh(2))

(* A pane is dropped on another one: onDrop and onDropPane. *)
DropPane(c) ==
  /\ CanMake
  /\ \E src \in TabsOf(c), t \in TabSet, zone \in {"center", "before", "after"} :
     \E p \in DOMAIN layouts[t] :
       /\ \E u \in TabSet : \E q \in PathsOf(layouts[u], c) : layouts[u][q].id # layouts[t][p].id
       /\ t = ActiveTab
       /\ (layouts[t][p].ch = None => zone = "center")
       /\ (zone # "center" => Cardinality(DOMAIN layouts[t]) < MaxPanes)
       /\ MovePane(c, src, t, layouts[t][p].id, zone)
  /\ UNCHANGED <<tabs, active, storeVars>>

(* A pane is dropped on the tab bar. *)
MoveToNewTab(c) ==
  /\ CanMake
  /\ \E src \in TabsOf(c), t \in TabIds \ TabSet, i \in 0 .. Len(tabs) :
       /\ InsertTab(t, i)
       /\ layouts' = With(With(layouts, src, Vacated(src, c)), t, <<>> :> Terminal(2, c))
       /\ focus' = With(Refocused(src, layouts[src], Vacated(src, c), c), t, Fresh(2))
  /\ UNCHANGED storeVars

-----------------------------------------------------------------------------
(* Channels.                                                               *)

Replaced(old, new) ==
  [t \in DOMAIN layouts |-> [p \in DOMAIN layouts[t] |->
     IF layouts[t][p].ch = old THEN [layouts[t][p] EXCEPT !.ch = new] ELSE layouts[t][p]]]

SelectChannel == \E c \in listed : OpenTab(c) /\ UNCHANGED storeVars

(* onSidebarOpenCurrentTab *)
OpenInCurrentTab ==
  \E c \in listed :
     /\ IF ActiveTab # None /\ ActiveChannel(ActiveTab) # None
        THEN layouts' = Replaced(ActiveChannel(ActiveTab), c)
             /\ UNCHANGED <<tabs, active, focus>>
        ELSE OpenTab(c)
     /\ UNCHANGED storeVars

Shown(x) == \E t \in TabSet : PathsOf(layouts[t], x) # {}
NewTerminal(x) == ~Shown(x) /\ (FillVacant(x) \/ (OpenTab(x) /\ UNCHANGED storeVars))

(* onChannelSpawned: the pane of the spawn gets its channel. *)
ChannelSpawned(x) ==
  /\ Shown(x)
  /\ \E c \in Channels :
       /\ status[c] = "none" /\ HostOf[c] = host
       /\ status' = [status EXCEPT ![c] = "live"]
       /\ listed' = listed \cup {c} /\ mapped' = mapped \cup {c}
       /\ layouts' = Replaced(x, c)
  /\ UNCHANGED <<tabs, active, focus, host, fetching, then>>

AllDead(t, dead) == Terminals(layouts[t]) # {} /\ ChannelsIn(layouts[t]) \subseteq dead
Dead == {c \in listed : status[c] = "dead"}

(* A channel dies: the watcher closes its tab when all its panes are dead. *)
ChannelDies ==
  \E c \in listed :
     /\ status[c] = "live"
     /\ status' = [status EXCEPT ![c] = "dead"]
     /\ LET tab == {t \in TabsOf(c) : CloseDead /\ AllDead(t, Dead \cup {c})} IN
        \/ tab = {} /\ UNCHANGED tabVars
        \/ \E t \in tab : CloseTabs(<<t>>)
     /\ UNCHANGED <<host, fetching, listed, mapped, then>>

(* Channels leave the list: the watcher closes the tabs that showed        *)
(* nothing else.                                                           *)
Unlisted(gone) ==
  \E pick \in [{c \in gone : TabsOf(c) # {}} -> TabSet] :
     /\ \A c \in DOMAIN pick : pick[c] \in TabsOf(c)
     /\ \E order \in SetToSeqs({pick[c] : c \in {d \in DOMAIN pick : OnlyTerminal(layouts[pick[d]], d)}}) :
          CloseTabs(order)

(* onDeleteChannel, onPurgeDead and removeChannel, which may select        *)
(* another channel of the list.                                            *)
ChannelDeleted ==
  \E gone \in {{c} : c \in listed} \cup {Dead} :
     /\ gone # {}
     /\ status' = [c \in Channels |-> IF c \in gone THEN "none" ELSE status[c]]
     /\ listed' = listed \ gone
     /\ mapped' = mapped \ gone
     /\ \/ Unlisted(gone)
        \/ gone = Dead /\ CloseTabs(FromTheRight({t \in TabSet : AllDead(t, Dead)}))
     /\ then' = IF listed' = {} THEN "nothing" ELSE "selected"
     /\ UNCHANGED <<host, fetching>>

(* The user selects a host: fetchChannels empties the list. *)
SelectHost ==
  \E h \in Hosts \ {host} :
     /\ host' = h /\ fetching' = TRUE
     /\ listed' = {}
     /\ Unlisted(listed)
     /\ UNCHANGED <<status, mapped, then>>

(* The list of the host arrives: orphaned and dead tabs are purged.        *)
HostFetched ==
  /\ fetching
  /\ fetching' = FALSE
  /\ listed' = {c \in Channels : HostOf[c] = host /\ status[c] # "none"}
  /\ mapped' = mapped \cup listed'
  /\ LET Orphaned(t) == /\ Terminals(layouts[t]) # {}
                        /\ \A x \in ChannelsIn(layouts[t]) :
                              x \in mapped' /\ HostOf[x] = host /\ x \notin listed'
         Gone(t) == CloseDead /\ AllDead(t, {c \in listed' : status[c] = "dead"})
     IN CloseTabs(FromTheRight({t \in TabSet : Orphaned(t)})
                  \o FromTheRight({t \in TabSet : ~Orphaned(t) /\ Gone(t)}))
  /\ then' = "welcome"
  /\ UNCHANGED <<status, host>>

(* The end of that handler opens the welcome channel, if there is one, or  *)
(* the first terminal of a local host that has none; the watcher of the    *)
(* selection opens the channel that replaced a removed one.                *)
OpenNext ==
  /\ \/ \E c \in listed : (then = "welcome" => status[c] # "dead") /\ OpenTab(c)
     \/ UNCHANGED tabVars
     \/ /\ then = "welcome" /\ tabs = <<>>
        /\ \A c \in listed : status[c] = "dead"
        /\ \E x \in Temps : OpenTab(x)
  /\ then' = "nothing"
  /\ UNCHANGED <<status, host, fetching, listed, mapped>>

UserOrHub ==
  \/ CloseTab \/ SetActiveTab \/ ReorderTab \/ CloseOthers \/ CloseToRight \/ CloseAll
  \/ RearrangeVacant \/ FocusPane
  \/ \E c \in Channels \cup Temps :
        SplitPane(c) \/ DetachPane(c) \/ ClosePane(c) \/ DropPane(c) \/ MoveToNewTab(c)
  \/ \E c \in listed : status[c] # "dead" /\ FillVacant(c)
  \/ \E x \in Temps : NewTerminal(x) \/ ChannelSpawned(x)
  \/ SelectChannel \/ OpenInCurrentTab
  \/ ChannelDies \/ ChannelDeleted \/ SelectHost \/ HostFetched

Next == IF then = "nothing" THEN UserOrHub ELSE OpenNext

Spec == Init /\ [][Next]_vars

-----------------------------------------------------------------------------
(* Every tree is a binary tree: no leaf lies under another one, and each   *)
(* turn has a sibling.  It never has more than MAX_PANE_COUNT leaves        *)
(* (INV-10), and pane ids are unique.  Splits, collapses and drops rebuild  *)
(* the trees by path (setNodeAtPath, replaceNodeByPaneId).                 *)
TreeShape ==
  /\ \A t \in TabSet :
       /\ Cardinality(DOMAIN layouts[t]) \in 1 .. MaxPanes
       /\ \A p, q \in DOMAIN layouts[t] : p # q => ~IsPrefix(p, q)
       /\ \A p \in DOMAIN layouts[t] : \A i \in 1 .. Len(p) :
             \E q \in DOMAIN layouts[t] :
                IsPrefix(Append(SubSeq(p, 1, i - 1), 3 - p[i]), q)
  /\ \A t, u \in TabSet : \A p \in DOMAIN layouts[t], q \in DOMAIN layouts[u] :
        layouts[t][p].id = layouts[u][q].id => t = u /\ p = q

(* Tabs that are closed or moved around the active tab leave it active     *)
(* (closeTab, closeToRight, reorderTab and the watchers that close tabs).   *)
ActiveTabKept ==
  [][ /\ ActiveTab \in Range(tabs')
      /\ Range(tabs') \subseteq TabSet
      /\ tabs' # tabs
      => tabs'[active' + 1] = ActiveTab ]_vars

Panes(c, trees) == {<<t, p>> \in UNION {{t} \X DOMAIN trees[t] : t \in DOMAIN trees} :
                       trees[t][p].ch = c}

(* A drop moves a channel: one that was shown in one pane is shown in one  *)
(* pane afterwards, so a step that loses or doubles it is no drop          *)
(* (movePaneTo vacates before it inserts).                                 *)
DropKeepsChannel ==
  [][ \A c \in Channels \cup Temps :
        /\ Cardinality(Panes(c, layouts)) = 1
        /\ Cardinality(Panes(c, layouts')) # 1
        => ~DropPane(c) ]_vars

=============================================================================
