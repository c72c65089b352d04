---------------------------- MODULE HostCatalog ----------------------------
(***************************************************************************)
(* The hosts and host groups of the hub's database (hosts-dal.ts, behind   *)
(* host-crud.ts, host-groups.ts, host-ssh-import.ts) and the copies pages  *)
(* keep and edit (stores/hosts.ts, useHostForm.ts, HostModal, HostRail).   *)
(* A handler of the hub is one step; its answer travels on its own, so     *)
(* the requests of one page may be handled and answered in any order.      *)
(***************************************************************************)
EXTENDS Integers, Sequences, FiniteSets, SequencesExt, FiniteSetsExt

CONSTANTS Hosts, Groups,      \* ids, each given out once (generateId)
          Labels, GroupNames,
          Looks,              \* values of visualProfile in profile_json
          Vals,               \* values of a terminal setting in profile_json
          Pages, Slots,       \* requests under way are numbered
          None,
          Casts               \* who may do what in a behaviour: see TypeOK

ASSUME CatalogAssumption ==
  /\ IsFiniteSet(Hosts) /\ IsFiniteSet(Groups) /\ IsFiniteSet(Slots)
  /\ None \notin Hosts \cup Groups
  /\ \A c \in Casts : c.pages \subseteq Pages /\ c.overlap \in 1 .. Cardinality(Slots)

VARIABLES cast,
          hosts,    \* table hosts
          depends,  \* the kinds of rows that depend on each host
          groups,   \* table host_groups
          given,    \* ids given out
          page,     \* what each page keeps
          call      \* the requests under way

dbVars == <<hosts, depends, groups, given>>
catVars == <<cast, dbVars, page, call>>

Rows(table) == {k \in DOMAIN table : table[k] # None}
NoProfile == [look |-> None, term |-> None]
HostRow == [label : Labels, group : Groups \cup {None}, legacy : GroupNames \cup {None},
            order : 0 .. Cardinality(Hosts),
            profile : [look : Looks \cup {None}, term : Vals \cup {None}]]
GroupRow == [name : GroupNames, order : 0 .. Cardinality(Groups)]

(* generateId: an id nothing has had.  Ids are opaque, so one is enough. *)
NewIds(ids, used) == SetToSeq(ids \ used)
AnId(ids, used) == IF ids \subseteq used THEN {} ELSE {CHOOSE i \in ids : i \notin used}

CatInit ==
  /\ cast \in Casts
  /\ given = IF "both" \in cast.does THEN Hosts
             ELSE IF "host" \in cast.does THEN AnId(Hosts, {}) ELSE {}
  /\ \E label \in Injection(given, Labels) :
       hosts = [h \in Hosts |->
                  IF h \in given THEN [label |-> label[h], group |-> None, legacy |-> None,
                                      order |-> 0, profile |-> NoProfile] ELSE None]
  /\ depends = [h \in Hosts |-> {}] /\ groups = [g \in Groups |-> None]
  /\ page = [p \in Pages |-> [hosts |-> [h \in Hosts |-> None], groups |-> <<>>,
                              selected |-> None, form |-> None, loaded |-> FALSE]]
  /\ call = [s \in Slots |-> None]

-----------------------------------------------------------------------------
(* Requests.                                                               *)

Does(what) == what \in cast.does
CallsOf(p) == {s \in Slots : call[s] # None /\ call[s].page = p}
Request(p, op, arg) ==
  [page |-> p, op |-> op, arg |-> arg, code |-> 0, body |-> None]
Waits(s, op) == call[s] # None /\ call[s].op = op /\ call[s].code = 0
Answered(s, op) == call[s] # None /\ call[s].op = op /\ call[s].code # 0
Reply(s, code, body) == call' = [call EXCEPT ![s].code = code, ![s].body = body]
Refuse(s, code) == Reply(s, code, None) /\ UNCHANGED <<cast, dbVars, page>>
OkCode(s) == call[s].code < 300

(* The user of a page starts a request; a dialog covers the rest of the    *)
(* page.                                                                   *)
Ask(p, s, op, arg) ==
  /\ p \in cast.pages /\ Cardinality(CallsOf(p)) < cast.overlap
  /\ call[s] = None /\ \A t \in Slots : t < s => call[t] # None
  /\ call' = [call EXCEPT ![s] = Request(p, op, arg)]
FromRail(p, s, op, arg) == page[p].form = None /\ Ask(p, s, op, arg)

(* The request of slot s ends, or is followed by the next one. *)
End(s) == call' = [call EXCEPT ![s] = None]
Then(s, op, arg) == call' = [call EXCEPT ![s] = Request(@.page, op, arg)]
ThenFetch(s) == Then(s, "getHosts", None)

-----------------------------------------------------------------------------
(* The tables.  A label and a group name are UNIQUE, hosts.host_group_id   *)
(* references host_groups ON DELETE SET NULL, and the rows of a host form  *)
(* a chain of references: cache_index, channels, sessions, hosts.          *)

GetHostByLabel(l) == {h \in Rows(hosts) : hosts[h].label = l}
Referenced(g) == g = None \/ g \in Rows(groups)
FreshHosts == AnId(Hosts, given)
FreshGroups == AnId(Groups, given)

RefersTo(kind) ==
  CASE kind = "host" -> "session" [] kind = "session" -> "channel"
    [] kind = "channel" -> "cache" [] OTHER -> "nothing"

(* The rows of a deletion in order: a row something refers to stops it. *)
DeleteInOrder(have, kinds) ==
  FoldLeft(LAMBDA left, kind : IF "failed" \in left \/ RefersTo(kind) \in left
                                 THEN left \cup {"failed"} ELSE left \ {kind},
           have, kinds)

DeleteCascadeForHost == <<"cache", "channel", "session", "chgroup">>

NextSort == IF Rows(groups) = {} THEN 0
            ELSE Max({groups[g].order : g \in Rows(groups)}) + 1

(* The rest of the hub: sessions, channels, their cached output and their  *)
(* groups are stored for a host as it is used.                             *)
HostIsUsed(h) ==
  /\ Does("use") /\ h \in Rows(hosts)
  /\ \E kind \in {"session", "channel", "cache", "chgroup"} \ depends[h] :
       /\ kind = "channel" => "session" \in depends[h]
       /\ kind = "cache" => "channel" \in depends[h]
       /\ depends' = [depends EXCEPT ![h] = @ \cup {kind}]
  /\ UNCHANGED <<cast, hosts, groups, given, page, call>>

-----------------------------------------------------------------------------
(* Hosts: the handlers of host-crud.ts.                                    *)

GetHosts(s) ==
  /\ Waits(s, "getHosts") /\ Reply(s, 200, hosts)
  /\ UNCHANGED <<cast, dbVars, page>>

NewHost(b) == [label |-> b.label, group |-> b.group, legacy |-> b.legacy, order |-> 0,
               profile |-> b.profile]

PostHost(s) ==
  LET b == call[s].arg IN
  /\ Waits(s, "postHost")
  /\ \/ GetHostByLabel(b.label) # {} /\ Refuse(s, 409)
     \/ GetHostByLabel(b.label) = {} /\ ~Referenced(b.group) /\ Refuse(s, 500)
     \/ /\ GetHostByLabel(b.label) = {} /\ Referenced(b.group)
        /\ \E h \in FreshHosts :
             /\ hosts' = [hosts EXCEPT ![h] = NewHost(b)] /\ given' = given \cup {h}
             /\ Reply(s, 201, [id |-> h, row |-> hosts'[h]])
        /\ UNCHANGED <<cast, depends, groups, page>>

(* A PUT names the columns it sets; the label may be the host's own. *)
LabelConflict(b, h) == "label" \in DOMAIN b /\ GetHostByLabel(b.label) \ {h} # {}

PutHost(s) ==
  LET b == call[s].arg.body  h == call[s].arg.host IN
  /\ Waits(s, "putHost")
  /\ \/ h \notin Rows(hosts) /\ Refuse(s, 404)
     \/ h \in Rows(hosts) /\ LabelConflict(b, h) /\ Refuse(s, 409)
     \/ /\ h \in Rows(hosts) /\ ~LabelConflict(b, h)
        /\ \/ /\ ~Referenced(b.group) \/ ("label" \in DOMAIN b
                                           /\ GetHostByLabel(b.label) \ {h} # {})
              /\ Refuse(s, 500)
           \/ /\ Referenced(b.group)
              /\ "label" \in DOMAIN b => GetHostByLabel(b.label) \ {h} = {}
              /\ hosts' = [hosts EXCEPT ![h] =
                             [k \in DOMAIN @ |-> IF k \in DOMAIN b THEN b[k] ELSE @[k]]]
              /\ Reply(s, 200, [id |-> h, row |-> hosts'[h]])
              /\ UNCHANGED <<cast, depends, groups, given, page>>

DeleteHost(s) ==
  LET h == call[s].arg
      left == DeleteInOrder(depends[h] \cup {"host"}, Append(DeleteCascadeForHost, "host"))
  IN
  /\ Waits(s, "deleteHost")
  /\ \/ h \notin Rows(hosts) /\ Refuse(s, 404)
     \/ h \in Rows(hosts) /\ "failed" \in left /\ Refuse(s, 500)
     \/ /\ h \in Rows(hosts) /\ "failed" \notin left
        /\ hosts' = [hosts EXCEPT ![h] = None] /\ depends' = [depends EXCEPT ![h] = {}]
        /\ Reply(s, 204, None) /\ UNCHANGED <<cast, groups, given, page>>

(* duplicateHost: a label nothing has; the group is not copied. *)
DuplicateHost(s) ==
  LET h == call[s].arg IN
  /\ Waits(s, "duplicate")
  /\ \/ h \notin Rows(hosts) /\ Refuse(s, 400)
     \/ /\ h \in Rows(hosts)
        /\ \E n \in FreshHosts, l \in {x \in Labels : GetHostByLabel(x) = {}} :
             /\ hosts' = [hosts EXCEPT ![n] = NewHost([hosts[h] EXCEPT !.label = l,
                                                                       !.group = None])]
             /\ given' = given \cup {n} /\ Reply(s, 201, [id |-> n, row |-> hosts'[n]])
        /\ UNCHANGED <<cast, depends, groups, page>>

(* reorderHosts: ids that name no host are passed over. *)
OrderHosts(s) ==
  LET ids == call[s].arg.ids  g == call[s].arg.group
      Place(h) == (CHOOSE i \in DOMAIN ids : ids[i] = h) - 1
  IN
  /\ Waits(s, "orderHosts")
  /\ \/ ~Referenced(g) /\ Range(ids) \cap Rows(hosts) # {} /\ Refuse(s, 500)
     \/ /\ Referenced(g) \/ Range(ids) \cap Rows(hosts) = {}
        /\ hosts' = [h \in Hosts |->
             IF h \in Rows(hosts) /\ h \in Range(ids)
               THEN [hosts[h] EXCEPT !.order = Place(h), !.group = g] ELSE hosts[h]]
        /\ Reply(s, 204, None) /\ UNCHANGED <<cast, depends, groups, given, page>>

(* The entries of the ssh configuration, in one transaction: every label   *)
(* is looked up before the first row is made.                              *)
ImportHosts(s) ==
  LET entries == call[s].arg  labels == [i \in DOMAIN entries |-> entries[i].label] IN
  /\ Waits(s, "import")
  /\ \/ (\E l \in Range(labels) : GetHostByLabel(l) # {}) /\ Refuse(s, 409)
     \/ /\ \A l \in Range(labels) : GetHostByLabel(l) = {}
        /\ \/ ~IsInjective(labels) /\ Refuse(s, 500)
           \/ /\ IsInjective(labels)
              /\ LET ids == SubSeq(NewIds(Hosts, given), 1, Len(entries)) IN
                   /\ Len(ids) = Len(entries) /\ given' = given \cup Range(ids)
                   /\ hosts' = [h \in Hosts |->
                        IF h \in Range(ids)
                          THEN NewHost(entries[CHOOSE i \in DOMAIN ids : ids[i] = h])
                          ELSE hosts[h]]
              /\ Reply(s, 201, None) /\ UNCHANGED <<cast, depends, groups, page>>

-----------------------------------------------------------------------------
(* Groups: the handlers of host-groups.ts.                                 *)

GroupNamed(n) == {g \in Rows(groups) : groups[g].name = n}
GroupList == SetToSortSeq(Rows(groups), LAMBDA x, y : groups[x].order < groups[y].order)

GetGroups(s) ==
  /\ Waits(s, "getGroups")
  /\ Reply(s, 200, [i \in DOMAIN GroupList |->
                      [id |-> GroupList[i], name |-> groups[GroupList[i]].name]])
  /\ UNCHANGED <<cast, dbVars, page>>

PostGroup(s) ==
  LET n == call[s].arg.name IN
  /\ Waits(s, "postGroup")
  /\ \/ GroupNamed(n) # {} /\ Refuse(s, 409)
     \/ /\ GroupNamed(n) = {}
        /\ \E g \in FreshGroups :
             /\ groups' = [groups EXCEPT ![g] = [name |-> n, order |-> NextSort]]
             /\ given' = given \cup {g} /\ Reply(s, 201, g)
        /\ UNCHANGED <<cast, hosts, depends, page>>

PutGroup(s) ==
  LET g == call[s].arg.group  n == call[s].arg.name IN
  /\ Waits(s, "putGroup")
  /\ \/ g \notin Rows(groups) /\ Refuse(s, 404)
     \/ g \in Rows(groups) /\ GroupNamed(n) \ {g} # {} /\ Refuse(s, 409)
     \/ /\ g \in Rows(groups) /\ GroupNamed(n) \ {g} = {}
        /\ groups' = [groups EXCEPT ![g].name = n] /\ Reply(s, 200, g)
        /\ UNCHANGED <<cast, hosts, depends, given, page>>

DeleteGroup(s) ==
  LET g == call[s].arg IN
  /\ Waits(s, "deleteGroup")
  /\ \/ g \notin Rows(groups) /\ Refuse(s, 404)
     \/ /\ g \in Rows(groups)
        /\ groups' = [groups EXCEPT ![g] = None]
        /\ hosts' = [h \in Hosts |-> IF h \in Rows(hosts) /\ hosts[h].group = g
                                       THEN [hosts[h] EXCEPT !.group = None] ELSE hosts[h]]
        /\ Reply(s, 204, None) /\ UNCHANGED <<cast, depends, given, page>>

(* An order is a list, without repetition, of every group there is. *)
AcceptPartialOrder(ids) ==
  ids \in Seq(Groups) \ {<<>>} /\ IsInjective(ids) /\ Range(ids) \subseteq Rows(groups)
AcceptOrder(ids) ==
  ids \in Seq(Groups) \ {<<>>} /\ IsInjective(ids) /\ Range(ids) = Rows(groups)

OrderGroups(s) ==
  LET ids == call[s].arg.ids IN
  /\ Waits(s, "orderGroups")
  /\ \/ ~AcceptOrder(ids) /\ Refuse(s, 400)
     \/ /\ AcceptOrder(ids)
        /\ groups' = [g \in Groups |->
             IF g \in Range(ids)
               THEN [groups[g] EXCEPT !.order = (CHOOSE i \in DOMAIN ids : ids[i] = g) - 1]
               ELSE groups[g]]
        /\ Reply(s, 200, None) /\ UNCHANGED <<cast, hosts, depends, given, page>>

(* A start of the hub: migrateHostGroupData makes a group of every legacy  *)
(* name that has none, and gives it to the hosts without a group.          *)
MigrateHostGroupData ==
  LET names == {hosts[h].legacy : h \in Rows(hosts)} \ {None}
      missing == {n \in names : GroupNamed(n) = {}}
  IN
  /\ Does("restart") /\ \A s \in Slots : call[s] = None
  /\ Cardinality(missing) <= Cardinality(Groups \ given)
  /\ \E ns \in SetToSeqs(missing) :
       LET ids == NewIds(Groups, given)
           at(g) == CHOOSE i \in DOMAIN ns : ids[i] = g
           made == {ids[i] : i \in DOMAIN ns}
           after == [g \in Groups |-> IF g \in made
                       THEN [name |-> ns[at(g)], order |-> NextSort + at(g) - 1]
                       ELSE groups[g]]
       IN /\ groups' = after /\ given' = given \cup made
          /\ hosts' = [h \in Hosts |->
               IF h \in Rows(hosts) /\ hosts[h].legacy # None /\ hosts[h].group = None
                 THEN [hosts[h] EXCEPT !.group =
                         CHOOSE g \in Groups : after[g] # None /\ after[g].name = hosts[h].legacy]
                 ELSE hosts[h]]
  /\ UNCHANGED <<cast, depends, page, call>>

-----------------------------------------------------------------------------
(* The page: what its user does (stores/hosts.ts, App.vue, HostRail.vue).  *)

Shown(p) == Rows(page[p].hosts)
GroupIds(p) == [i \in DOMAIN page[p].groups |-> page[p].groups[i].id]
FetchHosts(p, s) ==
  /\ Does("refetch") \/ (Does("fetch") /\ ~page[p].loaded)
  /\ FromRail(p, s, "getHosts", None) /\ UNCHANGED <<cast, dbVars, page>>

OnDelete(p, s, h) ==
  /\ Does("hosts") /\ h \in Shown(p) /\ FromRail(p, s, "deleteHost", h)
  /\ UNCHANGED <<cast, dbVars, page>>
OnDuplicate(p, s, h) ==
  /\ Does("copy") /\ h \in Shown(p) /\ FromRail(p, s, "duplicate", h)
  /\ UNCHANGED <<cast, dbVars, page>>
(* From the menu of the host, or by a drop on the header of a group. *)
MoveHostToGroup(p, s, h, g) ==
  /\ Does("order") /\ h \in Shown(p) /\ g \in Range(GroupIds(p)) \cup {None}
  /\ \E from \in {"menu", "drop"} :
       FromRail(p, s, "putHost", [host |-> h, body |-> [group |-> g], from |-> from])
  /\ UNCHANGED <<cast, dbVars, page>>

(* onDrop of a host: the hosts of the section with the one dragged. *)
DropHost(p, s, h, g) ==
  /\ Does("order") /\ h \in Shown(p) /\ g \in Range(GroupIds(p)) \cup {None}
  /\ \E ids \in SetToSeqs({h} \cup {x \in Shown(p) : page[p].hosts[x].group = g}) :
       Len(ids) > 1 /\ FromRail(p, s, "orderHosts", [ids |-> ids, group |-> g])
  /\ UNCHANGED <<cast, dbVars, page>>
OnImport(p, s) ==
  /\ Does("import")
  /\ \E ls \in UNION {[1 .. n -> Labels] : n \in 1 .. 2}, old \in GroupNames \cup {None} :
       /\ Len(ls) <= Cardinality(Hosts \ given)
       /\ FromRail(p, s, "import", [i \in DOMAIN ls |->
            [label |-> ls[i], group |-> None, legacy |-> old, profile |-> NoProfile]])
  /\ UNCHANGED <<cast, dbVars, page>>

OnCreateGroup(p, s, n) ==
  /\ Does("groups") /\ FreshGroups # {}
  /\ FromRail(p, s, "postGroup", [name |-> n, next |-> None])
  /\ UNCHANGED <<cast, dbVars, page>>
OnRenameGroup(p, s, g, n) ==
  /\ Does("rename") /\ g \in Range(GroupIds(p))
  /\ FromRail(p, s, "putGroup", [group |-> g, name |-> n])
  /\ UNCHANGED <<cast, dbVars, page>>
OnDeleteGroup(p, s, g) ==
  /\ Does("remove") /\ g \in Range(GroupIds(p)) /\ FromRail(p, s, "deleteGroup", g)
  /\ UNCHANGED <<cast, dbVars, page>>

(* reorderGroups moves one group before another; the list changes at once. *)
ReorderGroups(p, s, from, to) ==
  LET old == page[p].groups
      rest == SelectSeq(old, LAMBDA g : g # old[from])
      at == IF to > from THEN to - 1 ELSE to
      new == InsertAt(rest, at, old[from])
  IN
  /\ Does("arrange") /\ from # to /\ {from, to} \subseteq DOMAIN old
  /\ FromRail(p, s, "orderGroups", [ids |-> [i \in DOMAIN new |-> new[i].id], undo |-> old])
  /\ page' = [page EXCEPT ![p].groups = new]
  /\ UNCHANGED <<cast, dbVars>>

-----------------------------------------------------------------------------
(* HostModal and useHostForm: a form over the row the page had when it was *)
(* opened.                                                                 *)

OpenForm(p, h) ==
  /\ Does("form") /\ p \in cast.pages /\ page[p].form = None
  /\ Cardinality(CallsOf(p)) < cast.overlap /\ page[p].loaded
  /\ (h = None /\ FreshHosts # {}) \/ h \in Shown(p)
  /\ page' = [page EXCEPT ![p].form = [edit |-> h, saving |-> FALSE,
                 row |-> IF h = None THEN None ELSE page[p].hosts[h]]]
  /\ UNCHANGED <<cast, dbVars, call>>

CloseForm(p) ==
  /\ page[p].form # None /\ page' = [page EXCEPT ![p].form = None]
  /\ UNCHANGED <<cast, dbVars, call>>

(* labelError, against the list of the page. *)
CanSave(p, label) ==
  \A h \in Shown(p) \ {page[p].form.edit} : page[p].hosts[h].label # label

(* The body of a save: profile_json is the profile of the row with the     *)
(* look of the form, custom columns are left out.                          *)
FormBody(form, label, group, look) ==
  [label |-> label, group |-> group, legacy |-> IF form.edit = None THEN None ELSE form.row.legacy,
   profile |-> [(IF form.edit = None THEN NoProfile ELSE form.row.profile) EXCEPT !.look = look]]

HostCall(form, body) ==
  IF form.edit = None THEN <<"postHost", body>>
  ELSE <<"putHost", [host |-> form.edit, from |-> "form",
                     body |-> [label |-> body.label, group |-> body.group,
                               profile |-> body.profile]]>>

(* save: a group typed into the form is created first. *)
Save(p, s) ==
  /\ page[p].form # None /\ ~page[p].form.saving
  /\ \E label \in Labels, look \in Looks, g \in Range(GroupIds(p)) \cup {None},
        n \in GroupNames \cup {None} :
       LET form == page[p].form  body == FormBody(form, label, g, look)
           hc == HostCall(form, body)
       IN
       /\ CanSave(p, label)
       /\ form.edit = None => FreshHosts # {}
       /\ \/ n = None /\ Ask(p, s, hc[1], hc[2])
          \/ /\ n # None /\ g = None /\ Does("groups") /\ FreshGroups # {}
             /\ Ask(p, s, "postGroup", [name |-> n, next |-> [form |-> form, body |-> body]])
  /\ page' = [page EXCEPT ![p].form.saving = TRUE]
  /\ UNCHANGED <<cast, dbVars>>

-----------------------------------------------------------------------------
(* The page: the answers.                                                  *)

Put(p, id, row) == [page EXCEPT ![p].hosts[id] = row]
SetGroup(list, ids, g) ==
  [h \in Hosts |-> IF h \in ids /\ list[h] # None THEN [list[h] EXCEPT !.group = g]
                   ELSE list[h]]

FirstOf(list) == {h \in Rows(list) : \A x \in Rows(list) : list[h].order <= list[x].order}

(* fetchHosts: the groups are fetched while the page has none. *)
GotHosts(s) ==
  LET p == call[s].page  list == call[s].body IN
  /\ Answered(s, "getHosts")
  /\ \E h \in IF page[p].selected # None \/ Rows(list) = {} THEN {page[p].selected}
             ELSE FirstOf(list) :
       page' = [page EXCEPT ![p].hosts = list, ![p].loaded = TRUE, ![p].selected = h]
  /\ IF page[p].groups = <<>> THEN Then(s, "getGroups", None) ELSE End(s)
  /\ UNCHANGED <<cast, dbVars>>

GotGroups(s) ==
  /\ Answered(s, "getGroups") /\ End(s)
  /\ page' = [page EXCEPT ![call[s].page].groups = call[s].body]
  /\ UNCHANGED <<cast, dbVars>>

(* createHost, updateHost from the form, then onHostSaved; a refused save  *)
(* leaves the form open.                                                   *)
FormSaved(s) ==
  LET p == call[s].page  ans == call[s].body IN
  /\ Answered(s, "postHost") \/ (Answered(s, "putHost") /\ call[s].arg.from = "form")
  /\ \/ /\ OkCode(s) /\ ThenFetch(s)
        /\ page' = [page EXCEPT ![p].form = None, ![p].hosts =
             IF call[s].op = "postHost" \/ ans.id \in Shown(p)
               THEN [@ EXCEPT ![ans.id] = ans.row] ELSE @]
     \/ /\ ~OkCode(s) /\ End(s)
        /\ page' = [page EXCEPT ![p].form = IF @ = None THEN None ELSE [@ EXCEPT !.saving = FALSE]]
  /\ UNCHANGED <<cast, dbVars>>

(* moveHostToGroup; only the drop fetches the list again. *)
HostMoved(s) ==
  LET p == call[s].page  a == call[s].arg IN
  /\ Answered(s, "putHost") /\ a.from # "form"
  /\ IF a.from = "drop" THEN ThenFetch(s) ELSE End(s)
  /\ page' = IF OkCode(s)
               THEN [page EXCEPT ![p].hosts = SetGroup(@, {a.host}, a.body.group)] ELSE page
  /\ UNCHANGED <<cast, dbVars>>

(* reorderHosts changes the list whatever the answer. *)
HostsOrdered(s) ==
  LET p == call[s].page  a == call[s].arg
      Place(h) == (CHOOSE i \in DOMAIN a.ids : a.ids[i] = h) - 1
  IN
  /\ Answered(s, "orderHosts") /\ ThenFetch(s)
  /\ page' = [page EXCEPT ![p].hosts = [h \in Hosts |->
       IF h \in Range(a.ids) /\ @[h] # None
         THEN [@[h] EXCEPT !.order = Place(h), !.group = a.group] ELSE @[h]]]
  /\ UNCHANGED <<cast, dbVars>>

HostDeleted(s) ==
  LET p == call[s].page  h == call[s].arg  left == Shown(p) \ {h} IN
  /\ Answered(s, "deleteHost")
  /\ \/ /\ OkCode(s) /\ ThenFetch(s)
        /\ \E x \in IF page[p].selected # h THEN {page[p].selected}
                   ELSE IF left = {} THEN {None} ELSE left :
             page' = [page EXCEPT ![p].hosts[h] = None, ![p].selected = x]
     \/ ~OkCode(s) /\ End(s) /\ UNCHANGED page
  /\ UNCHANGED <<cast, dbVars>>

HostDuplicated(s) ==
  /\ Answered(s, "duplicate") /\ ThenFetch(s)
  /\ page' = IF OkCode(s) THEN Put(call[s].page, call[s].body.id, call[s].body.row) ELSE page
  /\ UNCHANGED <<cast, dbVars>>

HostsImported(s) ==
  /\ Answered(s, "import") /\ UNCHANGED <<cast, dbVars, page>>
  /\ IF OkCode(s) THEN ThenFetch(s) ELSE End(s)

(* createHostGroup, for the rail or for the form that waits for its id. *)
GroupMade(s) ==
  LET p == call[s].page  a == call[s].arg  ok == OkCode(s) IN
  /\ Answered(s, "postGroup")
  /\ page' = IF ok THEN [page EXCEPT ![p].groups =
                           Append(@, [id |-> call[s].body, name |-> a.name])] ELSE page
  /\ IF a.next = None THEN ThenFetch(s)
     ELSE LET hc == HostCall(a.next.form, IF ok THEN [a.next.body EXCEPT !.group = call[s].body]
                                          ELSE a.next.body)
          IN Then(s, hc[1], hc[2])
  /\ UNCHANGED <<cast, dbVars>>

GroupRenamed(s) ==
  LET a == call[s].arg IN
  /\ Answered(s, "putGroup") /\ End(s)
  /\ page' = IF ~OkCode(s) THEN page
             ELSE [page EXCEPT ![call[s].page].groups =
                     [i \in DOMAIN @ |-> IF @[i].id = a.group THEN [@[i] EXCEPT !.name = a.name]
                                         ELSE @[i]]]
  /\ UNCHANGED <<cast, dbVars>>

WithGroupKept(list, g) == list
WithoutGroup(list, g) == SelectSeq(list, LAMBDA x : x.id # g)
GroupDeleted(s) ==
  LET p == call[s].page  g == call[s].arg IN
  /\ Answered(s, "deleteGroup") /\ ThenFetch(s)
  /\ page' = IF ~OkCode(s) THEN page
             ELSE [page EXCEPT ![p].groups = WithoutGroup(@, g),
                    ![p].hosts = SetGroup(@, {h \in Shown(p) : page[p].hosts[h].group = g}, None)]
  /\ UNCHANGED <<cast, dbVars>>

GroupsOrdered(s) ==
  /\ Answered(s, "orderGroups") /\ End(s)
  /\ page' = IF OkCode(s) THEN page
             ELSE [page EXCEPT ![call[s].page].groups = call[s].arg.undo]
  /\ UNCHANGED <<cast, dbVars>>

(* The connection fails before or after the hub has handled the request:   *)
(* the promise rejects and nothing is undone.                              *)
CallLost(s) ==
  LET p == call[s].page IN
  /\ Does("lose") /\ call[s] # None /\ End(s)
  /\ page' = [page EXCEPT ![p].form = IF @ = None THEN None ELSE [@ EXCEPT !.saving = FALSE]]
  /\ UNCHANGED <<cast, dbVars>>

-----------------------------------------------------------------------------
HubHandles(s) ==
  \/ GetHosts(s) \/ PostHost(s) \/ PutHost(s) \/ DeleteHost(s) \/ DuplicateHost(s)
  \/ OrderHosts(s) \/ ImportHosts(s)
  \/ GetGroups(s) \/ PostGroup(s) \/ PutGroup(s) \/ DeleteGroup(s) \/ OrderGroups(s)
PageGets(s) ==
  \/ GotHosts(s) \/ GotGroups(s) \/ FormSaved(s) \/ HostMoved(s) \/ HostsOrdered(s)
  \/ HostDeleted(s) \/ HostDuplicated(s) \/ HostsImported(s) \/ GroupMade(s)
  \/ GroupRenamed(s) \/ GroupDeleted(s) \/ GroupsOrdered(s) \/ CallLost(s)
UserDoes(p, s) ==
  \/ FetchHosts(p, s) \/ OnImport(p, s) \/ Save(p, s)
  \/ \E h \in Hosts : OnDelete(p, s, h) \/ OnDuplicate(p, s, h)
  \/ \E h \in Hosts, g \in Groups \cup {None} : MoveHostToGroup(p, s, h, g) \/ DropHost(p, s, h, g)
  \/ \E n \in GroupNames : OnCreateGroup(p, s, n) \/ \E g \in Groups : OnRenameGroup(p, s, g, n)
  \/ \E g \in Groups : OnDeleteGroup(p, s, g)
  \/ \E i, j \in 1 .. Cardinality(Groups) : ReorderGroups(p, s, i, j)

CatStep ==
  \/ \E s \in Slots : HubHandles(s) \/ PageGets(s) \/ \E p \in cast.pages : UserDoes(p, s)
  \/ \E p \in Pages : CloseForm(p) \/ \E h \in Hosts \cup {None} : OpenForm(p, h)
  \/ \E h \in Hosts : HostIsUsed(h)

-----------------------------------------------------------------------------
(* The user of one page who waits for every answer. *)
Alone == Cardinality(cast.pages) = 1 /\ cast.overlap = 1 /\ ~Does("lose") /\ ~Does("restart")

CatTypeOK ==
  /\ cast \in Casts
  /\ hosts \in [Hosts -> HostRow \cup {None}]
  /\ groups \in [Groups -> GroupRow \cup {None}]
  /\ depends \in [Hosts -> SUBSET {"session", "channel", "cache", "chgroup"}]
  /\ given \subseteq Hosts \cup Groups

(* host-groups.ts, the comment on the order route: an order that leaves    *)
(* groups out "leaves omitted groups with duplicate sort_order values,     *)
(* breaking ordering invariants".  Groups are created, deleted, reordered  *)
(* by pages with old lists and made by the migration at a start, and no    *)
(* two ever have the same place.                                           *)
GroupOrder ==
  \A g, k \in Rows(groups) : groups[g].order = groups[k].order => g = k

(* The same page, when nothing is under way, shows the database: its list  *)
(* of groups is fetched once and then kept up by its own edits.            *)
PageAgrees ==
  Alone => \A p \in cast.pages : page[p].loaded /\ CallsOf(p) = {} =>
     /\ page[p].hosts = hosts
     /\ GroupIds(p) = GroupList
     /\ \A i \in DOMAIN page[p].groups :
           page[p].groups[i].name = groups[page[p].groups[i].id].name

=============================================================================
