--------------------------- MODULE LaunchProfiles ---------------------------
(***************************************************************************)
(* Launch profiles (launch-profiles-dal.ts behind launch-profiles.ts and   *)
(* host-profiles.ts), the overrides of single hosts, what a start of the   *)
(* hub and an agent's HELLO add to them, and the list, form and menu of a  *)
(* page (stores/profiles.ts, ProfilesSettings, ProfileForm,                *)
(* HostOverridesTable, ProfileDropdown).  An answer shows a mask for the   *)
(* values of sensitive variables, and a save that sends the mask back      *)
(* means the stored value.                                                 *)
(***************************************************************************)
EXTENDS HostCatalog

CONSTANTS Profiles,            \* ids, each given out once
          Shells,              \* names of profiles: the shell's base name
          Vars, Sensitive,     \* environment variables; ENV_MASK_RE
          Values, Mask         \* ENV_SENTINEL

ASSUME LaunchAssumption ==
  /\ IsFiniteSet(Profiles) /\ None \notin Profiles /\ IsFiniteSet(Shells) /\ Shells # {}
  /\ Sensitive \subseteq Vars /\ {Mask, None} \cap Values = {} /\ Mask # None

VARIABLES launches,   \* table launch_profiles
          issued,     \* ids given out
          overrides,  \* table host_launch_profiles
          dropped,    \* variables saves have removed, or named like a masked one, for SecretKept
          shelf       \* what each page keeps of them

tableVars == <<launches, issued, overrides, dropped>>
launchVars == <<tableVars, shelf>>

NoEnv == [v \in Vars |-> None]
Systems == {"any", "linux"}
LaunchRow == [name : Shells, env : [Vars -> Values \cup {Mask, None}], os : Systems, order : Nat]
Kinds == {"pin", "hide", "default"}

LaunchInit ==
  /\ launches = [i \in Profiles |-> None] /\ issued = {} /\ dropped = {}
  /\ overrides = [h \in Hosts |-> [i \in Profiles |-> None]]
  /\ shelf = [p \in Pages |-> [list |-> <<>>, loaded |-> FALSE, form |-> None, menu |-> None]]

-----------------------------------------------------------------------------
(* The tables: the name is UNIQUE, an override goes with its host and its  *)
(* profile (ON DELETE CASCADE), and a host has one default.                *)

Named(table, n) == {i \in Rows(table) : table[i].name = n}
FreshProfiles == AnId(Profiles, issued)
LaunchLists ==
  {f \in Injection(1 .. Cardinality(Rows(launches)), Rows(launches)) :
     \A j, k \in DOMAIN f : j < k => launches[f[j]].order <= launches[f[k]].order}
AddRow(table, i, n, env, os, order) ==
  [table EXCEPT ![i] = [name |-> n, env |-> env, os |-> os, order |-> order]]

(* listHostProfiles: pinned ones, and those for the system not hidden. *)
Visible(table, over, h, os) ==
  {i \in Rows(table) : \/ over[h][i] \in {"pin", "default"}
                       \/ table[i].os \in {"any", os} /\ over[h][i] # "hide"}

UpsertHostProfileOverride(over, h, i, kind) ==
  [over EXCEPT ![h] = [j \in Profiles |->
     IF j = i THEN kind ELSE IF kind = "default" /\ @[j] = "default" THEN None ELSE @[j]]]

(* What an answer shows, and what a save that sends it back stores. *)
MaskEnv(env) == [v \in Vars |-> IF env[v] # None /\ v \in Sensitive THEN Mask ELSE env[v]]
ProfileToWire(table, i) == [id |-> i, name |-> table[i].name, env |-> MaskEnv(table[i].env)]
MergeNothing(env, old) == env
MergedEnv(env, old) ==
  [v \in Vars |-> IF env[v] = Mask /\ old[v] # None THEN old[v] ELSE env[v]]

(* Profiles made for shells, in order, unless their name is taken. *)
Missing(names) == {k \in DOMAIN names : Named(launches, names[k]) = {}}
IdsFor(names) == Injection(Missing(names), Profiles \ issued)
SeedNames(names, ids, os) ==
  [i \in Profiles |->
     IF i \in Range(ids)
       THEN LET k == CHOOSE k \in DOMAIN ids : ids[k] = i
            IN [name |-> names[k], env |-> NoEnv, os |-> os, order |-> k - 1]
       ELSE launches[i]]

-----------------------------------------------------------------------------
(* Handlers of the hub.                                                    *)

Denied(s, code) == Reply(s, code, None) /\ UNCHANGED tableVars

GetLaunches(s) ==
  /\ Waits(s, "getLaunches") /\ UNCHANGED tableVars
  /\ \E list \in LaunchLists :
       Reply(s, 200, [k \in DOMAIN list |-> ProfileToWire(launches, list[k])])

PostLaunch(s) ==
  LET b == call[s].arg IN
  /\ Waits(s, "postLaunch")
  /\ \/ Named(launches, b.name) # {} /\ Denied(s, 409)
     \/ /\ Named(launches, b.name) = {} /\ UNCHANGED <<overrides, dropped>>
        /\ \E i \in FreshProfiles :
             /\ launches' = AddRow(launches, i, b.name, b.env, "any", 0)
             /\ issued' = issued \cup {i} /\ Reply(s, 201, ProfileToWire(launches', i))

(* A form without variables sends no env, which leaves the stored one. *)
SavedRow(row, b) ==
  [row EXCEPT !.name = b.name, !.env = IF b.env = NoEnv THEN @ ELSE MergedEnv(b.env, @)]
PutLaunch(s) ==
  LET b == call[s].arg  i == b.id  old == launches[i] IN
  /\ Waits(s, "putLaunch")
  /\ \/ i \notin Rows(launches) /\ Denied(s, 404)
     \/ i \in Rows(launches) /\ Named(launches, b.name) \ {i} # {} /\ Denied(s, 409)
     \/ /\ i \in Rows(launches) /\ Named(launches, b.name) \ {i} = {}
        /\ launches' = [launches EXCEPT ![i] = SavedRow(old, b)]
        /\ dropped' = dropped \cup
             {<<i, v>> : v \in {w \in Vars : IF old.env[w] # None THEN launches'[i].env[w] = None
                                            ELSE w \in b.moved}}
        /\ Reply(s, 200, ProfileToWire(launches', i)) /\ UNCHANGED <<issued, overrides>>

DeleteLaunch(s) ==
  LET i == call[s].arg IN
  /\ Waits(s, "deleteLaunch")
  /\ \/ Cardinality(Rows(launches)) = 1 /\ Denied(s, 400)
     \/ Cardinality(Rows(launches)) # 1 /\ i \notin Rows(launches) /\ Denied(s, 404)
     \/ /\ Cardinality(Rows(launches)) # 1 /\ i \in Rows(launches)
        /\ launches' = [launches EXCEPT ![i] = None]
        /\ overrides' = [h \in Hosts |-> [overrides[h] EXCEPT ![i] = None]]
        /\ Reply(s, 204, None) /\ UNCHANGED <<issued, dropped>>

(* Any list of ids: the ones it leaves out keep their place. *)
OrderLaunches(s) ==
  LET ids == call[s].arg IN
  /\ Waits(s, "orderLaunches") /\ Reply(s, 204, None)
  /\ launches' = [i \in Profiles |->
       IF i \in Rows(launches) /\ i \in Range(ids)
         THEN [launches[i] EXCEPT !.order = (CHOOSE k \in DOMAIN ids : ids[k] = i) - 1]
         ELSE launches[i]]
  /\ UNCHANGED <<issued, overrides, dropped>>

GetHostProfiles(s) ==
  LET h == call[s].arg IN
  /\ Waits(s, "menu") /\ UNCHANGED tableVars
  /\ IF h \notin Rows(hosts) THEN Reply(s, 404, None)
     ELSE \E os \in Systems : Reply(s, 200, Visible(launches, overrides, h, os))

(* The page sends {overrideType}; the handler reads override_type. *)
PutOverride(s) ==
  LET a == call[s].arg IN
  /\ Waits(s, "putOverride")
  /\ Denied(s, IF a.host \in Rows(hosts) /\ a.id \in Rows(launches) THEN 400 ELSE 404)
DeleteOverride(s) ==
  LET a == call[s].arg IN
  /\ Waits(s, "deleteOverride")
  /\ \/ overrides[a.host][a.id] = None /\ Denied(s, 404)
     \/ /\ overrides[a.host][a.id] # None /\ Reply(s, 204, None)
        /\ overrides' = [overrides EXCEPT ![a.host][a.id] = None]
        /\ UNCHANGED <<launches, issued, dropped>>

(* The part of a SPAWN that picks the environment: the profile named, and  *)
(* without it the first one of the host.                                   *)
FirstVisible(h, os) ==
  LET seen == Visible(launches, overrides, h, os)
      def == {i \in seen : overrides[h][i] = "default"}
      first == IF def # {} THEN def ELSE seen
  IN {i \in first : \A j \in first : launches[i].order <= launches[j].order}
ResolveLaunch(s) ==
  LET a == call[s].arg IN
  /\ Waits(s, "spawn") /\ UNCHANGED tableVars
  /\ \/ a.id \in Rows(launches) /\ Reply(s, 200, launches[a.id].env)
     \/ /\ a.id \notin Rows(launches)
        /\ \E os \in Systems :
             \/ FirstVisible(a.host, os) = {} /\ Reply(s, 200, NoEnv)
             \/ \E i \in FirstVisible(a.host, os) : Reply(s, 200, launches[i].env)

-----------------------------------------------------------------------------
(* What the hub adds by itself.                                            *)

(* seedRemoteShellProfiles, at the HELLO of an agent: profiles for its     *)
(* shells, pinned unless they are visible, and its default shell as the    *)
(* default.  A host deleted under its session fails at the first override, *)
(* when a profile may have been made.                                      *)
NamesToSeed(h, os, names) ==
  LET stop == {k \in DOMAIN names :
                 Named(launches, names[k]) \cap Visible(launches, overrides, h, os) = {}}
  IN IF h \in Rows(hosts) THEN names
     ELSE Restrict(names, {k \in DOMAIN names : \A j \in stop : k <= j})
Pin(h, os, names, def, table) ==
  LET mine == {i \in Rows(table) : table[i].name \in Range(names)}
      pins == mine \ Visible(launches, overrides, h, os)
      over == [overrides EXCEPT ![h] =
                 [i \in Profiles |-> IF i \in pins THEN "pin" ELSE overrides[h][i]]]
      d == {i \in mine : table[i].name = def}
  IN IF d = {} THEN over
     ELSE UpsertHostProfileOverride(over, h, CHOOSE i \in d : TRUE, "default")
SeedShells(h, os, names, def) ==
  LET todo == NamesToSeed(h, os, names)
      ids == CHOOSE f \in IdsFor(todo) : TRUE
  IN
  /\ IdsFor(todo) # {} /\ UNCHANGED dropped
  /\ launches' = SeedNames(todo, ids, os) /\ issued' = issued \cup Range(ids)
  /\ overrides' = IF h \in Rows(hosts) THEN Pin(h, os, names, def, launches') ELSE overrides
SeedRemote(h) ==
  /\ Does("hello") /\ h \in given
  /\ \E n \in 1 .. Cardinality(Shells), os \in Systems :
     \E names \in Injection(1 .. n, Shells) :
     \E def \in Range(names) \cup {None} : SeedShells(h, os, names, def)

(* A start of the hub with an empty table: migrateLegacyShellDefaults      *)
(* makes the shells stored with the hosts their defaults, and a profile of *)
(* the shell in config.toml; if there are none seedShellProfiles adds the  *)
(* shells of this machine.                                                 *)
SeedAtStart ==
  \/ Rows(launches) # {} /\ UNCHANGED tableVars
  \/ /\ Rows(launches) = {}
     /\ \E of \in [Rows(hosts) -> Shells \cup {None}], global \in Shells \cup {None} :
        LET old == (Range(of) \cup {global}) \ {None} IN
        \E names \in SetToSeqs(IF old # {} THEN old ELSE Shells) :
          LET ids == CHOOSE f \in IdsFor(names) : TRUE
              done == SeedNames(names, ids, IF old # {} THEN "any" ELSE "linux")
          IN /\ IdsFor(names) # {} /\ UNCHANGED dropped
             /\ launches' = done /\ issued' = issued \cup Range(ids)
             /\ overrides' = [h \in Hosts |-> [i \in Profiles |->
                  IF h \in Rows(hosts) /\ i \in Rows(done) /\ done[i].name = of[h]
                    THEN "default" ELSE overrides[h][i]]]

Start ==
  /\ MigrateHostGroupData /\ SeedAtStart /\ UNCHANGED shelf

(* importWindowsTerminalProfiles: the names not taken, after the rest. *)
ImportTerminalProfiles ==
  /\ Does("wt") /\ UNCHANGED <<cast, dbVars, page, call, overrides, dropped, shelf>>
  /\ \E n \in Shells, i \in FreshProfiles :
       /\ Named(launches, n) = {} /\ issued' = issued \cup {i}
       /\ launches' = AddRow(launches, i, n, NoEnv, "any", Cardinality(Rows(launches)))

-----------------------------------------------------------------------------
(* The page.                                                               *)

TablesKept == UNCHANGED <<cast, dbVars, page, tableVars>>
AskLaunch(p, s, op, arg) ==
  /\ Ask(p, s, op, arg) /\ TablesKept

OpenProfiles(p, s) ==
  /\ Does("reload") \/ (Does("launch") /\ ~shelf[p].loaded)
  /\ shelf[p].form = None /\ AskLaunch(p, s, "getLaunches", None) /\ UNCHANGED shelf

OpenLaunchForm(p) ==
  /\ Does("launch") /\ shelf[p].loaded /\ shelf[p].form = None
  /\ Cardinality(CallsOf(p)) < cast.overlap
  /\ \E row \in Range(shelf[p].list) \cup {[id |-> None, name |-> None, env |-> NoEnv]} :
       shelf' = [shelf EXCEPT ![p].form = [row |-> row, saving |-> 0]]
  /\ UNCHANGED <<cast, dbVars, page, call, tableVars>>
CancelLaunchForm(p) ==
  /\ shelf[p].form # None /\ shelf' = [shelf EXCEPT ![p].form = None]
  /\ UNCHANGED <<cast, dbVars, page, call, tableVars>>

(* buildEnvRecord: the entries of the form as they were, set anew and, by  *)
(* a user who does so, removed or given another name; of two with the same *)
(* name one counts.                                                        *)
Renamings == IF Does("rekey") THEN [Vars -> Vars] ELSE {[v \in Vars |-> v]}
FormEnvs(env) ==
  UNION {{e \in [Vars -> Values \cup {Mask, None}] :
            \A v \in Vars : LET mine == {w \in Vars : f[w] = v /\ env[w] # None} IN
              \/ e[v] \in Values
              \/ \E w \in mine : e[v] = env[w]
              \/ e[v] = None /\ (mine = {} \/ Does("unset"))} : f \in Renamings}
Moved(env, row) == {v \in Vars : env[v] = Mask /\ row.env[v] # Mask}
AName == CHOOSE n \in Shells : TRUE
FormNames(row) ==
  IF Does("rename") THEN Shells ELSE IF row.id = None THEN {AName} ELSE {row.name}
HandleSave(p, s) ==
  LET row == shelf[p].form.row IN
  /\ Does("save") /\ shelf[p].form # None /\ shelf[p].form.saving = 0
  /\ \E name \in FormNames(row), env \in FormEnvs(row.env) :
       IF row.id = None
         THEN Cardinality(issued) < cast.made /\ AskLaunch(p, s, "postLaunch", [name |-> name, env |-> env])
         ELSE AskLaunch(p, s, "putLaunch", [id |-> row.id, name |-> name, env |-> env,
                                            moved |-> Moved(env, row)])
  /\ shelf' = [shelf EXCEPT ![p].form.saving = s]

ListIds(p) == [k \in DOMAIN shelf[p].list |-> shelf[p].list[k].id]
DoDelete(p, s) ==
  /\ Does("prune") /\ shelf[p].form = None
  /\ \E i \in Range(ListIds(p)) : AskLaunch(p, s, "deleteLaunch", i)
  /\ UNCHANGED shelf
MoveUp(p, s) ==
  /\ Does("prune") /\ shelf[p].form = None
  /\ \E k \in 2 .. Len(shelf[p].list) :
       LET list == shelf[p].list
           new == [list EXCEPT ![k] = list[k - 1], ![k - 1] = list[k]]
       IN /\ shelf' = [shelf EXCEPT ![p].list = new]
          /\ AskLaunch(p, s, "orderLaunches", [j \in DOMAIN new |-> new[j].id])
OpenMenu(p, s, h) ==
  /\ Does("menu") /\ shelf[p].form = None /\ h \in given /\ AskLaunch(p, s, "menu", h)
  /\ shelf' = [shelf EXCEPT ![p].menu = None]
OnProfileClick(p, s, h) ==
  /\ shelf[p].menu # None /\ h \in Rows(hosts)
  /\ \E i \in shelf[p].menu : AskLaunch(p, s, "spawn", [id |-> i, host |-> h])
  /\ shelf' = [shelf EXCEPT ![p].menu = None]
HandleOverrideChange(p, s, h) ==
  /\ Does("prune") /\ shelf[p].form # None /\ shelf[p].form.row.id # None /\ h \in given
  /\ \E op \in {"putOverride", "deleteOverride"} :
       AskLaunch(p, s, op, [host |-> h, id |-> shelf[p].form.row.id])
  /\ UNCHANGED shelf

GotLaunches(s) ==
  /\ Answered(s, "getLaunches") /\ End(s) /\ TablesKept
  /\ shelf' = [shelf EXCEPT ![call[s].page].list = call[s].body, ![call[s].page].loaded = TRUE]
LaunchSaved(s) ==
  LET p == call[s].page  new == call[s].body IN
  /\ (Answered(s, "postLaunch") \/ Answered(s, "putLaunch")) /\ End(s) /\ TablesKept
  /\ shelf' = [shelf EXCEPT
       ![p].form = IF @ = None \/ @.saving # s THEN @
                   ELSE IF OkCode(s) THEN None ELSE [@ EXCEPT !.saving = 0],
       ![p].list = IF ~OkCode(s) THEN @
                   ELSE IF call[s].op = "postLaunch" THEN Append(@, new)
                   ELSE [k \in DOMAIN @ |-> IF @[k].id = new.id THEN new ELSE @[k]]]
(* The rows of a list that are not profile i, in their order. *)
ListWithout(list, i) ==
  LET stay == {k \in DOMAIN list : list[k].id # i}  n == Cardinality(stay) IN
  {[k \in 1 .. n |-> list[f[k]]] :
     f \in {g \in [1 .. n -> stay] : \A j, k \in 1 .. n : j < k => g[j] < g[k]}}
LaunchDeleted(s) ==
  LET p == call[s].page IN
  /\ Answered(s, "deleteLaunch") /\ End(s) /\ TablesKept
  /\ IF OkCode(s) THEN \E list \in ListWithout(shelf[p].list, call[s].arg) :
                          shelf' = [shelf EXCEPT ![p].list = list]
     ELSE UNCHANGED shelf
GotMenu(s) ==
  /\ Answered(s, "menu") /\ End(s) /\ TablesKept
  /\ shelf' = [shelf EXCEPT ![call[s].page].menu = IF OkCode(s) THEN call[s].body ELSE None]
NothingMore(s) ==
  /\ \E op \in {"orderLaunches", "putOverride", "deleteOverride", "spawn"} : Answered(s, op)
  /\ End(s) /\ TablesKept /\ UNCHANGED shelf

-----------------------------------------------------------------------------
(* Deleting a host deletes its overrides; a lost save leaves its form.     *)
Cascaded ==
  overrides' = [h \in Hosts |-> IF hosts[h] # None /\ hosts'[h] = None
                                  THEN [i \in Profiles |-> None] ELSE overrides[h]]
FreedForms ==
  shelf' = [p \in Pages |->
     IF shelf[p].form # None /\ shelf[p].form.saving # 0 /\ call'[shelf[p].form.saving] = None
       THEN [shelf[p] EXCEPT !.form.saving = 0] ELSE shelf[p]]

LaunchHandles(s) ==
  /\ UNCHANGED <<cast, dbVars, page, shelf>>
  /\ \/ GetLaunches(s) \/ PostLaunch(s) \/ PutLaunch(s) \/ DeleteLaunch(s)
     \/ OrderLaunches(s) \/ GetHostProfiles(s) \/ PutOverride(s) \/ DeleteOverride(s)
     \/ ResolveLaunch(s)
LaunchUser(p, s) ==
  \/ OpenProfiles(p, s) \/ HandleSave(p, s) \/ DoDelete(p, s) \/ MoveUp(p, s)
  \/ \E h \in Hosts : \/ OpenMenu(p, s, h) \/ OnProfileClick(p, s, h)
                      \/ HandleOverrideChange(p, s, h)
LaunchStep ==
  \/ \E s \in Slots : \/ LaunchHandles(s) \/ GotLaunches(s) \/ LaunchSaved(s)
                      \/ LaunchDeleted(s) \/ GotMenu(s) \/ NothingMore(s)
                      \/ \E p \in cast.pages : LaunchUser(p, s)
  \/ \E p \in Pages : OpenLaunchForm(p) \/ CancelLaunchForm(p)
  \/ (\E h \in Hosts : SeedRemote(h)) /\ UNCHANGED <<cast, dbVars, page, call, shelf>>
  \/ ImportTerminalProfiles

-----------------------------------------------------------------------------
LaunchTypeOK ==
  /\ launches \in [Profiles -> LaunchRow \cup {None}]
  /\ overrides \in [Hosts -> [Profiles -> Kinds \cup {None}]]
  /\ issued \subseteq Profiles

(* The mask an answer shows becomes a value of a variable, in the table or *)
(* in the environment of a shell that is started, only if a save has       *)
(* removed this variable, or a form gave a masked variable this name when  *)
(* the profile had none of it: whatever saves of several pages with old    *)
(* lists and forms interleave, a mask that is sent back otherwise finds    *)
(* the value it stands for.                                                *)
SecretKept ==
  /\ \A i \in Rows(launches), v \in Vars : launches[i].env[v] = Mask => <<i, v>> \in dropped
  /\ \A s \in Slots, v \in Vars :
       Answered(s, "spawn") /\ call[s].body[v] = Mask => \E i \in Profiles : <<i, v>> \in dropped

=============================================================================
