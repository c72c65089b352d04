-------------------------- MODULE TerminalSettings --------------------------
(***************************************************************************)
(* Settings: config.toml and the hub's copy of it (config.ts), the layers  *)
(* of a host and of a channel, the handlers of api/config.ts; the settings *)
(* panel of a page with its delayed writes (stores/settings.ts), the       *)
(* page's own copies (stores/config.ts) and the profile each terminal      *)
(* shows (useResolvedProfile.ts).  One key stands for every section.       *)
(***************************************************************************)
EXTENDS LaunchProfiles

CONSTANTS Channels, HostOf,    \* the host of each channel
          Default,   \* DEFAULT_PROFILE, DEFAULT_UI_CONFIG, ...
          Bad,                 \* a value the file has and no extract function takes
          Absent,              \* no [terminal] section; no profile_json
          Tokens

ASSUME SettingsAssumption ==
  Default \in Vals /\ {Bad, Absent, None} \cap Vals = {} /\ None \notin Channels
  /\ HostOf \in [Channels -> Hosts]

VARIABLES toml,    \* the file
          mem,     \* ConfigResolver: fileConfig, _uiConfig, _appearance, _elevation
          layer4,  \* profile_json of the channels
          panel,   \* stores/settings.ts
          base,    \* stores/config.ts: uiConfig and the global profile
          view,    \* the terminal each page shows, and its profile
          login    \* the token of each page

fileVars == <<toml, mem, layer4>>
settingsVars == <<fileVars, panel, base, view, login>>

Sections == {"terminal", "ui", "appearance", "elevation"}
Keys == {<<"global", sec>> : sec \in Sections} \cup {<<"host", "terminal">>, <<"channel", "terminal">>}
Edits(key) == Does(IF key[1] = "host" THEN "layer3" ELSE IF key[1] = "channel" THEN "layer4"
                   ELSE key[2])
HostFor(c) == IF c = None THEN None ELSE HostOf[c]

-----------------------------------------------------------------------------
(* config.ts.                                                              *)

(* Each section is read with the default for what is missing or wrong,     *)
(* but [terminal] is taken as it is, and kept when the section is gone.    *)
ExtractTerminal(raw, old) == IF raw = Absent THEN old ELSE raw
ExtractUiConfig(raw) == IF raw \in Vals THEN raw ELSE Default
ExtractAppearanceConfig(raw) == IF raw \in Vals THEN raw ELSE Default
ExtractElevationConfig(raw) == IF raw \in Vals THEN raw ELSE Default
LoadFromFile(file, old) ==
  [terminal |-> ExtractTerminal(file["terminal"], old.terminal),
   ui |-> ExtractUiConfig(file["ui"]),
   appearance |-> ExtractAppearanceConfig(file["appearance"]),
   elevation |-> ExtractElevationConfig(file["elevation"])]

NothingLoaded == [terminal |-> None, ui |-> Default, appearance |-> Default,
                  elevation |-> Default]
SettingsInit ==
  /\ toml = [sec \in Sections |-> IF sec = "terminal" THEN Absent ELSE None]
  /\ mem = NothingLoaded /\ layer4 = [c \in Channels |-> Absent]
  /\ panel = [p \in Pages |-> [open |-> FALSE, chan |-> None, cascade |-> None,
                               pending |-> <<>>]]
  /\ base = [p \in Pages |-> [ui |-> Default, profile |-> Default]]
  /\ view = [p \in Pages |-> [chan |-> None, seq |-> 0, profile |-> Default,
                              for |-> None, token |-> None, missed |-> FALSE,
                              ready |-> "desktop" \notin cast.does]]
  /\ \E t \in AnId(Tokens, {}) : login = [p \in Pages |-> t]

(* The layers, the last one that has the key wins. *)
HostLayer(h) == IF h \in Rows(hosts) THEN hosts[h].profile.term ELSE None
Over(layer, below) == IF layer \in {None, Absent} THEN below ELSE layer
Resolve(c) ==
  LET channel == IF c = None THEN None ELSE layer4[c] IN
  Over(channel, Over(HostLayer(HostFor(c)), Over(mem.terminal, Default)))

GetGlobalUiOverrides == IF mem.ui = Default THEN None ELSE mem.ui
GetCascade(c) ==
  [global |-> mem.terminal, host |-> HostLayer(HostFor(c)),
   channel |-> IF c = None THEN Absent ELSE layer4[c], resolved |-> Resolve(c),
   ui |-> GetGlobalUiOverrides, uiResolved |-> mem.ui,
   appearance |-> mem.appearance, elevation |-> mem.elevation]

(* saveGlobalKey: the file is read, edited, renamed into place and loaded. *)
SaveGlobalKey(sec, v) ==
  LET file == [toml EXCEPT ![sec] = IF v = None /\ @ = Absent THEN Absent ELSE v] IN
  toml' = file /\ mem' = LoadFromFile(file, mem)

-----------------------------------------------------------------------------
(* api/config.ts.                                                          *)

SettingsKept == UNCHANGED <<cast, dbVars, page, launchVars>>
PagesKept == UNCHANGED <<panel, base, view, login>>

GetConfigCascade(s) ==
  /\ Waits(s, "cascade") /\ Reply(s, 200, GetCascade(call[s].arg.chan))
  /\ SettingsKept /\ PagesKept /\ UNCHANGED fileVars
(* The hook of every request: a token that was revoked or has expired. *)
SettingOps == {"cascade", "getUi", "putTerminal", "putUi", "putAppearance", "putElevation",
               "patchHost", "patchChannel"}
Unauthorised(s) ==
  /\ Does("refuse") /\ (\E op \in SettingOps : Waits(s, op)) /\ Reply(s, 401, None)
  /\ SettingsKept /\ PagesKept /\ UNCHANGED fileVars
GetConfigUi(s) ==
  /\ Waits(s, "getUi") /\ Reply(s, 200, mem.ui)
  /\ SettingsKept /\ PagesKept /\ UNCHANGED fileVars

(* PUT /api/config/global: the keys are checked, not the values. *)
PutConfigGlobal(s) ==
  /\ Waits(s, "putTerminal") /\ SaveGlobalKey("terminal", call[s].arg.value)
  /\ Reply(s, 200, None) /\ SettingsKept /\ PagesKept /\ UNCHANGED layer4
PutConfigUi(s) ==
  LET v == call[s].arg.value IN
  /\ Waits(s, "putUi") /\ SettingsKept /\ PagesKept /\ UNCHANGED layer4
  /\ \/ v \notin Vals /\ Reply(s, 400, None) /\ UNCHANGED <<toml, mem>>
     \/ v \in Vals /\ SaveGlobalKey("ui", v) /\ Reply(s, 200, None)
PutConfigAppearance(s) ==
  /\ Waits(s, "putAppearance") /\ SaveGlobalKey("appearance", call[s].arg.value)
  /\ Reply(s, 200, None) /\ SettingsKept /\ PagesKept /\ UNCHANGED layer4
PutConfigElevation(s) ==
  LET v == call[s].arg.value IN
  /\ Waits(s, "putElevation") /\ SettingsKept /\ PagesKept /\ UNCHANGED layer4
  /\ \/ v \notin Vals /\ Reply(s, 400, None) /\ UNCHANGED <<toml, mem>>
     \/ v \in Vals /\ SaveGlobalKey("elevation", v) /\ Reply(s, 200, None)

(* PATCH of a profile_json: the keys given, merged; null deletes. *)
PatchHostProfile(s) ==
  LET h == HostFor(call[s].arg.chan) IN
  /\ Waits(s, "patchHost")
  /\ \/ h \notin Rows(hosts) /\ Reply(s, 404, None) /\ UNCHANGED hosts
     \/ /\ h \in Rows(hosts) /\ Reply(s, 200, None)
        /\ hosts' = [hosts EXCEPT ![h].profile.term = call[s].arg.value]
  /\ UNCHANGED <<cast, depends, groups, given, page, launchVars, fileVars>> /\ PagesKept
PatchChannelProfile(s) ==
  /\ Waits(s, "patchChannel") /\ Reply(s, 200, None)
  /\ layer4' = [layer4 EXCEPT ![call[s].arg.chan] = call[s].arg.value]
  /\ SettingsKept /\ PagesKept /\ UNCHANGED <<toml, mem>>

(* Someone edits the file; a start of the hub reads it. *)
FileIsEdited ==
  /\ Does("edit") /\ \E sec \in Sections \cap cast.does, v \in Vals \cup {Bad, None} :
                       toml' = [toml EXCEPT ![sec] = v]
  /\ UNCHANGED <<cast, dbVars, page, call, launchVars, mem, layer4, panel, base, view, login>>
LoadAtStart ==
  mem' = LoadFromFile(toml, NothingLoaded) /\ UNCHANGED <<toml, layer4, panel, base, view, login>>

-----------------------------------------------------------------------------
(* useResolvedProfile.ts.  missed: the newest load was refused, or a write *)
(* to a layer of this terminal was announced for another one since.        *)

FreeSlots(calls) == {s \in Slots : calls[s] = None}
ResetView(v) == [v EXCEPT !.profile = Default, !.for = None, !.token = None]
ReloadView(v, chan, token) ==
  LET n == [v EXCEPT !.chan = chan, !.seq = @ + 1, !.missed = FALSE] IN
  IF token = None \/ v.token # token \/ v.for # chan THEN ResetView(n) ELSE n

(* reload of v, the terminal of page p, whose other requests are calls; no *)
(* request before the desktop shell has told the port of the hub.          *)
Reload(p, v, chan, token, calls) ==
  /\ view' = [view EXCEPT ![p] = ReloadView(v, chan, token)]
  /\ IF token = None \/ ~v.ready THEN call' = calls
     ELSE /\ FreeSlots(calls) # {}
          /\ call' = [calls EXCEPT ![Min(FreeSlots(calls))] =
                Request(p, "cascade", [who |-> "view", chan |-> chan, token |-> token,
                                       seq |-> view'[p].seq])]

Bounded(p) == view[p].seq < cast.made
SelectTerminal(p, c) ==
  /\ Does("settings") /\ p \in cast.pages /\ c # view[p].chan /\ Bounded(p)
  /\ Reload(p, view[p], c, login[p], call)
  /\ SettingsKept /\ UNCHANGED <<fileVars, panel, base, login>>
TokenChanges(p, t) ==
  /\ Does("auth") /\ p \in cast.pages /\ t # login[p] /\ view[p].chan # None /\ Bounded(p)
  /\ login' = [login EXCEPT ![p] = t] /\ Reload(p, view[p], view[p].chan, t, call)
  /\ SettingsKept /\ UNCHANGED <<fileVars, panel, base>>

HubPortReady(p) ==
  /\ p \in cast.pages /\ ~view[p].ready
  /\ LET v == [view[p] EXCEPT !.ready = TRUE] IN
       IF v.chan # None THEN Reload(p, v, v.chan, login[p], call)
       ELSE view' = [view EXCEPT ![p] = v] /\ UNCHANGED call
  /\ SettingsKept /\ UNCHANGED <<fileVars, panel, base, login>>

(* An answer counts for the newest request of the same context and token. *)
IsCurrentAnySeq(p, a) == login[p] = a.token /\ view[p].chan = a.chan
IsCurrent(p, a) == a.seq = view[p].seq /\ login[p] = a.token /\ view[p].chan = a.chan
GotProfile(s) ==
  LET p == call[s].page  a == call[s].arg IN
  /\ Answered(s, "cascade") /\ a.who = "view" /\ End(s)
  /\ view' = IF ~IsCurrent(p, a) THEN view
             ELSE IF ~OkCode(s) THEN [view EXCEPT ![p].missed = TRUE]
             ELSE [view EXCEPT ![p].profile = call[s].body.resolved,
                               ![p].for = a.chan, ![p].token = a.token]
  /\ SettingsKept /\ UNCHANGED <<fileVars, panel, base, login>>

-----------------------------------------------------------------------------
(* SettingsPanel.vue and stores/settings.ts.                               *)

(* Without a token nothing is loaded, and the panel keeps its channel. *)
OpenPanel(p, s) ==
  /\ Does("settings") /\ ~panel[p].open /\ view[p].chan # None
  /\ IF login[p] = None \/ ~view[p].ready THEN UNCHANGED call
     ELSE Ask(p, s, "cascade", [who |-> "panel", chan |-> view[p].chan])
  /\ panel' = [panel EXCEPT ![p].open = TRUE,
                            ![p].chan = IF login[p] = None THEN @ ELSE view[p].chan]
  /\ SettingsKept /\ UNCHANGED <<fileVars, base, view, login>>
ClosePanel(p) ==
  /\ panel[p].open /\ panel' = [panel EXCEPT ![p].open = FALSE]
  /\ SettingsKept /\ UNCHANGED <<call, fileVars, base, view, login>>
GotCascade(s) ==
  /\ Answered(s, "cascade") /\ call[s].arg.who = "panel" /\ End(s)
  /\ panel' = [panel EXCEPT ![call[s].page].cascade = IF OkCode(s) THEN call[s].body ELSE @]
  /\ SettingsKept /\ UNCHANGED <<fileVars, base, view, login>>

Set(v) == v \notin {None, Absent}

(* applyOptimistic: the layer, where there is one, and the resolved value. *)
ApplyOptimistic(cas, key, v) ==
  CASE key = <<"global", "terminal">> -> [cas EXCEPT !.global = v, !.resolved = v]
    [] key = <<"host", "terminal">> ->
         [cas EXCEPT !.host = IF Set(@) THEN v ELSE @, !.resolved = v]
    [] key = <<"channel", "terminal">> ->
         [cas EXCEPT !.channel = IF @ # Absent THEN v ELSE @, !.resolved = v]
    [] key[2] = "ui" -> [cas EXCEPT !.ui = v, !.uiResolved = v]
    [] key[2] = "appearance" -> [cas EXCEPT !.appearance = v]
    [] OTHER -> [cas EXCEPT !.elevation = v]

(* updateSetting and resetSetting (null): the write waits half a second,   *)
(* and a later value of the same key takes its place.                      *)
UpdateSetting(p) ==
  /\ panel[p].open /\ panel[p].cascade # None
  /\ \E key \in {k \in Keys : Edits(k)},
        v \in IF Does("plain") THEN Vals \ {Default} ELSE Vals \cup {None} :
       panel' = [panel EXCEPT ![p].cascade = ApplyOptimistic(@, key, v),
         ![p].pending = SelectSeq(@, LAMBDA w : w.key # key) \o <<[key |-> key, value |-> v]>>]
  /\ SettingsKept /\ UNCHANGED <<call, fileVars, base, view, login>>

WriteOp(key) ==
  CASE key[1] = "host" -> "patchHost" [] key[1] = "channel" -> "patchChannel"
    [] key[2] = "terminal" -> "putTerminal" [] key[2] = "ui" -> "putUi"
    [] key[2] = "appearance" -> "putAppearance" [] OTHER -> "putElevation"

(* The timer reads the panel's host and channel when it fires. *)
TimerFires(p, s) ==
  /\ panel[p].pending # <<>> /\ Bounded(p)
  /\ LET w == Head(panel[p].pending) IN
       IF login[p] = None THEN UNCHANGED call
       ELSE Ask(p, s, WriteOp(w.key),
                [key |-> w.key, value |-> w.value, chan |-> panel[p].chan])
  /\ panel' = [panel EXCEPT ![p].pending = Tail(@)]
  /\ SettingsKept /\ UNCHANGED <<fileVars, base, view, login>>

(* emitProfileChange: the terminals a write concerns load their profile;   *)
(* c, and its host, are those the panel has when the answer arrives,       *)
(* whatever the answer is.                                                 *)
Concerns(key, c, v) ==
  /\ key[2] = "terminal" /\ v.chan # None
  /\ key[1] = "host" => HostFor(c) = HostOf[v.chan]
  /\ key[1] = "channel" => c = v.chan
ThenRefresh(s, key) ==
  CASE key[1] = "global" /\ key[2] = "terminal" ->
         [call EXCEPT ![s] = Request(@.page, "cascade", [who |-> "base", chan |-> None])]
    [] key[1] = "global" /\ key[2] = "ui" ->
         [call EXCEPT ![s] = Request(@.page, "getUi", None)]
    [] OTHER -> [call EXCEPT ![s] = None]
WriteDone(s) ==
  LET p == call[s].page  a == call[s].arg  rest == ThenRefresh(s, a.key) IN
  /\ \E key \in Keys : Answered(s, WriteOp(key))
  /\ IF Concerns(a.key, panel[p].chan, view[p])
       THEN Reload(p, view[p], view[p].chan, login[p], rest)
       ELSE /\ call' = rest
            /\ view' = [view EXCEPT ![p].missed = @ \/ Concerns(a.key, a.chan, view[p])]
  /\ SettingsKept /\ UNCHANGED <<fileVars, panel, base, login>>

LoadedBase(s) ==
  LET p == call[s].page IN
  /\ End(s) /\ SettingsKept /\ UNCHANGED <<fileVars, panel, view, login>>
  /\ \/ /\ Answered(s, "getUi")
        /\ base' = [base EXCEPT ![p].ui = IF OkCode(s) THEN call[s].body ELSE @]
     \/ /\ Answered(s, "cascade") /\ call[s].arg.who = "base"
        /\ base' = [base EXCEPT ![p].profile = IF OkCode(s) THEN call[s].body.resolved ELSE @]

-----------------------------------------------------------------------------
SettingsStep ==
  \/ \E s \in Slots :
       \/ GetConfigCascade(s) \/ GetConfigUi(s) \/ PutConfigGlobal(s) \/ PutConfigUi(s)
       \/ PutConfigAppearance(s) \/ PutConfigElevation(s)
       \/ PatchHostProfile(s) \/ PatchChannelProfile(s) \/ Unauthorised(s)
       \/ GotProfile(s) \/ GotCascade(s) \/ WriteDone(s) \/ LoadedBase(s)
       \/ \E p \in Pages : OpenPanel(p, s) \/ TimerFires(p, s)
  \/ \E p \in Pages :
       \/ ClosePanel(p) \/ UpdateSetting(p) \/ HubPortReady(p)
       \/ \E c \in Channels : SelectTerminal(p, c)
       \/ \E t \in Tokens \cup {None} : TokenChanges(p, t)
  \/ FileIsEdited

-----------------------------------------------------------------------------
(* A terminal shows the defaults or the profile of its own channel, loaded *)
(* with the token its page has: never what a request of an earlier channel *)
(* or login brings (isCurrent in useResolvedProfile.ts).                   *)
ProfileIsOwn ==
  \A p \in Pages :
    IF view[p].for = None THEN view[p].profile = Default
    ELSE view[p].for = view[p].chan /\ view[p].token = login[p]

(* And once nothing of its page is under way it shows what the hub         *)
(* resolves now: every write of the panel, to the file or to the layer of  *)
(* a host or a channel, is followed by a load that counts, however writes, *)
(* the loads they cause and the user's changes of terminal overtake each   *)
(* other.  Except a terminal whose newest load was refused, or one that    *)
(* missed a write: a write to the layer of a host or a channel is          *)
(* announced for the host and the channel the panel has when the answer    *)
(* arrives (stores/settings.ts), which may be others than it was made for. *)
ProfileIsCurrent ==
  /\ ProfileIsOwn
  /\ Cardinality(cast.pages) = 1 /\ cast.does \cap {"lose", "edit", "form"} = {} =>
       \A p \in cast.pages :
         LET v == view[p] IN
         CallsOf(p) = {} /\ login[p] # None /\ v.chan # None /\ v.ready /\ ~v.missed
            => v.for = v.chan /\ v.profile = Resolve(v.chan)

=============================================================================
