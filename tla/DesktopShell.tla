---------------------------- MODULE DesktopShell ----------------------------
(***************************************************************************)
(* The desktop application (lib.rs) beside the hub's processes: the single *)
(* instance, the hub it launches, the quit attempts of its                 *)
(* QuitCoordinator, and the closing of its window, which native code and   *)
(* the web view settle together (WindowCloseCoordinator, App.vue).         *)
(*                                                                         *)
(* The callers in the role "app" are the desktop processes; their quit     *)
(* requests are the calls of HubProcess.  An attempt is active while its   *)
(* call is not idle.                                                       *)
(***************************************************************************)
EXTENDS HubProcess, Sequences, FiniteSetsExt

VARIABLES
  app,      \* state of each desktop process
  child,    \* the hub it launched, while it waits for it
  visible,  \* is its window shown?
  pref,     \* closeBehavior, shared by all: "ask", "hide" or "quit"
  close,    \* WindowCloseCoordinator: next id, and the active presentation
  choice,   \* is the native fallback dialog open?
  toWeb,    \* events on their way to the web view
  acking,   \* presentations whose acknowledgement the web view awaits
  modal     \* desktopCloseAttempt: the presentation the web view shows, or 0

closeVars == <<pref, close, choice, toWeb, acking, modal>>
shellVars == <<app, child, visible, closeVars>>
allVars == <<vars, shellVars>>

Apps == {c \in Callers : role[c] = "app"}
Primary(c) == app[c] \in {"setup", "up"}
Presentations == MapThenSumSet(LAMBDA c : close[c].id, Callers)
NoClose == [id |-> 0, state |-> "none"]

ShellTypeOK ==
  /\ TypeOK
  /\ app \in [Callers -> {"off", "acquiring", "setup", "up", "gone"}]
  /\ child \in [Callers -> Hubs \cup {None}] /\ visible \in [Callers -> BOOLEAN]
  /\ pref \in {"ask", "hide", "quit"} /\ choice \in [Callers -> BOOLEAN]
  /\ close \in [Callers -> [id : 0 .. cast.closes, state : {"none", "presenting", "asking"}]]
  /\ acking \in [Callers -> SUBSET (1 .. cast.closes)] /\ modal \in [Callers -> 0 .. cast.closes]
  /\ \A c, d \in Callers : Primary(c) /\ Primary(d) => c = d
  /\ \A c \in Callers : app[c] # "up" => close[c].state = "none"

ShellInit ==
  /\ Init
  /\ app = [c \in Callers |-> "off"] /\ child = [c \in Callers |-> None]
  /\ visible = [c \in Callers |-> FALSE] /\ pref = "ask"
  /\ close = [c \in Callers |-> NoClose] /\ choice = [c \in Callers |-> FALSE]
  /\ toWeb = [c \in Callers |-> <<>>] /\ acking = [c \in Callers |-> {}]
  /\ modal = [c \in Callers |-> 0]

-----------------------------------------------------------------------------
(* One instance, and the hub it launches.                                  *)

LaunchApp(c) ==
  /\ c \in Apps /\ app[c] = "off"
  /\ app' = [app EXCEPT ![c] = "acquiring"]
  /\ UNCHANGED <<vars, child, visible, closeVars>>

(* The lock is free: this process is the primary and starts the sidecar. *)
AcquireInstance(c) ==
  /\ app[c] = "acquiring" /\ \A d \in Callers : ~Primary(d)
  /\ \E h \in Hubs : Spawn(h) /\ child' = [child EXCEPT ![c] = h]
  /\ app' = [app EXCEPT ![c] = "setup"]
  /\ UNCHANGED <<cast, code, quit, due, record, call, stuck, visible, closeVars>>

(* The primary listens for raise requests once its setup is complete; it   *)
(* shows its window, answers, and the second process leaves.               *)
RaisePrimary(c) ==
  /\ app[c] = "acquiring"
  /\ \E d \in Callers : app[d] = "up" /\ visible' = [visible EXCEPT ![d] = TRUE]
  /\ app' = [app EXCEPT ![c] = "gone"]
  /\ UNCHANGED <<vars, child, closeVars>>

HandoffTimeout(c) ==
  /\ app[c] = "acquiring" /\ \E d \in Callers : Primary(d)
  /\ app' = [app EXCEPT ![c] = "gone"]
  /\ UNCHANGED <<vars, child, visible, closeVars>>

(* The hub announced its address, with nothing queued behind it.  Its end  *)
(* may come a moment later, and then nobody looks any more.                *)
HubServing(c) ==
  /\ app[c] = "setup" /\ phase[child[c]] \in {"serving", "closing", "closed", "withdrawn"}
  /\ app' = [app EXCEPT ![c] = "up"] /\ child' = [child EXCEPT ![c] = None]
  /\ visible' = [visible EXCEPT ![c] = TRUE]
  /\ UNCHANGED <<vars, closeVars>>

(* The sidecar ended; with status 73 another hub holds the lock, and the   *)
(* application does not attach to it.                                      *)
HubExited(c) ==
  /\ app[c] = "setup" /\ phase[child[c]] = "dead"
  /\ app' = [app EXCEPT ![c] = "gone"] /\ child' = [child EXCEPT ![c] = None]
  /\ UNCHANGED <<vars, visible, closeVars>>

(* Nothing was heard for 15 s: the sidecar is killed. *)
HubSilent(c) ==
  /\ app[c] = "setup" /\ Alive(child[c])
  /\ Die(child[c], "killed")
  /\ app' = [app EXCEPT ![c] = "gone"] /\ child' = [child EXCEPT ![c] = None]
  /\ UNCHANGED <<cast, pid, quit, stuck, record, call, visible, closeVars>>

Leave(c) ==
  /\ app' = [app EXCEPT ![c] = "gone"]
  /\ child' = [child EXCEPT ![c] = None]
  /\ visible' = [visible EXCEPT ![c] = FALSE]
  /\ close' = [close EXCEPT ![c].state = "none"]
  /\ choice' = [choice EXCEPT ![c] = FALSE]
  /\ toWeb' = [toWeb EXCEPT ![c] = <<>>]
  /\ acking' = [acking EXCEPT ![c] = {}]
  /\ modal' = [modal EXCEPT ![c] = 0]

(* Killed or crashed; its hub goes on. *)
AppCrash(c) ==
  /\ app[c] = "up" /\ call[c].step # "confirmed"
  /\ Leave(c) /\ call' = [call EXCEPT ![c] = [NoCall EXCEPT !.step = "off"]]
  /\ UNCHANGED <<cast, hubVars, record, pref>>

-----------------------------------------------------------------------------
(* Quit attempts.                                                          *)

(* request_app_quit: one attempt at a time. *)
RequestAppQuit(c) ==
  call' = IF call[c].step = "idle" THEN [call EXCEPT ![c] = [NoCall EXCEPT !.step = "reading"]] ELSE call

TrayQuit(c) ==
  /\ app[c] = "up" /\ call[c].step = "idle"
  /\ RequestAppQuit(c)
  /\ UNCHANGED <<cast, hubVars, record, shellVars>>

TrayShow(c) ==
  /\ app[c] = "up" /\ ~visible[c]
  /\ visible' = [visible EXCEPT ![c] = TRUE]
  /\ UNCHANGED <<vars, app, child, closeVars>>

(* request_hub_quit reads the record for every request, forced or not. *)
AppReads(c) ==
  /\ call[c].step = "reading"
  /\ \/ record = None /\ Fail(c)
     \/ record # None /\ call' = [call EXCEPT ![c].step = "post", ![c].target = record]
  /\ UNCHANGED <<cast, hubVars, record, shellVars>>

(* classify_quit_response, classify_quit_transport_error: a lost response  *)
(* may be that of an accepted request, and 503 is sent by a hub that ends. *)
Classified(answer) ==
  CASE answer = "conflict" -> "conflict"
    [] answer \in {"ok", "unconfirmed"} -> "committed"
    [] answer = "lost" -> "unobserved"
    [] OTHER -> "failed"

(* request_finished. *)
AppAnswered(c) ==
  /\ call[c].step = "answered" /\ role[c] = "app"
  /\ LET result == Classified(call[c].answer) IN
     \/ result = "conflict" /\ ~call[c].force /\ Go(c, "consent")
     \/ result = "conflict" /\ call[c].force /\ Fail(c)
     \/ result \in {"committed", "unobserved"} /\ Go(c, "seen")
     \/ result = "failed" /\ Fail(c)
  /\ UNCHANGED <<cast, hubVars, record, shellVars>>

(* resolve_native_consent: a refusal ends the attempt. *)
AppConsent(c) ==
  /\ call[c].step = "consent" /\ role[c] = "app"
  /\ \/ call' = [call EXCEPT ![c].step = "reading", ![c].force = TRUE]
     \/ call' = [call EXCEPT ![c] = NoCall]
  /\ UNCHANGED <<cast, hubVars, record, shellVars>>

(* observe_hub_quit_with looks the way waitForHubQuit does. *)
ObserveHubQuit(c) ==
  /\ c \in Apps /\ Observe(c)
  /\ UNCHANGED shellVars

AppQuitFailed(c) ==
  /\ call[c].step = "failed" /\ app[c] = "up"
  /\ call' = [call EXCEPT ![c] = NoCall]
  /\ UNCHANGED <<cast, hubVars, record, shellVars>>

AppExit(c) ==
  /\ call[c].step = "confirmed" /\ app[c] = "up"
  /\ Leave(c)
  /\ UNCHANGED <<vars, pref>>

-----------------------------------------------------------------------------
(* Closing the window.                                                     *)

(* handle_native_window_close.  A presentation that cannot be delivered is *)
(* expired at once, which opens the native dialog.                         *)
CloseWindow(c) ==
  /\ app[c] = "up" /\ visible[c]
  /\ \/ /\ pref = "hide" /\ visible' = [visible EXCEPT ![c] = FALSE]
        /\ UNCHANGED <<call, close, toWeb, choice>>
     \/ /\ pref = "quit" /\ RequestAppQuit(c)
        /\ UNCHANGED <<visible, close, toWeb, choice>>
     \/ /\ pref = "ask" /\ close[c].state = "none" /\ Presentations < cast.closes
        /\ \/ /\ close' = [close EXCEPT ![c] = [id |-> @.id + 1, state |-> "presenting"]]
              /\ toWeb' = [toWeb EXCEPT ![c] = Append(@, [type |-> "requested", id |-> close[c].id + 1])]
              /\ UNCHANGED choice
           \/ /\ close' = [close EXCEPT ![c].id = @ + 1]
              /\ choice' = [choice EXCEPT ![c] = TRUE] /\ UNCHANGED toWeb
        /\ UNCHANGED <<call, visible>>
  /\ UNCHANGED <<cast, hubVars, record, app, child, pref, acking, modal>>

(* The web view did not acknowledge in time. *)
PresentationTimeout(c) ==
  /\ close[c].state = "presenting"
  /\ close' = [close EXCEPT ![c].state = "none"]
  /\ choice' = [choice EXCEPT ![c] = TRUE]
  /\ UNCHANGED <<vars, app, child, visible, pref, toWeb, acking, modal>>

NativeChoice(c) ==
  /\ choice[c] /\ choice' = [choice EXCEPT ![c] = FALSE]
  /\ RequestAppQuit(c) \/ UNCHANGED call
  /\ UNCHANGED <<cast, hubVars, record, app, child, visible, pref, close, toWeb, acking, modal>>

Acknowledged(c, id) == close[c] = [id |-> id, state |-> "presenting"]
Answerable(c, id) == close[c] = [id |-> id, state |-> "asking"]

(* The web view hears of the gesture and acknowledges it. *)
WebAcknowledges(c) ==
  /\ toWeb[c] # <<>> /\ Head(toWeb[c]).type = "requested"
  /\ LET id == Head(toWeb[c]).id IN
       /\ close' = IF Acknowledged(c, id) THEN [close EXCEPT ![c].state = "asking"] ELSE close
       /\ acking' = [acking EXCEPT ![c] = @ \cup {id}]
  /\ toWeb' = [toWeb EXCEPT ![c] = Tail(@)]
  /\ UNCHANGED <<vars, app, child, visible, pref, choice, modal>>

WebShows(c) ==
  /\ \E id \in acking[c] :
       /\ acking' = [acking EXCEPT ![c] = @ \ {id}]
       /\ modal' = [modal EXCEPT ![c] = id]
  /\ UNCHANGED <<vars, app, child, visible, pref, close, choice, toWeb>>

(* The acknowledged choice was not made in time. *)
AnswerTimeout(c) ==
  /\ close[c].state = "asking"
  /\ close' = [close EXCEPT ![c].state = "none"]
  /\ toWeb' = [toWeb EXCEPT ![c] = Append(@, [type |-> "expired", id |-> close[c].id])]
  /\ UNCHANGED <<vars, app, child, visible, pref, choice, acking, modal>>

WebExpires(c) ==
  /\ toWeb[c] # <<>> /\ Head(toWeb[c]).type = "expired"
  /\ modal' = [modal EXCEPT ![c] = IF @ = Head(toWeb[c]).id THEN 0 ELSE @]
  /\ toWeb' = [toWeb EXCEPT ![c] = Tail(@)]
  /\ UNCHANGED <<vars, app, child, visible, pref, close, choice, acking>>

(* set_close_behavior replaces the stored preference, atomically. *)
SetCloseBehavior(action) == pref' = IF action = "quit" THEN "quit" ELSE "hide"

HideModal(c) == modal' = [modal EXCEPT ![c] = 0]

(* answer_desktop_close: only the active presentation has an effect.  When *)
(* the choice cannot be stored it is not carried out either, and the web   *)
(* view keeps the dialog of a presentation that is over.                   *)
WebAnswers(c) ==
  /\ modal[c] # 0
  /\ \/ /\ Answerable(c, modal[c])
        /\ close' = [close EXCEPT ![c].state = "none"]
        /\ \/ \E action \in {"quit", "tray"} :
                /\ SetCloseBehavior(action) \/ UNCHANGED pref   \* remembered or not
                /\ IF action = "quit" THEN RequestAppQuit(c) /\ UNCHANGED visible
                   ELSE visible' = [visible EXCEPT ![c] = FALSE] /\ UNCHANGED call
                /\ HideModal(c)
           \/ UNCHANGED <<pref, visible, call, modal>>
     \/ ~Answerable(c, modal[c]) /\ HideModal(c) /\ UNCHANGED <<close, pref, visible, call>>
  /\ UNCHANGED <<cast, hubVars, record, app, child, choice, toWeb, acking>>

WebCancels(c) ==
  /\ modal[c] # 0
  /\ close' = IF Answerable(c, modal[c]) THEN [close EXCEPT ![c].state = "none"] ELSE close
  /\ modal' = [modal EXCEPT ![c] = 0]
  /\ UNCHANGED <<vars, app, child, visible, pref, choice, toWeb, acking>>

-----------------------------------------------------------------------------
ShellStep(c) ==
  \/ LaunchApp(c) \/ AcquireInstance(c) \/ RaisePrimary(c) \/ HandoffTimeout(c)
  \/ HubServing(c) \/ HubExited(c) \/ HubSilent(c) \/ AppCrash(c)
  \/ TrayQuit(c) \/ TrayShow(c) \/ AppReads(c) \/ AppAnswered(c) \/ AppConsent(c)
  \/ ObserveHubQuit(c) \/ AppQuitFailed(c) \/ AppExit(c)
  \/ CloseWindow(c) \/ NativeChoice(c) \/ WebAcknowledges(c) \/ WebShows(c)
  \/ WebExpires(c) \/ WebAnswers(c) \/ WebCancels(c)

Timers(c) == PresentationTimeout(c) \/ AnswerTimeout(c)

ShellNext ==
  \/ HubProcessNext /\ UNCHANGED shellVars
  \/ \E c \in Callers : ShellStep(c) \/ Timers(c)

=============================================================================
