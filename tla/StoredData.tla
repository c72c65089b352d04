----------------------------- MODULE StoredData -----------------------------
(***************************************************************************)
(* The hub's stored data and the pages that edit it, as one system: hosts  *)
(* and groups, launch profiles, settings, tokens and codes.  They share    *)
(* the pages, the requests, the hosts table (a deleted host takes its      *)
(* overrides along, its profile_json is a layer of the settings) and the   *)
(* start of the hub.                                                       *)
(***************************************************************************)
EXTENDS TerminalSettings, Pairing

StoredInit == CatInit /\ LaunchInit /\ SettingsInit /\ PairInit

HostsChange ==
  /\ CatStep /\ Cascaded /\ FreedForms
  /\ UNCHANGED <<launches, issued, dropped, settingsVars>>
ProfilesChange == LaunchStep /\ UNCHANGED settingsVars
HubStarts == Start /\ LoadAtStart

Pairs == PairStep /\ UNCHANGED <<launchVars, settingsVars>>

StoredNext ==
  \/ HostsChange /\ UNCHANGED pairVars
  \/ ProfilesChange /\ UNCHANGED pairVars
  \/ SettingsStep /\ UNCHANGED pairVars
  \/ HubStarts /\ UNCHANGED pairVars
  \/ Pairs
Spec == StoredInit /\ [][StoredNext]_<<catVars, launchVars, settingsVars, pairVars>>

=============================================================================
