------------------------------- MODULE NativeOps -------------------------------
(***************************************************************************)
(* The operations of crates/native-control a tool handler calls, as        *)
(* programs: what each looks up, refuses and does, in the code's order,    *)
(* with its NativeControlError as the code map_native_err makes of it.     *)
(* Accessibility, the window server, osascript and the other commands are  *)
(* external: they may answer anything.                                     *)
(***************************************************************************)
EXTENDS ToolSteps

\* Surfaces.  app: the app the call names, on which the controller keeps the
\* blocklist; desktop: whatever the desktop shows; focus, raise: may move the
\* user's focus; apps: the list of running apps; subscription: the list of
\* the session's subscriptions.

map_native_err ==
    [PermissionMissing |-> "PermissionDenied", Blocked |-> "PermissionDenied",
     ActivateForbidden |-> "PermissionDenied", FocusStealForbidden |-> "PermissionDenied",
     AppNotFound |-> "TabNotFound", RefStale |-> "ElementStale",
     NotActionable |-> "ElementNotActionable", Timeout |-> "Timeout", AxError |-> "InternalError",
     AppleScript |-> "InternalError", Io |-> "InternalError", Tis |-> "InternalError",
     PrivateApiUnavailable |-> "InternalError", Internal |-> "InternalError"]
Errs(errors) == {map_native_err[e] : e \in errors}
require_not_blocked == Gate("unlisted", map_native_err.Blocked)
focus_steal_allowed == Gate("focus_steal", map_native_err.FocusStealForbidden)
map_ax_error == {"PermissionMissing", "AxError"}
Fails(errors) == Fail(Errs(errors))
Acts(surface, errors) == Act(surface, Errs(errors \cup {"Internal"}))    \* spawn_blocking
resolve_pid == Fails({"AppNotFound"})
Lookup == Fails({"RefStale"})
Press(surface) == Acts(surface, map_ax_error \cup {"NotActionable"})
Reading(surface) == Acts(surface, {})
\* A script with the word activate in it is refused; the crate's own have none.
validate_no_activate == Fails({"ActivateForbidden"})
osascript(surface) == Acts(surface, {"Io", "AppleScript"})
run_with_timeout(surface) == Acts(surface, {"Timeout", "Io", "AppleScript"})

list_apps == Reading("apps")
snapshot_app == resolve_pid \o Reading("app")
controller_snapshot == require_not_blocked \o snapshot_app
\* The element comes from the latest snapshot, its path is followed anew.
latest_ref == Lookup
locate_path == resolve_pid \o Fails({"AppNotFound", "RefStale", "Internal"})
zero_area == Fails({"NotActionable"})
controller_click == require_not_blocked \o latest_ref \o zero_area \o locate_path \o Press("app")
\* The value is set or, failing that, typed into the focused element.
controller_type == require_not_blocked \o latest_ref \o zero_area \o locate_path \o Acts("app", map_ax_error)
controller_scroll == require_not_blocked \o GivenAs("ref", Str, latest_ref) \o resolve_pid \o Reading("app")
controller_eval == require_not_blocked \o validate_no_activate \o osascript("app")
\* spawn: the app, the observer thread, its run loop within two seconds.
controller_subscribe == require_not_blocked \o resolve_pid \o Reading("app")
controller_unsubscribe == Act("subscription", {})

menu_list == require_not_blocked \o resolve_pid \o Reading("app")
menu_click ==
    require_not_blocked \o Fails({"Internal"}) \o resolve_pid \o Lookup \o Press("app")
statusmenu_click == Lookup \o Press("desktop")

window_list == require_not_blocked \o resolve_pid \o Reading("app")
resolve_window == Lookup \o resolve_pid \o Lookup
SetWindow == require_not_blocked \o resolve_window \o Acts("app", map_ax_error)
window_raise == require_not_blocked \o focus_steal_allowed \o resolve_window \o Acts("raise", map_ax_error)
set_minimized == SetWindow
set_fullscreen == SetWindow
move_to == SetWindow
resize == SetWindow

dock_list == resolve_pid \o Reading("desktop")
press_item(surface) == resolve_pid \o Lookup \o Press(surface)
dock_click == focus_steal_allowed \o press_item("focus")
dock_reveal_app == press_item("desktop")

\* Without Notification Center there is nothing to list.
notification_list == Acts("desktop", {"AppNotFound"})
press_by_title == resolve_pid \o Lookup \o Acts("desktop", map_ax_error)
notification_open == osascript("focus")
notification_dismiss == resolve_pid \o Lookup \o Acts("desktop", map_ax_error)

spotlight_open == osascript("focus")
\* The query is part of the script, which is then validated.
spotlight_query == Fails({"Internal"}) \o validate_no_activate \o osascript("desktop")
spotlight_select == GivenAs("index", U64, Fails({"Internal"})) \o osascript("desktop")

spaces_list == Acts("desktop", {"PrivateApiUnavailable"})
\* Without a delta nothing is sent (nor for 0, an integer like another here).
switch_relative == GivenAs("delta", I64, osascript("desktop"))
move_window_relative == require_not_blocked \o Gate("never", map_native_err.PrivateApiUnavailable)

touchbar_tap == Acts("desktop", {"PrivateApiUnavailable"})
three_finger_swipe == Reading("desktop")
force_touch == GivenAs("pressure", F64, Fails({"Internal"})) \o Reading("desktop")
ime_list == Acts("desktop", {"PrivateApiUnavailable"})
ime_switch == Acts("desktop", {"PrivateApiUnavailable", "Tis"})
ime_set_input_source == ime_switch

shortcut_run == run_with_timeout("desktop")
automator_run == run_with_timeout("desktop")
applescript == validate_no_activate \o run_with_timeout("desktop")
jxa == validate_no_activate \o run_with_timeout("desktop")
terminal_spawn_session == focus_steal_allowed \o validate_no_activate \o run_with_timeout("focus")
quicklook_preview == Fails({"Internal"}) \o Acts("focus", {"Io", "AppleScript"})
quicklook_close == osascript("desktop")

\* The clipboard: the cache is NativeApps' matter.
Paste == Acts("clipboard", {})
write_some == Fails({"Internal"}) \o Paste

drag_sequence == Reading("desktop")
drag_files == Fails({"Internal"}) \o Reading("desktop") \o drag_sequence
================================================================================
