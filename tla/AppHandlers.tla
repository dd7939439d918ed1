----------------------------- MODULE AppHandlers -----------------------------
(***************************************************************************)
(* The handlers of app.*, clipboard.* and drag.* (crates/broker/src/       *)
(* router/native.rs and internal.rs) as programs: the capabilities, the    *)
(* macOS permission, the blocklist and the confirmation each asks for, the *)
(* params it reads, and the operation of native-control it calls.          *)
(***************************************************************************)
EXTENDS NativeOps

require_native == Gate("native", "PermissionDenied") \o Gate("trusted", "PermissionDenied")
require_indirect_app_targeting_allowed == Gate("unblocked", "PermissionDenied")
require_focus_steal == Gate("focus_steal", "PermissionDenied")
confirm_or_deny ==
    <<[Need("confirm", Bool)[1] EXCEPT !.codes = {"PermissionDenied"}]>> \o Fail({"PermissionDenied"})
Indirect == require_native \o require_indirect_app_targeting_allowed
Loud == require_focus_steal \o confirm_or_deny
Window == require_native \o Need("app_id", Str) \o Need("window_id", Str)
app_menu_list == require_native \o Need("app_id", Str) \o menu_list
app_menu_click == require_native \o Need("app_id", Str) \o Need("path", {"array", "badarray"}) \o menu_click
app_statusmenu_click == Indirect \o Need("label", Str) \o statusmenu_click
app_notif_open == Indirect \o Loud \o notification_open
app_notif_list == Indirect \o notification_list
app_notif_click == Indirect \o Need("title", Str) \o press_by_title
app_notif_dismiss == Indirect \o Need("title", Str) \o notification_dismiss
app_spotlight_open == Indirect \o Loud \o spotlight_open
app_spotlight_query == Indirect \o Need("query", Str) \o spotlight_query
app_spotlight_select == Indirect \o As(Take("index", U64), U32) \o spotlight_select
app_spaces_list == Indirect \o spaces_list
app_spaces_switch == Indirect \o As(Take("delta", I64), I32) \o switch_relative
app_spaces_move_window ==
    require_native \o Need("app_id", Str) \o As(Take("delta", I64), I32) \o move_window_relative
app_dock_list == Indirect \o dock_list
app_dock_click == Indirect \o Loud \o Need("label", Str) \o dock_click
app_dock_reveal_app == Indirect \o Need("label", Str) \o dock_reveal_app
app_window_list == require_native \o Need("app_id", Str) \o window_list
app_window_raise ==
    require_native \o Loud \o Need("app_id", Str) \o Need("window_id", Str) \o window_raise
app_window_minimize == Window \o Take("minimized", Bool) \o set_minimized
app_window_fullscreen == Window \o Take("fullscreen", Bool) \o set_fullscreen
app_window_move == Window \o Take("x", F64) \o Take("y", F64) \o move_to
app_window_resize == Window \o Take("w", F64) \o Take("h", F64) \o resize
app_touchbar_tap == Indirect \o Need("identifier", Str) \o touchbar_tap
app_gesture_swipe == Indirect \o Take("dx", F64) \o Take("dy", F64) \o three_finger_swipe
app_force_touch == Indirect \o Take("x", F64) \o Take("y", F64) \o Take("pressure", F64) \o force_touch
app_ime_list == Indirect \o ime_list
app_ime_switch == Indirect \o Need("input_id", Str) \o ime_switch
app_ime_set == Indirect \o Need("input_id", Str) \o ime_set_input_source
app_shortcut_run == Indirect \o Need("name", Str) \o Take("input", Str) \o shortcut_run
app_automator_run == Indirect \o Need("workflow_path", Str) \o automator_run
app_applescript == Indirect \o Need("source", Str) \o applescript
app_jxa == Indirect \o Need("source", Str) \o jxa
app_terminal_spawn == Indirect \o Loud \o Need("command", Str) \o terminal_spawn_session
app_quicklook_preview == Indirect \o Loud \o Need("path", Str) \o quicklook_preview
app_quicklook_close == Indirect \o quicklook_close
clipboard_read == require_native \o Paste
clipboard_write_string == require_native \o Need("text", Str) \o Paste
clipboard_write_files == require_native \o Need("paths", {"array", "badarray"}) \o write_some
clipboard_write_image == require_native \o Need("png_base64", Str) \o Fail({"BadValue"}) \o write_some
Corners == Take("from_x", F64) \o Take("from_y", F64) \o Take("to_x", F64) \o Take("to_y", F64)
drag_from_finder == Indirect \o Need("paths", {"array", "badarray"}) \o Corners \o drag_files
drag_between_apps == Indirect \o Corners \o drag_sequence
app_subscribe == require_native \o Need("app_id", Str) \o Need("topics", {"array", "badarray"}) \o controller_subscribe
app_unsubscribe == require_native \o Need("subscription_id", Str) \o controller_unsubscribe

app_list == require_native \o list_apps
app_snapshot == require_native \o Need("app_id", Str) \o controller_snapshot
app_click == require_native \o Need("app_id", Str) \o Need("ref", Str) \o controller_click
app_type ==
    require_native \o Need("app_id", Str) \o Need("ref", Str) \o Need("text", Str)
        \o Take("clear_first", Bool) \o controller_type
app_scroll ==
    require_native \o Need("app_id", Str) \o Take("ref", Str) \o Take("dx", F64) \o Take("dy", F64)
        \o controller_scroll
app_eval == require_native \o Need("app_id", Str) \o Need("applescript", Str) \o controller_eval

dispatch_app ==
    "app.list" :> app_list @@ "app.snapshot" :> app_snapshot @@ "app.click" :> app_click @@
    "app.type" :> app_type @@ "app.scroll" :> app_scroll @@ "app.eval" :> app_eval @@
    "app.menu.list" :> app_menu_list @@ "app.menu.click" :> app_menu_click @@
    "app.statusmenu.click" :> app_statusmenu_click @@
    "app.notification_center.open" :> app_notif_open @@
    "app.notification_center.list" :> app_notif_list @@
    "app.notification_center.click" :> app_notif_click @@
    "app.notification_center.dismiss" :> app_notif_dismiss @@
    "app.spotlight.open" :> app_spotlight_open @@ "app.spotlight.query" :> app_spotlight_query @@
    "app.spotlight.select" :> app_spotlight_select @@ "app.spaces.list" :> app_spaces_list @@
    "app.spaces.switch_to" :> app_spaces_switch @@
    "app.spaces.move_window" :> app_spaces_move_window @@ "app.dock.list" :> app_dock_list @@
    "app.dock.click" :> app_dock_click @@ "app.dock.reveal_app" :> app_dock_reveal_app @@
    "app.window.list" :> app_window_list @@ "app.window.raise" :> app_window_raise @@
    "app.window.minimize" :> app_window_minimize @@ "app.window.fullscreen" :> app_window_fullscreen @@
    "app.window.move" :> app_window_move @@ "app.window.resize" :> app_window_resize @@
    "app.touchbar.tap" :> app_touchbar_tap @@ "app.gesture.three_finger_swipe" :> app_gesture_swipe @@
    "app.force_touch" :> app_force_touch @@ "app.ime.list" :> app_ime_list @@
    "app.ime.switch" :> app_ime_switch @@ "app.ime.set_input_source" :> app_ime_set @@
    "app.shortcut.run" :> app_shortcut_run @@ "app.automator.run" :> app_automator_run @@
    "app.applescript" :> app_applescript @@ "app.javascript_for_automation" :> app_jxa @@
    "app.terminal.spawn_session" :> app_terminal_spawn @@
    "app.quicklook.preview" :> app_quicklook_preview @@ "app.quicklook.close" :> app_quicklook_close @@
    "clipboard.read_string" :> clipboard_read @@ "clipboard.write_string" :> clipboard_write_string @@
    "clipboard.read_files" :> clipboard_read @@ "clipboard.write_files" :> clipboard_write_files @@
    "clipboard.read_image" :> clipboard_read @@ "clipboard.write_image" :> clipboard_write_image @@
    "clipboard.types" :> clipboard_read @@ "clipboard.history" :> clipboard_read @@
    "drag.from_finder" :> drag_from_finder @@ "drag.between_apps" :> drag_between_apps @@
    "app.subscribe" :> app_subscribe @@ "app.unsubscribe" :> app_unsubscribe
=============================================================================
