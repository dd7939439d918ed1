----------------------------- MODULE ToolHandlers -----------------------------
(***************************************************************************)
(* The broker's tool handlers (crates/broker/src/router/) as programs: the *)
(* order in which a handler reads its params, asks for capabilities, looks *)
(* things up and acts, and the error each of these ends it with.  macOS is *)
(* the platform modelled.                                                  *)
(***************************************************************************)
EXTENDS AppHandlers

\* "BadValue" is the InvalidParams a handler answers to the content of a
\* string, array or number rather than to its class.
locate_page == Need("tab_id", Str) \o Fail({"TabNotFound"})
validate_snapshot_seq == Check("snapshot_seq", U64) \o Fail({"ElementStale"})
resolve_ref(f) == Need(f, Str) \o Fail({"ElementStale"})
Snap == Act("page", {"InternalError"})
Seen(f) == validate_snapshot_seq \o Snap \o resolve_ref(f)
Engine == Act("page", {"InternalError"})
Point == Need("x", F64) \o Need("y", F64)
modifier_bits == GivenAs("modifiers", {"array", "badarray"}, Check("modifiers", Strs) \o Fail({"BadValue"}))
\* Mutant: a word the schema lists is not parsed.
MutScrollEasing == OneOf("easing", PageScrollEasing \ {"ease_in_out"})
scroll_easing == OneOf("easing", PageScrollEasing)
ranged(f, k) == Check(f, k) \o Given(f, Fail({"BadValue"}))
pointer_details ==
    ranged("pressure", F64) \o ranged("tangential_pressure", F64) \o ranged("tilt_x", F64)
        \o ranged("tilt_y", F64) \o ranged("twist", I64)
Sweep == As(Take("steps", U64), U32) \o Take("duration_ms", U64)

page_snapshot == locate_page \o Take("since_seq", U64) \o Snap
page_screenshot ==
    locate_page \o Take("format", Str) \o As(Take("quality", U64), U8)
        \o Take("capture_beyond_viewport", Bool) \o Given("ref", Seen("ref")) \o Engine
page_read_text == locate_page \o Given("ref", Seen("ref")) \o Engine
page_click ==
    locate_page \o Seen("ref") \o Take("button", Str) \o As(Take("click_count", U64), U32)
        \o Take("realistic", Bool) \o Act("page", {"InternalError", "ElementNotActionable"})
page_type ==
    locate_page \o Seen("ref") \o Need("text", Str) \o Take("delay_ms", U64)
        \o Take("clear_first", Bool) \o Engine
page_keypress == locate_page \o Need("key", Str) \o modifier_bits \o Engine
\* Mutant: as_u64 of a param the schema takes for a number.
MutPageScroll == locate_page \o Take("dx", U64) \o Take("dy", F64) \o Given("ref", Seen("ref")) \o Engine
page_scroll == locate_page \o Take("dx", F64) \o Take("dy", F64) \o Given("ref", Seen("ref")) \o Engine
page_hover == locate_page \o Seen("ref") \o Act("page", {"InternalError", "ElementNotActionable"})
page_drag ==
    locate_page \o validate_snapshot_seq \o Snap \o Need("from_ref", Str) \o Need("to_ref", Str)
        \o Fail({"ElementStale"}) \o Engine
page_touch_tap ==
    locate_page \o Point \o Take("duration_ms", U64) \o As(Take("tap_count", U64), U32) \o Engine
page_touch_swipe ==
    locate_page \o Need("start_x", F64) \o Need("start_y", F64) \o Need("end_x", F64)
        \o Need("end_y", F64) \o Sweep \o Engine
page_touch_pinch ==
    locate_page \o Need("center_x", F64) \o Need("center_y", F64) \o Need("start_radius", F64)
        \o Need("end_radius", F64) \o Sweep \o Engine
page_touch_rotate ==
    locate_page \o Need("center_x", F64) \o Need("center_y", F64) \o Need("radius", F64)
        \o Need("angle_deg", F64) \o Sweep \o Engine
page_pointer_press ==
    locate_page \o Point \o Take("button", Str) \o As(Take("click_count", U64), U32)
        \o pointer_details \o Engine
page_pointer_move == locate_page \o Point \o Take("buttons", I64) \o pointer_details \o Engine
page_pointer_release ==
    locate_page \o Point \o Take("button", Str) \o As(Take("click_count", U64), U32)
        \o pointer_details \o Engine
page_gesture_pinch ==
    locate_page \o Need("center_x", F64) \o Need("center_y", F64) \o Need("start_radius", F64)
        \o Need("scale_factor", F64) \o Sweep \o Engine
page_gesture_rotate ==
    locate_page \o Need("center_x", F64) \o Need("center_y", F64) \o Need("radius", F64)
        \o Need("angle_deg", F64) \o Sweep \o Engine
page_gesture_longpress == locate_page \o Point \o Take("duration_ms", U64) \o Engine
page_drag_file_drop ==
    locate_page \o Seen("target_ref") \o Need("file_paths", Strs) \o Fail({"BadValue"}) \o Engine
page_keyboard_shortcut == locate_page \o Need("accel", Str) \o Engine
page_keyboard_ime == locate_page \o Need("composition_string", Str) \o Take("commit", Str) \o Engine
page_dead_key == locate_page \o Need("accent", Str) \o Need("base", Str) \o Fail({"BadValue"}) \o Engine
page_scroll_precise ==
    locate_page \o Take("dx", F64) \o Take("dy", F64) \o Given("ref", Seen("ref"))
        \o Take("momentum", Bool) \o scroll_easing \o Engine
page_tab_traversal ==
    locate_page \o OneOf("direction", PageDirection) \o As(Take("count", U64), U32) \o Engine
page_right_click_menu_navigate == locate_page \o Seen("ref") \o Need("item_path", Strs) \o Engine
page_eval ==
    Gate("eval", "PermissionDenied") \o locate_page \o Given("ref", Seen("ref"))
        \o Need("expression", Str) \o Fail({"BadValue"}) \o Take("return_by_value", Bool)
        \o Take("timeout_ms", U64) \o Act("page", {"InternalError", "Timeout"})

require_storage_state_capability == Gate("storage_state", "PermissionDenied")
page_origin == Fail({"ProtocolError"})
permission_origin_or_current(f) == Take(f, Str) \o GivenAs(f, Str, Fail({"BadValue"}))
Stored == Act("page", {"ProtocolError"})
run_json_eval == Act("page", {"ProtocolError"})
page_storage_call(action) ==
    require_storage_state_capability \o Take("key", Str) \o Take("expected", Str) \o locate_page
        \o (IF action \in {"set", "delete", "cas"} THEN Need("key", Str) ELSE <<>>)
        \o (IF action \in {"set", "cas"} THEN Need("value", Str) ELSE <<>>)
        \o run_json_eval
page_cookies ==
    locate_page \o Need("action", Str)
        \o GivenAs("action", Str \ CookieAction, Fail({"BadValue"}))
        \o GivenAs("action", {"set"}, Take("cookies", {"array", "badarray"}))
        \o GivenAs("action", {"clear"}, Take("domain", Str) \o Take("name", Str))
        \o Engine
page_cookies_deep_set ==
    require_storage_state_capability \o locate_page \o Need("cookie", Obj) \o Stored
page_storage ==
    require_storage_state_capability \o Check("scope", {}) \o Need("kind", Str) \o Need("action", Str)
        \o Check("args", {"object", "badobject"}) \o Need("tab_id", Json) \o Fail({"BadValue"})
        \o locate_page \o Fail({"BadValue"}) \o Stored
page_storage_quota == require_storage_state_capability \o locate_page \o page_origin \o Stored
Permission ==
    require_storage_state_capability \o locate_page \o page_origin
        \o permission_origin_or_current("origin") \o permission_origin_or_current("embedded_origin")
page_permissions_query ==
    Permission \o Fail({"BadValue"}) \o Need("permission", {"object", "badobject"}) \o run_json_eval
page_permissions_grant == Permission \o Need("permission", {"object", "badobject"}) \o Stored
page_permissions_revoke ==
    require_storage_state_capability \o locate_page \o page_origin
        \o Check("permission", {"object", "badobject"})
        \o Given("permission", permission_origin_or_current("origin")
                                   \o permission_origin_or_current("embedded_origin"))
        \o Stored
page_indexeddb_list_databases == require_storage_state_capability \o locate_page \o page_origin \o Stored
page_indexeddb_list_stores ==
    require_storage_state_capability \o locate_page \o page_origin \o Need("database_name", Str) \o Stored
page_indexeddb_query ==
    require_storage_state_capability \o locate_page \o page_origin \o Need("database_name", Str)
        \o Need("object_store_name", Str) \o Take("index_name", Json) \o Take("skip_count", U64)
        \o Take("page_size", U64) \o Take("key_range", Json) \o Stored
page_indexeddb_put ==
    require_storage_state_capability \o locate_page \o Need("database_name", Str)
        \o Need("object_store_name", Str) \o Need("key", Json) \o Need("value", Json)
        \o Take("database_version", U64) \o run_json_eval
page_indexeddb_delete ==
    require_storage_state_capability \o locate_page \o page_origin \o Need("database_name", Str)
        \o Need("object_store_name", Str) \o Need("key_range", Json) \o Stored
page_indexeddb_delete_database ==
    require_storage_state_capability \o locate_page \o page_origin \o Need("database_name", Str) \o Stored
page_cache_api_list == require_storage_state_capability \o locate_page \o page_origin \o Stored
page_cache_api_inspect ==
    require_storage_state_capability \o locate_page \o Need("cache_id", Str) \o Take("request_url", Str)
        \o GivenAs("request_url", Str, Take("request_headers", Json))
        \o GivenAs("request_url", Values \ Str,
                   Take("skip_count", U64) \o Take("page_size", U64) \o Take("path_filter", Str))
        \o Stored
page_cache_api_delete ==
    require_storage_state_capability \o locate_page \o Need("cache_id", Str) \o Take("request_url", Str)
        \o Stored

page_viewport ==
    locate_page \o As(Take("width", U64), U32) \o As(Take("height", U64), U32)
        \o Take("device_scale_factor", F64) \o Take("mobile", Bool) \o Engine
page_user_agent ==
    locate_page \o Need("user_agent", Str) \o Take("accept_language", Str) \o Take("platform", Str)
        \o Engine
page_geo ==
    locate_page \o Take("latitude", F64) \o Take("longitude", F64) \o Take("accuracy", F64) \o Engine
page_dark_mode == locate_page \o Take("enabled", Bool) \o Engine
parse_network_conditions ==
    Take("offline", Bool) \o Take("latency_ms", F64) \o Take("download_bps", F64)
        \o Take("upload_bps", F64)
parse_emulate_options == Take("locale", Str) \o Take("timezone", Str) \o Take("cpu_throttle", F64)
page_network_conditions == locate_page \o parse_network_conditions \o Engine
page_emulate == locate_page \o parse_emulate_options \o Engine
page_performance_timeline_start == locate_page \o Take("categories", Str) \o Engine
page_performance_timeline_stop == locate_page \o Engine
page_performance_metrics == locate_page \o Engine
page_coverage_js_start == locate_page \o Take("call_count", Bool) \o Take("detailed", Bool) \o Engine
page_coverage_js_take == locate_page \o Engine
page_coverage_css_start == locate_page \o Engine
page_coverage_css_take == locate_page \o Engine
page_heap_snapshot == locate_page \o Engine
page_heap_sample_alloc ==
    locate_page \o Need("duration_ms", U64) \o Take("sampling_interval_bytes", U64) \o Engine
page_cpu_profile == locate_page \o Need("duration_ms", U64) \o Engine
page_layout_metrics == locate_page \o Engine
page_paint_flash == locate_page \o Need("enable", Bool) \o Engine
\* PdfOptions is deserialized whole: a field of another class refuses the call.
Option(f, k) == Check(f, k \cup {"null"})
PdfOptions ==
    Option("landscape", Bool) \o Option("display_header_footer", Bool) \o Option("print_background", Bool)
        \o Option("scale", F64) \o Option("paper_width", F64) \o Option("paper_height", F64)
        \o Option("margin_top", F64) \o Option("margin_bottom", F64) \o Option("margin_left", F64)
        \o Option("margin_right", F64) \o Option("page_ranges", Str) \o Option("header_template", Str)
        \o Option("footer_template", Str) \o Option("prefer_css_page_size", Bool)
        \o Option("generate_tagged_pdf", Bool) \o Option("generate_document_outline", Bool)
        \o Option("force_stream", Bool)
page_pdf == locate_page \o PdfOptions \o Engine
page_print_preview ==
    locate_page \o Take("format", Str) \o Take("capture_beyond_viewport", Bool) \o Engine

parse_region == Take("region", Obj)
ensure_browser_pipeline ==
    Gate("vision", "InvalidParams") \o Fail({"TabNotFound"}) \o Act("vision", {"InternalError"})
See == Act("vision", {"InternalError"})
vision_read_text == Need("tab_id", Str) \o parse_region \o ensure_browser_pipeline \o See
vision_find_text ==
    Need("tab_id", Str) \o Need("query", Str) \o Take("is_regex", Bool) \o parse_region
        \o ensure_browser_pipeline \o See
vision_compare == Need("tab_id", Str) \o Need("ref_image_path", Str) \o ensure_browser_pipeline \o See
vision_fps ==
    Need("tab_id", Str) \o Need("fps", U64) \o Take("idle_fps", U64)
        \o Gate("continuous", "InvalidParams") \o ensure_browser_pipeline \o Act("vision", {"BadValue"})
vision_stability == Need("tab_id", Str) \o ensure_browser_pipeline
vision_changed_since == Need("tab_id", Str) \o Need("since_us", U64) \o ensure_browser_pipeline
ActionContext(f) == Need(f, Json) \o Fail({"BadValue"})
vision_verify_action == Need("tab_id", Str) \o ActionContext("action") \o ensure_browser_pipeline \o See
vision_pixel ==
    Need("tab_id", Str) \o As(Need("x", U64), U32) \o As(Need("y", U64), U32)
        \o ensure_browser_pipeline \o See
vision_region_classify == Need("tab_id", Str) \o Need("region", Obj) \o ensure_browser_pipeline \o See
vision_color_palette ==
    Need("tab_id", Str) \o parse_region \o As(Need("k", U64), U32) \o ensure_browser_pipeline
        \o Act("vision", {"BadValue"})
vision_text_style == Need("tab_id", Str) \o Need("region", Obj) \o ensure_browser_pipeline \o See
vision_layout_segments == Need("tab_id", Str) \o ensure_browser_pipeline \o See
vision_icon_recognize == Need("tab_id", Str) \o Need("region", Obj) \o ensure_browser_pipeline \o See
vision_qr_barcode == Need("tab_id", Str) \o parse_region \o ensure_browser_pipeline \o See
vision_scrollbar_position == Need("tab_id", Str) \o parse_region \o ensure_browser_pipeline \o See
vision_loading_detect == Need("tab_id", Str) \o ensure_browser_pipeline
vision_tooltip_detect == Need("tab_id", Str) \o ensure_browser_pipeline \o See
vision_modal_detect == Need("tab_id", Str) \o ensure_browser_pipeline \o See
vision_diff_semantic ==
    Need("tab_id", Str) \o Need("prev", Obj) \o Need("next", Obj) \o ActionContext("action_context")
        \o ensure_browser_pipeline \o Fail({"ElementStale"}) \o See
vision_animation_frames ==
    Need("tab_id", Str) \o As(Need("duration_ms", U64), U32) \o ensure_browser_pipeline
        \o Act("vision", {"BadValue"})
vision_face_blur ==
    Need("tab_id", Str) \o Gate("face_detect", "InvalidParams") \o parse_region \o Need("output", Str)
        \o ensure_browser_pipeline \o See

parse_wait_until == Check("wait_until", WaitUntil \cup {"null"})
validate_navigable_url == Fail({"NavigationFailed"})
tab_open ==
    Need("url", Str) \o validate_navigable_url \o parse_wait_until \o Act("page", {"NavigationFailed"})
tab_list == Act("page", {})
tab_close == Need("tab_id", Str) \o Act("page", {"TabNotFound"})
tab_focus == locate_page \o Engine
tab_navigate ==
    Need("tab_id", Str) \o Need("url", Str) \o validate_navigable_url \o parse_wait_until
        \o Fail({"TabNotFound"}) \o Act("page", {"NavigationFailed"})
\* A predicate is "load", "networkidle", {selector} or {url_regex}: of the
\* strings and objects the schema lets through the others are BadValue.
tab_wait ==
    Need("tab_id", Str) \o Take("timeout_ms", U64) \o Fail({"TabNotFound"}) \o Need("predicate", Json)
        \o GivenAs("predicate", Json \ {"load", "networkidle", "object"}, Need("predicate", {}))
        \o Act("page", {"Timeout"})
browser_context_create ==
    Take("label", Str) \o Take("persist", Bool) \o Take("trace", Bool) \o Take("vision", Str)
        \o GivenAs("vision", Str, Fail({"BadValue"})) \o Take("fps", U64) \o Take("idle_fps", U64)
        \o Act("page", {"InternalError"})
browser_context_list == Act("page", {})
browser_context_destroy ==
    Need("context_id", Str) \o <<[Fail({"ContextNotFound", "PermissionDenied"})[1] EXCEPT !.gate = "never"]>>

parse_mock_response == Take("response", {"object", "badobject"})
parse_request_overrides == Take("overrides", {"object", "badobject"})
compile_filter == GivenAs("filter", Str, Fail({"BadValue"}))
net_intercept ==
    locate_page \o Need("pattern", Str) \o Check("action", InterceptAction \cup {"null"}) \o Engine
net_mock == locate_page \o Need("url_pattern", Str) \o parse_mock_response \o Engine
net_observe == locate_page \o Take("filter", Str) \o compile_filter \o Act("page", {})
net_intercept_fulfill_with_body == locate_page \o Need("pattern", Str) \o parse_mock_response \o Engine
net_intercept_modify_request == locate_page \o Need("pattern", Str) \o parse_request_overrides \o Engine
net_intercept_fail == locate_page \o Need("pattern", Str) \o Take("error_reason", Str) \o Engine
net_replay == locate_page \o Need("request_id", Str) \o Engine
net_websocket_observe == locate_page \o Act("page", {})
net_websocket_inject_frame ==
    locate_page \o Need("url_substring", Str) \o Need("payload_base64", Str) \o Engine
net_eventsource_observe == locate_page \o Act("page", {})
net_har_export == locate_page \o Take("since_ts", F64) \o Engine
\* Any auth value, null too, becomes a ProxyAuth.
net_proxy ==
    Need("scheme", Str) \o Need("host", Str) \o As(Need("port", U64), U16) \o Take("auth", Json)
        \o Take("bypass", Str) \o Engine
net_mitm_cert_install ==
    Need("ca_pem", Str) \o <<[Fail({"InternalError"})[1] EXCEPT !.gate = "never"]>>

map_term_err == {"SessionNotFound", "BadValue", "PermissionDenied", "TabNotFound", "InternalError"}
OnTerm == Act("term", map_term_err)
optional_u16(f) == Check(f, U16)
required_u16(f) == Need(f, U16)
parse_env_map == Check("env", Obj)
term_spawn ==
    Need("shell", Str) \o Take("cwd", Str) \o parse_env_map \o optional_u16("rows")
        \o optional_u16("cols") \o OnTerm
term_write ==
    Need("session_id", Str) \o Take("text", Str)
        \o GivenAs("text", Values \ Str, Need("data_base64", Str) \o Fail({"BadValue"})) \o OnTerm
term_read == Need("session_id", Str) \o Take("max_bytes", U64) \o OnTerm
term_snapshot == Need("session_id", Str) \o OnTerm
term_resize == Need("session_id", Str) \o required_u16("rows") \o required_u16("cols") \o OnTerm
term_close == Need("session_id", Str) \o OnTerm
term_send_signal == Need("session_id", Str) \o Need("signal", Str) \o OnTerm
term_scrollback == Need("session_id", Str) \o Need("n_lines", U64) \o OnTerm
term_alt_screen_active == Need("session_id", Str) \o OnTerm
term_mouse_event ==
    Need("session_id", Str) \o required_u16("row") \o required_u16("col") \o Need("kind", Str)
        \o OneOf("kind", TermMouseEventKind) \o OneOf("button", TermMouseButton)
        \o Take("shift", Bool) \o Take("alt", Bool) \o Take("ctrl", Bool) \o OnTerm

map_system_err == {"PermissionDenied", "TabNotFound", "BadValue", "Timeout", "InternalError"}
require_system(cap) ==
    Gate("system", "PermissionDenied")
        \o (IF cap = "system" THEN <<>> ELSE Gate(cap, "PermissionDenied"))
OnHost(cap) == Act(cap, map_system_err)
Sys(cap, reads) == require_system(cap) \o reads \o OnHost(cap)
Capture == Need("path", Str) \o Need("duration_ms", U64)
system_audio ==
    "system.audio.output" :> Sys("system", <<>>) @@ "system.audio.input" :> Sys("microphone", <<>>) @@
    "system.audio.select" :> Need("direction", Str) \o OneOf("direction", SystemAudioDirection)
        \o GivenAs("direction", {"input"}, require_system("microphone"))
        \o require_system("system") \o Need("uid", Str)
        \o GivenAs("direction", {"input"}, OnHost("microphone"))
        \o GivenAs("direction", {"output"}, OnHost("system")) @@
    "system.audio.volume" :> Sys("system", As(Take("level", U64), U8)) @@
    "system.audio.mute" :> Sys("system", Take("value", Bool)) @@
    "system.audio.capture_to_file" :> Sys("screen", Capture) @@
    "system.mic.capture" :> Sys("microphone", Capture)
system_capture ==
    "system.camera.snapshot" :> Sys("camera", Need("path", Str) \o Take("device_id", Str)) @@
    "system.screen.list_displays" :> Sys("system", <<>>) @@
    "system.screen.capture_region" :> Sys("screen",
        Need("path", Str) \o As(Need("x", I64), I32) \o As(Need("y", I64), I32)
            \o As(Need("width", U64), U32) \o As(Need("height", U64), U32)
            \o As(Take("display_id", U64), U32))
system_devices ==
    "system.bluetooth.scan" :> Sys("bluetooth", Take("timeout_ms", U64)) @@
    "system.bluetooth.connect" :> Sys("bluetooth", Need("address", Str)) @@
    "system.bluetooth.disconnect" :> Sys("bluetooth", Need("address", Str)) @@
    "system.usb.devices" :> Sys("raw_usb", <<>>) @@ "system.battery" :> Sys("system", <<>>) @@
    "system.network.interfaces" :> Sys("system", <<>>) @@ "system.network.routes" :> Sys("system", <<>>) @@
    "system.network.connections" :> Sys("system", <<>>) @@ "system.process.list" :> Sys("system", <<>>)
system_host ==
    "system.process.info" :> Sys("system", As(Need("pid", I64), I32)) @@
    "system.process.signal" :> Sys("system", As(Need("pid", I64), I32) \o As(Need("signal", I64), I32)) @@
    "system.fsevents.watch" :> Sys("system", Need("paths", {"array", "badarray"})) @@
    "system.spotlight.query" :> Sys("system", Need("q", Str)) @@
    "system.metadata" :> Sys("system", Need("path", Str))
system_dispatch == system_audio @@ system_capture @@ system_devices @@ system_host

dispatch_page ==
    "browser.context.create" :> browser_context_create @@
    "browser.context.list" :> browser_context_list @@
    "browser.context.destroy" :> browser_context_destroy @@ "tab.open" :> tab_open @@
    "tab.list" :> tab_list @@ "tab.close" :> tab_close @@ "tab.focus" :> tab_focus @@
    "tab.navigate" :> tab_navigate @@ "tab.wait" :> tab_wait @@ "page.snapshot" :> page_snapshot @@
    "page.screenshot" :> page_screenshot @@ "page.read_text" :> page_read_text @@
    "page.click" :> page_click @@ "page.type" :> page_type @@ "page.keypress" :> page_keypress @@
    "page.scroll" :> page_scroll @@ "page.hover" :> page_hover @@ "page.drag" :> page_drag @@
    "page.touch.tap" :> page_touch_tap @@ "page.touch.swipe" :> page_touch_swipe @@
    "page.touch.pinch" :> page_touch_pinch @@ "page.touch.rotate" :> page_touch_rotate @@
    "page.pointer.press" :> page_pointer_press @@ "page.pointer.move" :> page_pointer_move @@
    "page.pointer.release" :> page_pointer_release @@ "page.gesture.pinch" :> page_gesture_pinch @@
    "page.gesture.rotate" :> page_gesture_rotate @@
    "page.gesture.longpress" :> page_gesture_longpress @@
    "page.drag.file_drop" :> page_drag_file_drop @@
    "page.keyboard.shortcut" :> page_keyboard_shortcut @@ "page.keyboard.ime" :> page_keyboard_ime @@
    "page.dead_key" :> page_dead_key @@ "page.scroll.precise" :> page_scroll_precise @@
    "page.tab_traversal" :> page_tab_traversal @@
    "page.right_click_menu_navigate" :> page_right_click_menu_navigate @@ "page.eval" :> page_eval @@
    "page.cookies" :> page_cookies @@ "page.cookies.deep_set" :> page_cookies_deep_set @@
    "page.storage" :> page_storage @@ "page.localstorage.get" :> page_storage_call("get") @@
    "page.localstorage.set" :> page_storage_call("set") @@
    "page.localstorage.delete" :> page_storage_call("delete") @@
    "page.localstorage.clear" :> page_storage_call("clear") @@
    "page.localstorage.cas" :> page_storage_call("cas") @@
    "page.sessionstorage.get" :> page_storage_call("get") @@
    "page.sessionstorage.set" :> page_storage_call("set") @@
    "page.sessionstorage.delete" :> page_storage_call("delete") @@
    "page.sessionstorage.clear" :> page_storage_call("clear") @@
    "page.sessionstorage.cas" :> page_storage_call("cas") @@
    "page.indexeddb.list_databases" :> page_indexeddb_list_databases @@
    "page.indexeddb.list_stores" :> page_indexeddb_list_stores @@
    "page.indexeddb.query" :> page_indexeddb_query @@ "page.indexeddb.put" :> page_indexeddb_put @@
    "page.indexeddb.delete" :> page_indexeddb_delete @@
    "page.indexeddb.delete_database" :> page_indexeddb_delete_database @@
    "page.cache_api.list" :> page_cache_api_list @@
    "page.cache_api.inspect" :> page_cache_api_inspect @@
    "page.cache_api.delete" :> page_cache_api_delete @@
    "page.permissions.query" :> page_permissions_query @@
    "page.permissions.grant" :> page_permissions_grant @@
    "page.permissions.revoke" :> page_permissions_revoke @@
    "page.storage.quota" :> page_storage_quota @@ "page.viewport" :> page_viewport @@
    "page.user_agent" :> page_user_agent @@ "page.geo" :> page_geo @@
    "page.dark_mode" :> page_dark_mode @@ "page.network_conditions" :> page_network_conditions @@
    "page.emulate" :> page_emulate @@
    "page.performance.timeline_start" :> page_performance_timeline_start @@
    "page.performance_timeline_start" :> page_performance_timeline_start @@
    "page.performance.timeline_stop" :> page_performance_timeline_stop @@
    "page.performance_timeline_stop" :> page_performance_timeline_stop @@
    "page.performance.metrics" :> page_performance_metrics @@
    "page.performance_metrics" :> page_performance_metrics @@
    "page.coverage.js_start" :> page_coverage_js_start @@
    "page.coverage_js_start" :> page_coverage_js_start @@
    "page.coverage.js_take" :> page_coverage_js_take @@
    "page.coverage_js_take" :> page_coverage_js_take @@
    "page.coverage.css_start" :> page_coverage_css_start @@
    "page.coverage_css_start" :> page_coverage_css_start @@
    "page.coverage.css_take" :> page_coverage_css_take @@
    "page.coverage_css_take" :> page_coverage_css_take @@ "page.heap.snapshot" :> page_heap_snapshot @@
    "page.heap_snapshot" :> page_heap_snapshot @@ "page.heap.sample_alloc" :> page_heap_sample_alloc @@
    "page.heap_sample_alloc" :> page_heap_sample_alloc @@ "page.cpu.profile" :> page_cpu_profile @@
    "page.cpu_profile" :> page_cpu_profile @@ "page.layout.metrics" :> page_layout_metrics @@
    "page.layout_metrics" :> page_layout_metrics @@ "page.paint.flash" :> page_paint_flash @@
    "page.paint_flash" :> page_paint_flash @@ "page.pdf" :> page_pdf @@
    "page.print_preview" :> page_print_preview
net_dispatch ==
    "net.intercept" :> net_intercept @@ "net.mock" :> net_mock @@ "net.observe" :> net_observe @@
    "net.intercept.fulfill_with_body" :> net_intercept_fulfill_with_body @@
    "net.intercept.modify_request" :> net_intercept_modify_request @@
    "net.intercept.fail" :> net_intercept_fail @@ "net.replay" :> net_replay @@
    "net.websocket.observe" :> net_websocket_observe @@
    "net.websocket.inject_frame" :> net_websocket_inject_frame @@
    "net.eventsource.observe" :> net_eventsource_observe @@ "net.har.export" :> net_har_export @@
    "net.proxy" :> net_proxy @@ "net.mitm_cert.install" :> net_mitm_cert_install
dispatch_perception ==
    "vision.read_text" :> vision_read_text @@ "vision.find_text" :> vision_find_text @@
    "vision.compare" :> vision_compare @@ "vision.fps" :> vision_fps @@
    "vision.stability" :> vision_stability @@ "vision.changed_since" :> vision_changed_since @@
    "vision.verify_action" :> vision_verify_action @@ "vision.pixel" :> vision_pixel @@
    "vision.region.classify" :> vision_region_classify @@
    "vision.color.palette" :> vision_color_palette @@ "vision.text.style" :> vision_text_style @@
    "vision.layout.segments" :> vision_layout_segments @@
    "vision.icon.recognize" :> vision_icon_recognize @@ "vision.qr_barcode" :> vision_qr_barcode @@
    "vision.scrollbar.position" :> vision_scrollbar_position @@
    "vision.loading.detect" :> vision_loading_detect @@
    "vision.tooltip.detect" :> vision_tooltip_detect @@ "vision.modal.detect" :> vision_modal_detect @@
    "vision.diff.semantic" :> vision_diff_semantic @@
    "vision.animation.frames" :> vision_animation_frames @@ "vision.face_blur" :> vision_face_blur @@
    "term.spawn" :> term_spawn @@ "term.write" :> term_write @@ "term.read" :> term_read @@
    "term.snapshot" :> term_snapshot @@ "term.resize" :> term_resize @@ "term.close" :> term_close @@
    "term.send_signal" :> term_send_signal @@ "term.scrollback" :> term_scrollback @@
    "term.alt_screen_active" :> term_alt_screen_active @@ "term.mouse_event" :> term_mouse_event
\* dispatch: the program of the handler a method is routed to.
Handlers == dispatch_page @@ net_dispatch @@ dispatch_perception @@ system_dispatch @@ dispatch_app
supported_methods_1 == {
    "session.register", "session.unregister", "_internal.ping", "_internal.status",
    "_internal.metrics", "browser.context.create", "browser.context.list", "browser.context.destroy",
    "tab.open", "tab.list", "tab.close", "tab.focus", "tab.navigate", "tab.wait", "page.snapshot",
    "page.screenshot", "page.read_text", "page.click", "page.type", "page.keypress", "page.scroll",
    "page.hover", "page.drag", "page.touch.tap", "page.touch.swipe", "page.touch.pinch",
    "page.touch.rotate", "page.pointer.press", "page.pointer.move", "page.pointer.release",
    "page.gesture.pinch", "page.gesture.rotate", "page.gesture.longpress", "page.drag.file_drop",
    "page.keyboard.shortcut", "page.keyboard.ime", "page.dead_key", "page.scroll.precise",
    "page.tab_traversal", "page.right_click_menu_navigate", "page.eval", "page.cookies",
    "page.cookies.deep_set", "page.storage", "page.localstorage.get", "page.localstorage.set",
    "page.localstorage.delete", "page.localstorage.clear", "page.localstorage.cas",
    "page.sessionstorage.get", "page.sessionstorage.set", "page.sessionstorage.delete",
    "page.sessionstorage.clear", "page.sessionstorage.cas", "page.indexeddb.list_databases",
    "page.indexeddb.list_stores", "page.indexeddb.query", "page.indexeddb.put",
    "page.indexeddb.delete", "page.indexeddb.delete_database", "page.cache_api.list",
    "page.cache_api.inspect", "page.cache_api.delete", "page.permissions.query",
    "page.permissions.grant", "page.permissions.revoke", "page.storage.quota", "page.viewport",
    "page.user_agent", "page.geo", "page.dark_mode", "page.network_conditions",
    "page.performance.timeline_start", "page.performance.timeline_stop", "page.performance.metrics",
    "page.coverage.js_start", "page.coverage.js_take", "page.coverage.css_start",
    "page.coverage.css_take", "page.heap.snapshot", "page.heap.sample_alloc", "page.cpu.profile",
    "page.layout.metrics", "page.paint.flash", "page.pdf", "page.print_preview", "net.intercept",
    "net.mock", "net.observe", "net.intercept.fulfill_with_body", "net.intercept.modify_request",
    "net.intercept.fail", "net.replay", "net.websocket.observe", "net.websocket.inject_frame",
    "net.eventsource.observe", "net.har.export", "net.proxy", "net.mitm_cert.install",
    "vision.read_text", "vision.find_text", "vision.compare", "vision.fps", "vision.stability",
    "vision.changed_since", "vision.verify_action", "vision.pixel", "vision.region.classify",
    "vision.color.palette", "vision.text.style", "vision.layout.segments", "vision.icon.recognize",
    "vision.qr_barcode", "vision.scrollbar.position", "vision.loading.detect", "vision.tooltip.detect",
    "vision.modal.detect", "vision.diff.semantic", "vision.animation.frames", "vision.face_blur",
    "term.spawn", "term.write", "term.read", "term.snapshot", "term.resize", "term.close",
    "term.send_signal", "term.scrollback", "term.alt_screen_active", "term.mouse_event",
    "system.audio.output", "system.audio.input", "system.audio.select", "system.audio.volume",
    "system.audio.mute", "system.audio.capture_to_file", "system.mic.capture",
    "system.camera.snapshot", "system.screen.capture_region", "system.screen.list_displays",
    "system.bluetooth.scan"}
supported_methods_2 == {
    "system.bluetooth.connect", "system.bluetooth.disconnect", "system.usb.devices", "system.battery",
    "system.network.interfaces", "system.network.routes", "system.network.connections",
    "system.process.list", "system.process.info", "system.process.signal", "system.fsevents.watch",
    "system.spotlight.query", "system.metadata", "app.list", "app.snapshot", "app.click", "app.type",
    "app.scroll", "app.eval", "app.menu.list", "app.menu.click", "app.statusmenu.click",
    "app.notification_center.open", "app.notification_center.list", "app.notification_center.click",
    "app.notification_center.dismiss", "app.spotlight.open", "app.spotlight.query",
    "app.spotlight.select", "app.spaces.list", "app.spaces.switch_to", "app.spaces.move_window",
    "app.dock.list", "app.dock.click", "app.dock.reveal_app", "app.window.list", "app.window.raise",
    "app.window.minimize", "app.window.fullscreen", "app.window.move", "app.window.resize",
    "app.touchbar.tap", "app.gesture.three_finger_swipe", "app.force_touch", "app.ime.list",
    "app.ime.switch", "app.ime.set_input_source", "app.shortcut.run", "app.automator.run",
    "app.applescript", "app.javascript_for_automation", "app.terminal.spawn_session",
    "app.quicklook.preview", "app.quicklook.close", "clipboard.read_string", "clipboard.write_string",
    "clipboard.read_files", "clipboard.write_files", "clipboard.read_image", "clipboard.write_image",
    "clipboard.types", "clipboard.history", "drag.from_finder", "drag.between_apps", "app.subscribe",
    "app.unsubscribe"}
\* supported_methods: what the broker tells a client at session.register.
supported_methods == supported_methods_1 \cup supported_methods_2
===============================================================================
