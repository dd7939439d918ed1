------------------------------ MODULE ToolSchemas ------------------------------
(***************************************************************************)
(* The argument structs of the MCP tools (crates/mcp-server/src/schema.rs) *)
(* and the tables of tools.rs that attach them to tool names.  A JSON      *)
(* value is abstracted to its class; a type of the schema is the set of    *)
(* the classes serde deserializes into it, and a struct the types of its   *)
(* required and of its optional fields.  No struct denies unknown fields.  *)
(***************************************************************************)
EXTENDS TLC

\* Words are the enum names some tool spells out; "text" is any other string.
Words == {"load", "domcontentloaded", "networkidle", "png", "jpeg", "left", "right", "middle", "none",
          "forward", "backward", "linear", "ease_out", "ease_in_out", "get", "set", "clear",
          "local", "session", "indexeddb", "continue", "fulfill", "fail", "input", "output",
          "press", "release", "move", "scroll_up", "scroll_down"}
Str  == {"text"} \cup Words
Bool == {"bool"}
U8   == {"small"}                     \* small: fits every integer type
U16  == {"small"}
U32  == {"small", "wide"}             \* wide: above 16 bits
U64  == {"small", "wide", "big"}      \* big: above 32 bits
I32  == {"small", "neg"}
I64  == {"small", "wide", "big", "neg"}
F64  == I64 \cup {"frac"}
Strs == {"array"}                     \* badarray: an array with a member of another kind
Obj  == {"object"}                    \* badobject: an object that misses a required member
Json == Str \cup Bool \cup F64 \cup {"array", "badarray", "object", "badobject", "null"}
NoFields == <<>>
Args(req, opt) == [req |-> req, opt |-> opt]

BrowserContextCreate == Args(NoFields, [label |-> Str, persist |-> Bool, stealth |-> Bool, trace |-> Bool,
    vision |-> Str, fps |-> U32, idle_fps |-> U32])
BrowserContextList == Args(NoFields, NoFields)
BrowserContextDestroy == Args([context_id |-> Str], NoFields)
WaitUntil == {"load", "domcontentloaded", "networkidle"}
TabOpen == Args([url |-> Str], [wait_until |-> WaitUntil, timeout_ms |-> U64])
TabList == Args(NoFields, NoFields)
TabClose == Args([tab_id |-> Str], NoFields)
TabFocus == Args([tab_id |-> Str], NoFields)
TabNavigate == Args([tab_id |-> Str, url |-> Str], [wait_until |-> WaitUntil, timeout_ms |-> U64])
TabWaitPredicate == Str \cup Json
TabWait == Args([tab_id |-> Str, predicate |-> TabWaitPredicate], [timeout_ms |-> U64])
PageSnapshot == Args([tab_id |-> Str], [since_seq |-> U64])
ImageFormat == {"png", "jpeg"}
PageScreenshot == Args([tab_id |-> Str], [format |-> ImageFormat, quality |-> U8,
    capture_beyond_viewport |-> Bool, ref |-> Str])
PageReadText == Args([tab_id |-> Str], [ref |-> Str])
MouseButton == {"left", "right", "middle"}
PageClick == Args([tab_id |-> Str, ref |-> Str], [button |-> MouseButton, click_count |-> U8,
    realistic |-> Bool])
PageType == Args([tab_id |-> Str, ref |-> Str, text |-> Str], [delay_ms |-> U32,
    clear_first |-> Bool])
PageDirection == {"forward", "backward"}
PageScrollEasing == {"linear", "ease_out", "ease_in_out"}
PageTouchTap == Args([tab_id |-> Str, x |-> F64, y |-> F64], [duration_ms |-> U64, tap_count |-> U32])
PageTouchSwipe == Args([tab_id |-> Str, start_x |-> F64, start_y |-> F64, end_x |-> F64,
    end_y |-> F64], [steps |-> U32, duration_ms |-> U64])
PageTouchPinch == Args([tab_id |-> Str, center_x |-> F64, center_y |-> F64, start_radius |-> F64,
    end_radius |-> F64], [steps |-> U32, duration_ms |-> U64])
PageTouchRotate == Args([tab_id |-> Str, center_x |-> F64, center_y |-> F64, radius |-> F64,
    angle_deg |-> F64], [steps |-> U32, duration_ms |-> U64])
PagePointerPress == Args([tab_id |-> Str, x |-> F64, y |-> F64], [button |-> MouseButton,
    click_count |-> U32, pressure |-> F64, tangential_pressure |-> F64, tilt_x |-> F64, tilt_y |-> F64,
    twist |-> I64])
PagePointerMove == Args([tab_id |-> Str, x |-> F64, y |-> F64], [buttons |-> I64, pressure |-> F64,
    tangential_pressure |-> F64, tilt_x |-> F64, tilt_y |-> F64, twist |-> I64])
PagePointerRelease == Args([tab_id |-> Str, x |-> F64, y |-> F64], [button |-> MouseButton,
    click_count |-> U32, pressure |-> F64, tangential_pressure |-> F64, tilt_x |-> F64, tilt_y |-> F64,
    twist |-> I64])
PageGesturePinch == Args([tab_id |-> Str, center_x |-> F64, center_y |-> F64, start_radius |-> F64,
    scale_factor |-> F64], [steps |-> U32, duration_ms |-> U64])
PageGestureRotate == Args([tab_id |-> Str, center_x |-> F64, center_y |-> F64, radius |-> F64,
    angle_deg |-> F64], [steps |-> U32, duration_ms |-> U64])
PageGestureLongpress == Args([tab_id |-> Str, x |-> F64, y |-> F64], [duration_ms |-> U64])
PageDragFileDrop == Args([tab_id |-> Str, target_ref |-> Str, file_paths |-> Strs], NoFields)
PageKeyboardShortcut == Args([tab_id |-> Str, accel |-> Str], NoFields)
PageKeyboardIme == Args([tab_id |-> Str, composition_string |-> Str], [commit |-> Str])
PageDeadKey == Args([tab_id |-> Str, accent |-> Str, base |-> Str], NoFields)
PageScrollPrecise == Args([tab_id |-> Str, dx |-> F64, dy |-> F64], [ref |-> Str, momentum |-> Bool,
    easing |-> PageScrollEasing])
PageTabTraversal == Args([tab_id |-> Str, direction |-> PageDirection], [count |-> U32])
PageRightClickMenuNavigate == Args([tab_id |-> Str, ref |-> Str, item_path |-> Strs], NoFields)
PageKeypress == Args([tab_id |-> Str, key |-> Str], [modifiers |-> Strs])
PageScroll == Args([tab_id |-> Str, dx |-> F64, dy |-> F64], [ref |-> Str])
PageHover == Args([tab_id |-> Str, ref |-> Str], NoFields)
PageDrag == Args([tab_id |-> Str, from_ref |-> Str, to_ref |-> Str], NoFields)
PageEval == Args([tab_id |-> Str, expression |-> Str], [ref |-> Str, return_by_value |-> Bool])
CookieAction == {"get", "set", "clear"}
PageCookies == Args([tab_id |-> Str, action |-> CookieAction], [cookies |-> Json, domain |-> Str,
    name |-> Str])
StorageKind == {"local", "session", "indexeddb"}
PageStorage == Args([tab_id |-> Str, kind |-> StorageKind, action |-> Str], [args |-> Json])
PageStorageGet == Args([tab_id |-> Str], [key |-> Str])
PageStorageSet == Args([tab_id |-> Str, key |-> Str, value |-> Str], NoFields)
PageStorageDelete == Args([tab_id |-> Str, key |-> Str], NoFields)
PageStorageClear == Args([tab_id |-> Str], NoFields)
PageStorageCas == Args([tab_id |-> Str, key |-> Str, value |-> Str], [expected |-> Str])
PageCookieDeepSetCookie == Obj
PageCookiesDeepSet == Args([tab_id |-> Str, cookie |-> PageCookieDeepSetCookie], NoFields)
PageStorageQuota == Args([tab_id |-> Str], NoFields)
PagePermissionsQuery == Args([tab_id |-> Str, permission |-> Json], [origin |-> Str,
    embedded_origin |-> Str])
PagePermissionsGrant == Args([tab_id |-> Str, permission |-> Json], [origin |-> Str,
    embedded_origin |-> Str])
PagePermissionsRevoke == Args([tab_id |-> Str], [permission |-> Json, origin |-> Str,
    embedded_origin |-> Str])
PageIndexeddbListDatabases == Args([tab_id |-> Str], NoFields)
PageIndexeddbListStores == Args([tab_id |-> Str, database_name |-> Str], NoFields)
PageIndexeddbQuery == Args([tab_id |-> Str, database_name |-> Str, object_store_name |-> Str],
    [index_name |-> Str, skip_count |-> U32, page_size |-> U32, key_range |-> Json])
PageIndexeddbPut == Args([tab_id |-> Str, database_name |-> Str, object_store_name |-> Str,
    key |-> Json, value |-> Json], [database_version |-> U64])
PageIndexeddbDelete == Args([tab_id |-> Str, database_name |-> Str, object_store_name |-> Str,
    key_range |-> Json], NoFields)
PageIndexeddbDeleteDatabase == Args([tab_id |-> Str, database_name |-> Str], NoFields)
PageCacheApiList == Args([tab_id |-> Str], [filter |-> Str])
PageCacheApiInspect == Args([tab_id |-> Str, cache_id |-> Str], [request_url |-> Str,
    request_headers |-> Json, skip_count |-> U32, page_size |-> U32, path_filter |-> Str])
PageCacheApiDelete == Args([tab_id |-> Str, cache_id |-> Str], [request_url |-> Str])
PageViewport == Args([tab_id |-> Str, width |-> U32, height |-> U32], [device_scale_factor |-> F64,
    mobile |-> Bool])
PageUserAgent == Args([tab_id |-> Str], [user_agent |-> Str, accept_language |-> Str,
    platform |-> Str])
PageGeo == Args([tab_id |-> Str, latitude |-> F64, longitude |-> F64], [accuracy |-> F64])
PageDarkMode == Args([tab_id |-> Str, enabled |-> Bool], NoFields)
PageNetworkConditions == Args([tab_id |-> Str], [offline |-> Bool, latency_ms |-> U32,
    download_bps |-> U64, upload_bps |-> U64])
PageEmulate == Args([tab_id |-> Str], [locale |-> Str, timezone |-> Str, cpu_throttle |-> F64])
PagePerformanceTimelineStart == Args([tab_id |-> Str], [categories |-> Str])
PagePerformanceTimelineStop == Args([tab_id |-> Str], NoFields)
PagePerformanceMetrics == Args([tab_id |-> Str], NoFields)
PageCoverageJsStart == Args([tab_id |-> Str], [call_count |-> Bool, detailed |-> Bool])
PageCoverageJsTake == Args([tab_id |-> Str], NoFields)
PageCoverageCssStart == Args([tab_id |-> Str], NoFields)
PageCoverageCssTake == Args([tab_id |-> Str], NoFields)
PageHeapSnapshot == Args([tab_id |-> Str], NoFields)
PageHeapSampleAlloc == Args([tab_id |-> Str, duration_ms |-> U64], [sampling_interval_bytes |-> U64])
PageCpuProfile == Args([tab_id |-> Str, duration_ms |-> U64], NoFields)
PageLayoutMetrics == Args([tab_id |-> Str], NoFields)
PagePaintFlash == Args([tab_id |-> Str, enable |-> Bool], NoFields)
PagePdf == Args([tab_id |-> Str], [landscape |-> Bool, display_header_footer |-> Bool,
    print_background |-> Bool, scale |-> F64, paper_width |-> F64, paper_height |-> F64,
    margin_top |-> F64, margin_bottom |-> F64, margin_left |-> F64, margin_right |-> F64,
    page_ranges |-> Str, header_template |-> Str, footer_template |-> Str,
    prefer_css_page_size |-> Bool, generate_tagged_pdf |-> Bool, generate_document_outline |-> Bool,
    force_stream |-> Bool])
PagePrintPreview == Args([tab_id |-> Str], [format |-> Str, capture_beyond_viewport |-> Bool])
InterceptAction == {"continue", "fulfill", "fail"}
NetIntercept == Args([tab_id |-> Str, pattern |-> Str, action |-> InterceptAction],
    [overrides |-> Json])
NetMockResponse == Obj
NetMock == Args([tab_id |-> Str, url_pattern |-> Str, response |-> NetMockResponse], NoFields)
NetObserve == Args([tab_id |-> Str], [filter |-> Str])
NetInterceptFulfillWithBody == Args([tab_id |-> Str, pattern |-> Str, response |-> NetMockResponse],
    NoFields)
NetRequestOverrides == Obj
NetInterceptModifyRequest == Args([tab_id |-> Str, pattern |-> Str, overrides |-> NetRequestOverrides],
    NoFields)
NetInterceptFail == Args([tab_id |-> Str, pattern |-> Str, error_reason |-> Str], NoFields)
NetReplay == Args([tab_id |-> Str, request_id |-> Str], NoFields)
NetWebsocketObserve == Args([tab_id |-> Str], NoFields)
NetWebsocketInjectFrame == Args([tab_id |-> Str, url_substring |-> Str, payload_base64 |-> Str], NoFields)
NetEventsourceObserve == Args([tab_id |-> Str], NoFields)
NetHarExport == Args([tab_id |-> Str], [since_ts |-> F64])
NetProxyAuth == Obj
NetProxy == Args([scheme |-> Str, host |-> Str, port |-> U16], [auth |-> NetProxyAuth,
    bypass |-> Str])
NetMitmCertInstall == Args([ca_pem |-> Str], NoFields)
Bbox == Obj
VisionReadText == Args([tab_id |-> Str], [region |-> Bbox])
VisionFindText == Args([tab_id |-> Str, query |-> Str], [is_regex |-> Bool, region |-> Bbox])
VisionCompare == Args([tab_id |-> Str, ref_image_path |-> Str], NoFields)
VisionFps == Args([tab_id |-> Str, fps |-> U32], [idle_fps |-> U32])
VisionStability == Args([tab_id |-> Str], NoFields)
VisionChangedSince == Args([tab_id |-> Str, since_us |-> U64], NoFields)
VisionVerifyAction == Args([tab_id |-> Str, action |-> Json], NoFields)
VisionPixel == Args([tab_id |-> Str, x |-> U32, y |-> U32], NoFields)
VisionRegionClassify == Args([tab_id |-> Str, region |-> Bbox], NoFields)
VisionColorPalette == Args([tab_id |-> Str, k |-> U32], [region |-> Bbox])
VisionTextStyle == Args([tab_id |-> Str, region |-> Bbox], NoFields)
VisionLayoutSegments == Args([tab_id |-> Str], NoFields)
VisionIconRecognize == Args([tab_id |-> Str, region |-> Bbox], NoFields)
VisionQrBarcode == Args([tab_id |-> Str], [region |-> Bbox])
VisionScrollbarPosition == Args([tab_id |-> Str], [region |-> Bbox])
VisionLoadingDetect == Args([tab_id |-> Str], NoFields)
VisionTooltipDetect == Args([tab_id |-> Str], NoFields)
VisionModalDetect == Args([tab_id |-> Str], NoFields)
VisionFrameRef == Obj
VisionDiffSemantic == Args([tab_id |-> Str, prev |-> VisionFrameRef, next |-> VisionFrameRef,
    action_context |-> Json], NoFields)
VisionAnimationFrames == Args([tab_id |-> Str, duration_ms |-> U32], NoFields)
VisionFaceBlur == Args([tab_id |-> Str, output |-> Str], [region |-> Bbox])
SystemAudioOutput == Args(NoFields, NoFields)
SystemAudioInput == Args(NoFields, NoFields)
SystemAudioDirection == {"input", "output"}
SystemAudioSelect == Args([direction |-> SystemAudioDirection, uid |-> Str], NoFields)
SystemAudioVolume == Args(NoFields, [level |-> U8])
SystemAudioMute == Args(NoFields, [value |-> Bool])
SystemAudioCaptureToFile == Args([path |-> Str, duration_ms |-> U64], NoFields)
SystemMicCapture == Args([path |-> Str, duration_ms |-> U64], NoFields)
SystemCameraSnapshot == Args([path |-> Str], [device_id |-> Str])
SystemScreenCaptureRegion == Args([path |-> Str, x |-> I64, y |-> I64, width |-> U64, height |-> U64],
    [display_id |-> U32])
SystemScreenListDisplays == Args(NoFields, NoFields)
SystemBluetoothScan == Args(NoFields, [timeout_ms |-> U64])
SystemBluetoothConnect == Args([address |-> Str], NoFields)
SystemBluetoothDisconnect == Args([address |-> Str], NoFields)
SystemUsbDevices == Args(NoFields, NoFields)
SystemBattery == Args(NoFields, NoFields)
SystemNetworkInterfaces == Args(NoFields, NoFields)
SystemNetworkRoutes == Args(NoFields, NoFields)
SystemNetworkConnections == Args(NoFields, NoFields)
SystemProcessList == Args(NoFields, NoFields)
SystemProcessInfo == Args([pid |-> I32], NoFields)
SystemProcessSignal == Args([pid |-> I32, signal |-> I32], NoFields)
SystemFseventsWatch == Args([paths |-> Strs], [events |-> Strs])
SystemSpotlightQuery == Args([q |-> Str], NoFields)
SystemMetadata == Args([path |-> Str], NoFields)
TermSpawn == Args([shell |-> Str], [cwd |-> Str, env |-> Obj, cols |-> U16, rows |-> U16])
TermWrite == Args([session_id |-> Str], [text |-> Str, data_base64 |-> Str])
TermRead == Args([session_id |-> Str], [max_bytes |-> U64])
TermSnapshot == Args([session_id |-> Str], NoFields)
TermResize == Args([session_id |-> Str, cols |-> U16, rows |-> U16], NoFields)
TermClose == Args([session_id |-> Str], NoFields)
TermSendSignal == Args([session_id |-> Str, signal |-> Str], NoFields)
TermScrollback == Args([session_id |-> Str, n_lines |-> U64], NoFields)
TermAltScreenActive == Args([session_id |-> Str], NoFields)
TermMouseEventKind == {"press", "release", "move", "scroll_up", "scroll_down"}
TermMouseButton == {"left", "middle", "right", "none"}
TermMouseEvent == Args([session_id |-> Str, row |-> U16, col |-> U16, kind |-> TermMouseEventKind],
    [button |-> TermMouseButton, shift |-> Bool, alt |-> Bool, ctrl |-> Bool])
AppList == Args(NoFields, NoFields)
AppSnapshot == Args([app_id |-> Str], NoFields)
AppClick == Args([app_id |-> Str, ref |-> Str], NoFields)
AppType == Args([app_id |-> Str, ref |-> Str, text |-> Str], [clear_first |-> Bool])
AppScroll == Args([app_id |-> Str, dx |-> F64, dy |-> F64], [ref |-> Str])
AppEval == Args([app_id |-> Str, applescript |-> Str], NoFields)

\* TOOL_NAMES: the canonical names, in the order tools/list presents them.
TOOL_NAMES_1 == {
    "browser.context.create", "browser.context.list", "browser.context.destroy", "tab.open",
    "tab.list", "tab.close", "tab.focus", "tab.navigate", "tab.wait", "page.snapshot",
    "page.screenshot", "page.read_text", "page.click", "page.type", "page.keypress", "page.scroll",
    "page.hover", "page.drag", "page.touch.tap", "page.touch.swipe", "page.touch.pinch",
    "page.touch.rotate", "page.pointer.press", "page.pointer.move", "page.pointer.release",
    "page.gesture.pinch", "page.gesture.rotate", "page.gesture.longpress", "page.drag.file_drop",
    "page.keyboard.shortcut", "page.keyboard.ime", "page.dead_key", "page.scroll.precise",
    "page.tab_traversal", "page.right_click_menu_navigate", "page.eval", "page.cookies",
    "page.cookies.deep_set", "page.storage", "page.localstorage.get", "page.localstorage.set",
    "page.localstorage.delete", "page.localstorage.clear", "page.localstorage.cas",
    "page.sessionstorage.get", "page.sessionstorage.set", "page.sessionstorage.delete",
    "page.sessionstorage.clear", "page.sessionstorage.cas", "page.indexeddb.list_databases",
    "page.indexeddb.list_stores", "page.indexeddb.query", "page.indexeddb.put",
    "page.indexeddb.delete", "page.indexeddb.delete_database", "page.cache_api.list",
    "page.cache_api.inspect", "page.cache_api.delete", "page.permissions.query",
    "page.permissions.grant", "page.permissions.revoke", "page.storage.quota", "page.viewport",
    "page.user_agent", "page.geo", "page.dark_mode", "page.network_conditions", "page.emulate",
    "page.performance_timeline_start", "page.performance_timeline_stop", "page.performance_metrics",
    "page.coverage_js_start", "page.coverage_js_take", "page.coverage_css_start",
    "page.coverage_css_take", "page.heap_snapshot", "page.heap_sample_alloc", "page.cpu_profile",
    "page.layout_metrics", "page.paint_flash", "page.pdf", "page.print_preview", "net.intercept",
    "net.mock", "net.observe", "net.intercept.fulfill_with_body", "net.intercept.modify_request",
    "net.intercept.fail", "net.replay", "net.websocket.observe", "net.websocket.inject_frame",
    "net.eventsource.observe", "net.har.export", "net.proxy", "net.mitm_cert.install",
    "vision.read_text", "vision.find_text", "vision.compare", "vision.fps", "vision.stability",
    "vision.changed_since", "vision.verify_action", "vision.pixel", "vision.region.classify",
    "vision.color.palette", "vision.text.style", "vision.layout.segments", "vision.icon.recognize",
    "vision.qr_barcode", "vision.scrollbar.position", "vision.loading.detect", "vision.tooltip.detect",
    "vision.modal.detect", "vision.diff.semantic", "vision.animation.frames", "vision.face_blur",
    "term.spawn", "term.write", "term.read", "term.snapshot", "term.resize", "term.close",
    "term.send_signal", "term.scrollback", "term.alt_screen_active", "term.mouse_event",
    "system.audio.output", "system.audio.input", "system.audio.select", "system.audio.volume",
    "system.audio.mute", "system.audio.capture_to_file", "system.mic.capture",
    "system.camera.snapshot", "system.screen.capture_region", "system.screen.list_displays",
    "system.bluetooth.scan", "system.bluetooth.connect", "system.bluetooth.disconnect",
    "system.usb.devices", "system.battery", "system.network.interfaces"}
TOOL_NAMES_2 == {
    "system.network.routes", "system.network.connections", "system.process.list",
    "system.process.info", "system.process.signal", "system.fsevents.watch", "system.spotlight.query",
    "system.metadata", "app.list", "app.snapshot", "app.click", "app.type", "app.scroll", "app.eval"}
TOOL_NAMES == TOOL_NAMES_1 \cup TOOL_NAMES_2
build_list_1 ==
    "browser.context.create" :> BrowserContextCreate @@ "browser.context.list" :> BrowserContextList @@
    "browser.context.destroy" :> BrowserContextDestroy @@ "tab.open" :> TabOpen @@
    "tab.list" :> TabList @@ "tab.close" :> TabClose @@ "tab.focus" :> TabFocus @@
    "tab.navigate" :> TabNavigate @@ "tab.wait" :> TabWait @@ "page.snapshot" :> PageSnapshot @@
    "page.screenshot" :> PageScreenshot @@ "page.read_text" :> PageReadText @@
    "page.click" :> PageClick @@ "page.type" :> PageType @@ "page.keypress" :> PageKeypress @@
    "page.scroll" :> PageScroll @@ "page.hover" :> PageHover @@ "page.drag" :> PageDrag @@
    "page.touch.tap" :> PageTouchTap @@ "page.touch.swipe" :> PageTouchSwipe @@
    "page.touch.pinch" :> PageTouchPinch @@ "page.touch.rotate" :> PageTouchRotate @@
    "page.pointer.press" :> PagePointerPress @@ "page.pointer.move" :> PagePointerMove @@
    "page.pointer.release" :> PagePointerRelease @@ "page.gesture.pinch" :> PageGesturePinch @@
    "page.gesture.rotate" :> PageGestureRotate @@ "page.gesture.longpress" :> PageGestureLongpress @@
    "page.drag.file_drop" :> PageDragFileDrop @@ "page.keyboard.shortcut" :> PageKeyboardShortcut @@
    "page.keyboard.ime" :> PageKeyboardIme
build_list_2 ==
    "page.dead_key" :> PageDeadKey @@ "page.scroll.precise" :> PageScrollPrecise @@
    "page.tab_traversal" :> PageTabTraversal @@
    "page.right_click_menu_navigate" :> PageRightClickMenuNavigate @@ "page.eval" :> PageEval @@
    "page.cookies" :> PageCookies @@ "page.cookies.deep_set" :> PageCookiesDeepSet @@
    "page.storage" :> PageStorage @@ "page.localstorage.get" :> PageStorageGet @@
    "page.localstorage.set" :> PageStorageSet @@ "page.localstorage.delete" :> PageStorageDelete @@
    "page.localstorage.clear" :> PageStorageClear @@ "page.localstorage.cas" :> PageStorageCas @@
    "page.sessionstorage.get" :> PageStorageGet @@ "page.sessionstorage.set" :> PageStorageSet @@
    "page.sessionstorage.delete" :> PageStorageDelete @@
    "page.sessionstorage.clear" :> PageStorageClear @@ "page.sessionstorage.cas" :> PageStorageCas @@
    "page.indexeddb.list_databases" :> PageIndexeddbListDatabases @@
    "page.indexeddb.list_stores" :> PageIndexeddbListStores @@
    "page.indexeddb.query" :> PageIndexeddbQuery @@ "page.indexeddb.put" :> PageIndexeddbPut @@
    "page.indexeddb.delete" :> PageIndexeddbDelete @@
    "page.indexeddb.delete_database" :> PageIndexeddbDeleteDatabase @@
    "page.cache_api.list" :> PageCacheApiList @@ "page.cache_api.inspect" :> PageCacheApiInspect @@
    "page.cache_api.delete" :> PageCacheApiDelete @@
    "page.permissions.query" :> PagePermissionsQuery @@ "page.permissions.grant" :> PagePermissionsGrant
build_list_3 ==
    "page.permissions.revoke" :> PagePermissionsRevoke @@ "page.storage.quota" :> PageStorageQuota @@
    "page.viewport" :> PageViewport @@ "page.user_agent" :> PageUserAgent @@ "page.geo" :> PageGeo @@
    "page.dark_mode" :> PageDarkMode @@ "page.network_conditions" :> PageNetworkConditions @@
    "page.emulate" :> PageEmulate @@
    "page.performance_timeline_start" :> PagePerformanceTimelineStart @@
    "page.performance_timeline_stop" :> PagePerformanceTimelineStop @@
    "page.performance_metrics" :> PagePerformanceMetrics @@
    "page.coverage_js_start" :> PageCoverageJsStart @@ "page.coverage_js_take" :> PageCoverageJsTake @@
    "page.coverage_css_start" :> PageCoverageCssStart @@
    "page.coverage_css_take" :> PageCoverageCssTake @@ "page.heap_snapshot" :> PageHeapSnapshot @@
    "page.heap_sample_alloc" :> PageHeapSampleAlloc @@ "page.cpu_profile" :> PageCpuProfile @@
    "page.layout_metrics" :> PageLayoutMetrics @@ "page.paint_flash" :> PagePaintFlash @@
    "page.pdf" :> PagePdf @@ "page.print_preview" :> PagePrintPreview @@
    "net.intercept" :> NetIntercept @@ "net.mock" :> NetMock @@ "net.observe" :> NetObserve @@
    "net.intercept.fulfill_with_body" :> NetInterceptFulfillWithBody @@
    "net.intercept.modify_request" :> NetInterceptModifyRequest @@
    "net.intercept.fail" :> NetInterceptFail @@ "net.replay" :> NetReplay
build_list_4 ==
    "net.websocket.observe" :> NetWebsocketObserve @@
    "net.websocket.inject_frame" :> NetWebsocketInjectFrame @@
    "net.eventsource.observe" :> NetEventsourceObserve @@ "net.har.export" :> NetHarExport @@
    "net.proxy" :> NetProxy @@ "net.mitm_cert.install" :> NetMitmCertInstall @@
    "vision.read_text" :> VisionReadText @@ "vision.find_text" :> VisionFindText @@
    "vision.compare" :> VisionCompare @@ "vision.fps" :> VisionFps @@
    "vision.stability" :> VisionStability @@ "vision.changed_since" :> VisionChangedSince @@
    "vision.verify_action" :> VisionVerifyAction @@ "vision.pixel" :> VisionPixel @@
    "vision.region.classify" :> VisionRegionClassify @@ "vision.color.palette" :> VisionColorPalette @@
    "vision.text.style" :> VisionTextStyle @@ "vision.layout.segments" :> VisionLayoutSegments @@
    "vision.icon.recognize" :> VisionIconRecognize @@ "vision.qr_barcode" :> VisionQrBarcode @@
    "vision.scrollbar.position" :> VisionScrollbarPosition @@
    "vision.loading.detect" :> VisionLoadingDetect @@ "vision.tooltip.detect" :> VisionTooltipDetect @@
    "vision.modal.detect" :> VisionModalDetect @@ "vision.diff.semantic" :> VisionDiffSemantic @@
    "vision.animation.frames" :> VisionAnimationFrames @@ "vision.face_blur" :> VisionFaceBlur @@
    "term.spawn" :> TermSpawn @@ "term.write" :> TermWrite
build_list_5 ==
    "term.read" :> TermRead @@ "term.snapshot" :> TermSnapshot @@ "term.resize" :> TermResize @@
    "term.close" :> TermClose @@ "term.send_signal" :> TermSendSignal @@
    "term.scrollback" :> TermScrollback @@ "term.alt_screen_active" :> TermAltScreenActive @@
    "term.mouse_event" :> TermMouseEvent @@ "system.audio.output" :> SystemAudioOutput @@
    "system.audio.input" :> SystemAudioInput @@ "system.audio.select" :> SystemAudioSelect @@
    "system.audio.volume" :> SystemAudioVolume @@ "system.audio.mute" :> SystemAudioMute @@
    "system.audio.capture_to_file" :> SystemAudioCaptureToFile @@
    "system.mic.capture" :> SystemMicCapture @@ "system.camera.snapshot" :> SystemCameraSnapshot @@
    "system.screen.capture_region" :> SystemScreenCaptureRegion @@
    "system.screen.list_displays" :> SystemScreenListDisplays @@
    "system.bluetooth.scan" :> SystemBluetoothScan @@
    "system.bluetooth.connect" :> SystemBluetoothConnect @@
    "system.bluetooth.disconnect" :> SystemBluetoothDisconnect @@
    "system.usb.devices" :> SystemUsbDevices @@ "system.battery" :> SystemBattery @@
    "system.network.interfaces" :> SystemNetworkInterfaces @@
    "system.network.routes" :> SystemNetworkRoutes @@
    "system.network.connections" :> SystemNetworkConnections @@
    "system.process.list" :> SystemProcessList @@ "system.process.info" :> SystemProcessInfo @@
    "system.process.signal" :> SystemProcessSignal
build_list_6 ==
    "system.fsevents.watch" :> SystemFseventsWatch @@
    "system.spotlight.query" :> SystemSpotlightQuery @@ "system.metadata" :> SystemMetadata @@
    "app.list" :> AppList @@ "app.snapshot" :> AppSnapshot @@ "app.click" :> AppClick @@
    "app.type" :> AppType @@ "app.scroll" :> AppScroll @@ "app.eval" :> AppEval
\* build_list: the struct whose JSON schema tools/list reports for a tool.
build_list == build_list_1 @@ build_list_2 @@ build_list_3 @@ build_list_4 @@ build_list_5 @@ build_list_6
validated_1 ==
    "browser.context.create" :> BrowserContextCreate @@ "browser.context.list" :> BrowserContextList @@
    "browser.context.destroy" :> BrowserContextDestroy @@ "tab.open" :> TabOpen @@
    "tab.list" :> TabList @@ "tab.close" :> TabClose @@ "tab.focus" :> TabFocus @@
    "tab.navigate" :> TabNavigate @@ "tab.wait" :> TabWait @@ "page.snapshot" :> PageSnapshot @@
    "page.screenshot" :> PageScreenshot @@ "page.read_text" :> PageReadText @@
    "page.click" :> PageClick @@ "page.type" :> PageType @@ "page.keypress" :> PageKeypress @@
    "page.scroll" :> PageScroll @@ "page.hover" :> PageHover @@ "page.drag" :> PageDrag @@
    "page.touch.tap" :> PageTouchTap @@ "page.touch.swipe" :> PageTouchSwipe @@
    "page.touch.pinch" :> PageTouchPinch @@ "page.touch.rotate" :> PageTouchRotate @@
    "page.pointer.press" :> PagePointerPress @@ "page.pointer.move" :> PagePointerMove @@
    "page.pointer.release" :> PagePointerRelease @@ "page.gesture.pinch" :> PageGesturePinch @@
    "page.gesture.rotate" :> PageGestureRotate @@ "page.gesture.longpress" :> PageGestureLongpress @@
    "page.drag.file_drop" :> PageDragFileDrop @@ "page.keyboard.shortcut" :> PageKeyboardShortcut @@
    "page.keyboard.ime" :> PageKeyboardIme @@ "page.dead_key" :> PageDeadKey @@
    "page.scroll.precise" :> PageScrollPrecise @@ "page.tab_traversal" :> PageTabTraversal @@
    "page.right_click_menu_navigate" :> PageRightClickMenuNavigate @@ "page.eval" :> PageEval @@
    "page.cookies" :> PageCookies @@ "page.cookies.deep_set" :> PageCookiesDeepSet @@
    "page.storage" :> PageStorage @@ "page.localstorage.get" :> PageStorageGet @@
    "page.localstorage.set" :> PageStorageSet @@ "page.localstorage.delete" :> PageStorageDelete @@
    "page.localstorage.clear" :> PageStorageClear @@ "page.localstorage.cas" :> PageStorageCas @@
    "page.sessionstorage.get" :> PageStorageGet @@ "page.sessionstorage.set" :> PageStorageSet @@
    "page.sessionstorage.delete" :> PageStorageDelete @@
    "page.sessionstorage.clear" :> PageStorageClear @@ "page.sessionstorage.cas" :> PageStorageCas @@
    "page.indexeddb.list_databases" :> PageIndexeddbListDatabases @@
    "page.indexeddb.list_stores" :> PageIndexeddbListStores @@
    "page.indexeddb.query" :> PageIndexeddbQuery @@ "page.indexeddb.put" :> PageIndexeddbPut @@
    "page.indexeddb.delete" :> PageIndexeddbDelete @@
    "page.indexeddb.delete_database" :> PageIndexeddbDeleteDatabase @@
    "page.cache_api.list" :> PageCacheApiList @@ "page.cache_api.inspect" :> PageCacheApiInspect @@
    "page.cache_api.delete" :> PageCacheApiDelete @@
    "page.permissions.query" :> PagePermissionsQuery @@
    "page.permissions.grant" :> PagePermissionsGrant @@
    "page.permissions.revoke" :> PagePermissionsRevoke @@ "page.storage.quota" :> PageStorageQuota @@
    "page.viewport" :> PageViewport @@ "page.user_agent" :> PageUserAgent @@ "page.geo" :> PageGeo @@
    "page.dark_mode" :> PageDarkMode @@ "page.network_conditions" :> PageNetworkConditions @@
    "page.emulate" :> PageEmulate @@
    "page.performance_timeline_start" :> PagePerformanceTimelineStart @@
    "page.performance_timeline_stop" :> PagePerformanceTimelineStop @@
    "page.performance_metrics" :> PagePerformanceMetrics @@
    "page.coverage_js_start" :> PageCoverageJsStart @@ "page.coverage_js_take" :> PageCoverageJsTake @@
    "page.coverage_css_start" :> PageCoverageCssStart @@
    "page.coverage_css_take" :> PageCoverageCssTake @@ "page.heap_snapshot" :> PageHeapSnapshot @@
    "page.heap_sample_alloc" :> PageHeapSampleAlloc @@ "page.cpu_profile" :> PageCpuProfile @@
    "page.layout_metrics" :> PageLayoutMetrics @@ "page.paint_flash" :> PagePaintFlash @@
    "page.pdf" :> PagePdf @@ "page.print_preview" :> PagePrintPreview @@
    "net.intercept" :> NetIntercept @@ "net.mock" :> NetMock @@ "net.observe" :> NetObserve @@
    "net.intercept.fulfill_with_body" :> NetInterceptFulfillWithBody @@
    "net.intercept.modify_request" :> NetInterceptModifyRequest @@
    "net.intercept.fail" :> NetInterceptFail @@ "net.replay" :> NetReplay @@
    "net.websocket.observe" :> NetWebsocketObserve @@
    "net.websocket.inject_frame" :> NetWebsocketInjectFrame @@
    "net.eventsource.observe" :> NetEventsourceObserve @@ "net.har.export" :> NetHarExport @@
    "net.proxy" :> NetProxy @@ "net.mitm_cert.install" :> NetMitmCertInstall @@
    "vision.read_text" :> VisionReadText @@ "vision.find_text" :> VisionFindText @@
    "vision.compare" :> VisionCompare @@ "vision.fps" :> VisionFps @@
    "vision.stability" :> VisionStability @@ "vision.changed_since" :> VisionChangedSince @@
    "vision.verify_action" :> VisionVerifyAction @@ "vision.pixel" :> VisionPixel @@
    "vision.region.classify" :> VisionRegionClassify @@ "vision.color.palette" :> VisionColorPalette @@
    "vision.text.style" :> VisionTextStyle @@ "vision.layout.segments" :> VisionLayoutSegments @@
    "vision.icon.recognize" :> VisionIconRecognize @@ "vision.qr_barcode" :> VisionQrBarcode @@
    "vision.scrollbar.position" :> VisionScrollbarPosition @@
    "vision.loading.detect" :> VisionLoadingDetect @@ "vision.tooltip.detect" :> VisionTooltipDetect @@
    "vision.modal.detect" :> VisionModalDetect @@ "vision.diff.semantic" :> VisionDiffSemantic @@
    "vision.animation.frames" :> VisionAnimationFrames @@ "vision.face_blur" :> VisionFaceBlur @@
    "term.spawn" :> TermSpawn @@ "term.write" :> TermWrite @@ "term.read" :> TermRead @@
    "term.snapshot" :> TermSnapshot @@ "term.resize" :> TermResize @@ "term.close" :> TermClose @@
    "term.send_signal" :> TermSendSignal @@ "term.scrollback" :> TermScrollback @@
    "term.alt_screen_active" :> TermAltScreenActive @@ "term.mouse_event" :> TermMouseEvent @@
    "system.audio.output" :> SystemAudioOutput @@ "system.audio.input" :> SystemAudioInput @@
    "system.audio.select" :> SystemAudioSelect @@ "system.audio.volume" :> SystemAudioVolume @@
    "system.audio.mute" :> SystemAudioMute
validated_2 ==
    "system.audio.capture_to_file" :> SystemAudioCaptureToFile @@
    "system.mic.capture" :> SystemMicCapture @@ "system.camera.snapshot" :> SystemCameraSnapshot @@
    "system.screen.capture_region" :> SystemScreenCaptureRegion @@
    "system.screen.list_displays" :> SystemScreenListDisplays @@
    "system.bluetooth.scan" :> SystemBluetoothScan @@
    "system.bluetooth.connect" :> SystemBluetoothConnect @@
    "system.bluetooth.disconnect" :> SystemBluetoothDisconnect @@
    "system.usb.devices" :> SystemUsbDevices @@ "system.battery" :> SystemBattery @@
    "system.network.interfaces" :> SystemNetworkInterfaces @@
    "system.network.routes" :> SystemNetworkRoutes @@
    "system.network.connections" :> SystemNetworkConnections @@
    "system.process.list" :> SystemProcessList @@ "system.process.info" :> SystemProcessInfo @@
    "system.process.signal" :> SystemProcessSignal @@ "system.fsevents.watch" :> SystemFseventsWatch @@
    "system.spotlight.query" :> SystemSpotlightQuery @@ "system.metadata" :> SystemMetadata @@
    "app.list" :> AppList @@ "app.snapshot" :> AppSnapshot @@ "app.click" :> AppClick @@
    "app.type" :> AppType @@ "app.scroll" :> AppScroll @@ "app.eval" :> AppEval
\* validate_args: the struct tools/call deserializes the arguments into.
validated == validated_1 @@ validated_2
================================================================================
