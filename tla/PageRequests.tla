---------------------------- MODULE PageRequests ----------------------------
(***************************************************************************)
(* The page.* requests as data: the input commands each method of           *)
(* crates/browser-engine/src/actions.rs sends, in order, and for each        *)
(* handler of crates/broker/src/router/page.rs the methods it may call, the  *)
(* refs it resolves first and whether each must have a box.  Coordinates,    *)
(* easing, delays and text are left out; a path of several moves is one      *)
(* command, repeated taps and characters are one or two.                   *)
(***************************************************************************)
EXTENDS Sequences

CONSTANTS Buttons   \* the mouse buttons clicks are asked for

ASSUME ButtonsAssumption == Buttons \subseteq {"left", "middle", "right"}

(* Input: what each method sends, in order.  A command takes hold of a set   *)
(* of devices, lets go of one, or does neither; "must" is FALSE where the    *)
(* code drops the error.                                                   *)

Command(kind, what, must) == [kind |-> kind, what |-> what, must |-> must]
Down(what) == Command("down", what, TRUE)
Up(what) == Command("up", what, TRUE)
Other == Command("other", {}, TRUE)
Fingers == {"finger1", "finger2"}
Lasting == {"emulation", "pen"}
Devices == Fingers \union Lasting \union {"left", "middle", "right", "key", "drag", "composition"}

Key == <<Down({"key"}), Up({"key"})>>
SelectAllAndErase ==
    LET Try(k) == Command(k, {"key"}, FALSE) IN <<Try("down"), Try("up"), Try("down"), Try("up")>>
click(b) == <<Other, Down({b}), Up({b})>>
type_text(clear) == click("left") \o (IF clear THEN SelectAllAndErase ELSE <<>>) \o Key
keypress_with_modifiers == Key
precise_scroll == <<Other>>
hover == <<Other>>
(* Mutant: the button stays down at the end of the path. *)
MutDrag == <<Other, Down({"left"}), Other>>
drag == <<Other, Down({"left"}), Other, Up({"left"})>>

Touch(fingers, path) == <<Down({"emulation"}), Down(fingers)>> \o path \o <<Up(Fingers)>>
touch_tap == Touch({"finger1"}, <<>>)
touch_swipe == Touch({"finger1"}, <<Other>>)
touch_pinch == Touch(Fingers, <<Other>>)
touch_rotate == Touch(Fingers, <<Other>>)
gesture_pinch == touch_pinch
gesture_rotate == touch_rotate
gesture_longpress == touch_tap
pointer_press == <<Down({"pen"})>>
pointer_move == <<Other>>
pointer_release == <<Up({"pen"})>>
file_drop == <<Down({"drag"}), Other, Up({"drag"})>>
keyboard_shortcut == Key
keyboard_ime(commit) ==
    <<Down({"composition"})>> \o (IF commit THEN <<Other>> ELSE <<>>) \o <<Up({"composition"})>>
dead_key(hint) == (IF hint THEN Key ELSE <<>>) \o <<Other>>
tab_traversal == keypress_with_modifiers \o keypress_with_modifiers
right_click_menu_navigate == click("right") \o <<Other>>
read_text == <<Other>>
screenshot == <<Other>>
eval == <<Other>>

-----------------------------------------------------------------------------
(* The handlers of router/page.rs: which sequence a request sends, how many  *)
(* refs it resolves first and whether each must have a box.                *)

OnRefs(prog, n, area) == [prog |-> prog, refs |-> n, area |-> area]
page_click == {OnRefs(click(b), 1, TRUE) : b \in Buttons}
page_type == {OnRefs(type_text(clear), 1, TRUE) : clear \in BOOLEAN}
page_keypress == {OnRefs(keypress_with_modifiers, 0, FALSE)}
page_scroll == {OnRefs(precise_scroll, n, TRUE) : n \in {0, 1}}
page_hover == {OnRefs(hover, 1, TRUE)}
page_drag == {OnRefs(drag, 2, TRUE)}
page_touch == {OnRefs(p, 0, FALSE) : p \in {touch_tap, touch_swipe, touch_pinch, touch_rotate}}
page_pointer == {OnRefs(p, 0, FALSE) : p \in {pointer_press, pointer_move, pointer_release}}
page_gesture == {OnRefs(p, 0, FALSE) : p \in {gesture_pinch, gesture_rotate, gesture_longpress}}
page_drag_file_drop == {OnRefs(file_drop, 1, FALSE)}
page_keyboard == {OnRefs(p, 0, FALSE) : p \in {keyboard_shortcut} \union {keyboard_ime(b) : b \in BOOLEAN}}
page_dead_key == {OnRefs(dead_key(hint), 0, FALSE) : hint \in BOOLEAN}
page_scroll_precise == {OnRefs(precise_scroll, n, TRUE) : n \in {0, 1}}
page_tab_traversal == {OnRefs(tab_traversal, 0, FALSE)}
page_right_click_menu_navigate == {OnRefs(right_click_menu_navigate, 1, TRUE)}
page_screenshot == {OnRefs(screenshot, n, FALSE) : n \in {0, 1}}
page_read_text == {OnRefs(read_text, n, FALSE) : n \in {0, 1}}
page_eval == {OnRefs(eval, n, FALSE) : n \in {0, 1}}

Requests ==
    page_click \union page_type \union page_keypress \union page_scroll \union page_hover
    \union page_drag \union page_touch \union page_pointer \union page_gesture
    \union page_drag_file_drop \union page_keyboard \union page_dead_key
    \union page_scroll_precise \union page_tab_traversal
    \union page_right_click_menu_navigate \union page_screenshot \union page_read_text
    \union page_eval

=============================================================================
