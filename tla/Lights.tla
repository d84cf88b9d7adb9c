------------------------------- MODULE Lights -------------------------------
(***************************************************************************)
(* The lights HAL (liblight/lights.c): one pair of LEDs, green and red,    *)
(* shared by the attention, notification and battery lights, and the LCD   *)
(* backlight.  Every set_light function does all its writes under g_lock,  *)
(* so each call is one step whichever thread of the framework makes it.    *)
(***************************************************************************)
EXTENDS Integers, FiniteSets

CONSTANTS Alphas,  \* values of the top byte of a colour: brightness or battery level
          Times,   \* milliseconds a light may be told to be on or off
          Levels   \* brightness levels the framework gives the backlight

VARIABLES g_lights,  \* the last state of "ATTENTION" and "NOTIFICATION"
          opened,    \* the light devices that have been opened
          green, red,        \* what the LEDs were last told
          lcd,               \* what the backlight was last told
          batteryLast        \* the battery light wrote the LEDs last

vars == <<g_lights, opened, green, red, lcd, batteryLast>>

LED_LIGHT_OFF == 0
LED_LIGHT_ON == 255
LightNames == {"backlight", "notifications", "attention", "battery"}
Led == [brightness: 0..LED_LIGHT_ON, pwm: Nat]

(* struct light_state_t.  A colour is lit or not, and is so whether or not *)
(* the light is told to flash; the times count only if it is.              *)
Off == [rgb |-> 0, alpha |-> 0, flash |-> FALSE, onMS |-> 0, offMS |-> 0]
LightStates ==
  {Off} \cup [rgb: {0, 1}, alpha: Alphas, flash: {FALSE}, onMS: {0}, offMS: {0}]
        \cup [rgb: {0, 1}, alpha: Alphas, flash: {TRUE}, onMS: Times, offMS: Times]

TypeOK == /\ g_lights \in [{"ATTENTION", "NOTIFICATION"} -> LightStates]
          /\ opened \subseteq LightNames
          /\ green \in Led /\ red \in Led /\ lcd \in 0..255 /\ batteryLast \in BOOLEAN

Init == /\ g_lights = [l \in {"ATTENTION", "NOTIFICATION"} |-> Off]
        /\ opened = {}
        /\ green = [brightness |-> 0, pwm |-> 0] /\ red = green /\ lcd = 0
        /\ batteryLast = FALSE

open_lights(name) == /\ name \in LightNames \ opened
                     /\ opened' = opened \cup {name}
                     /\ UNCHANGED <<g_lights, green, red, lcd, batteryLast>>

close_lights(name) == /\ name \in opened
                      /\ opened' = opened \ {name}
                      /\ UNCHANGED <<g_lights, green, red, lcd, batteryLast>>

is_lit(state) == state.rgb # 0

rgb_to_brightness(r, g, b) == (77 * r + 150 * g + 29 * b) \div 256

(* set_light_backlight: the framework sends a level as a shade of grey. *)
set_light_backlight(level) == /\ "backlight" \in opened
                              /\ lcd' = rgb_to_brightness(level, level, level)
                              /\ UNCHANGED <<g_lights, opened, green, red, batteryLast>>

(* The share of time a blinking light is on, of 255, at least 16 if any. *)
fake_pwm(onMS, offMS) ==
  LET p == (onMS * 255) \div (onMS + offMS)
  IN  IF p > 0 /\ p < 16 THEN 16 ELSE p

Blinks(state) == state.flash /\ state.onMS > 0 /\ state.offMS > 0

brightness_level(state) ==
  IF ~is_lit(state) THEN LED_LIGHT_OFF
  ELSE IF state.alpha # 0 THEN state.alpha ELSE LED_LIGHT_ON

(* set_light_locked: both LEDs off, then the green one as told. *)
set_light_locked(state) ==
  /\ red' = [red EXCEPT !.brightness = LED_LIGHT_OFF]
  /\ green' = IF Blinks(state)
              THEN [brightness |-> fake_pwm(state.onMS, state.offMS), pwm |-> state.offMS * 1000]
              ELSE [brightness |-> brightness_level(state), pwm |-> 100]

(* What is shown if the light that was just set always wins. *)
LastSetWins(lights, state) == state

(* handle_led_prioritized_locked: attention before notification before the *)
(* state just set.                                                         *)
Prioritized(lights, state) ==
  CASE is_lit(lights["ATTENTION"]) -> lights["ATTENTION"]
    [] ~is_lit(lights["ATTENTION"]) /\ is_lit(lights["NOTIFICATION"]) -> lights["NOTIFICATION"]
    [] OTHER -> state

handle_led_prioritized_locked(light, state) ==
  /\ g_lights' = [g_lights EXCEPT ![light] = state]
  /\ set_light_locked(Prioritized(g_lights', state))
  /\ batteryLast' = FALSE
  /\ UNCHANGED <<opened, lcd>>

set_light_notifications(state) == /\ "notifications" \in opened
                                  /\ handle_led_prioritized_locked("NOTIFICATION", state)

set_light_attention(state) == /\ "attention" \in opened
                              /\ handle_led_prioritized_locked("ATTENTION", state)

(* set_light_battery: red up to 15 %, both up to 99 %, then green; the     *)
(* notification that may own the LEDs is not looked at.                    *)
set_light_battery(state) ==
  /\ "battery" \in opened
  /\ LET level == IF state.alpha > 100 THEN 100 ELSE state.alpha
         lit(on, led) == IF is_lit(state) /\ on
                         THEN [brightness |-> 255, pwm |-> 100]
                         ELSE [led EXCEPT !.brightness = LED_LIGHT_OFF]
     IN  /\ green' = lit(level > 15, green)
         /\ red' = lit(level <= 99, red)
  /\ batteryLast' = TRUE
  /\ UNCHANGED <<g_lights, opened, lcd>>

Next == \/ \E name \in LightNames : open_lights(name) \/ close_lights(name)
        \/ \E level \in Levels : set_light_backlight(level)
        \/ \E state \in LightStates : \/ set_light_notifications(state)
                                      \/ set_light_attention(state)
                                      \/ set_light_battery(state)

Spec == Init /\ [][Next]_vars

-----------------------------------------------------------------------------
(* An LED shows a lit light: it blinks at the light's pace, unless         *)
(* the time it is on is so short a part that fake_pwm rounds it to zero,   *)
(* or is as bright as the light's alpha says, and never off.               *)
ShowsLit(led, state) ==
  IF Blinks(state)
  THEN /\ led.pwm = state.offMS * 1000
       /\ (led.brightness > 0) = (255 * state.onMS >= state.onMS + state.offMS)
  ELSE led.brightness = IF state.alpha = 0 THEN 255 ELSE state.alpha

(* Unless the battery light wrote last, the LEDs show the attention light  *)
(* while it is lit, else the notification light while that is, and the red *)
(* one stays dark.  With neither lit both are dark, if neither light is    *)
(* told to flash: set_light_locked makes an unlit light flash too.         *)
LedFollowsPriority ==
  ~batteryLast =>
    LET attention == g_lights["ATTENTION"]
        notification == g_lights["NOTIFICATION"]
    IN  /\ red.brightness = 0
        /\ is_lit(attention) => ShowsLit(green, attention)
        /\ ~is_lit(attention) /\ is_lit(notification) => ShowsLit(green, notification)
        /\ ~(\E light \in {attention, notification} : is_lit(light) \/ Blinks(light)) =>
             green.brightness = 0

=============================================================================
