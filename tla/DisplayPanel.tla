---------------------------- MODULE DisplayPanel ----------------------------
(***************************************************************************)
(* The panel below the display session: display_session_initialize takes   *)
(* the board's I2C lease and the MIPI-DSI resources in order, cleanup      *)
(* gives them back whatever failed.  The backlight is a register behind    *)
(* the lease.  One task calls both, so a step is one driver call.          *)
(***************************************************************************)
EXTENDS Integers, Sequences

CONSTANT MaxFaults   \* bound: driver calls that fail

VARIABLES held,      \* the handles of DisplaySession and the board's bus and lease
          light,     \* the backlight register: 0 or 1
          power,     \* "off", "opening", "on" or "closing"
          stage,     \* the next step of Opening or Closing
          error,     \* cleanup's first_error, as 0 or 1
          faults

panelVars == <<held, light, power, stage, error, faults>>

\* The stages of display_session_initialize.  "lit_off" powers the panel up with the
\* backlight off; "prime" blackens the framebuffer and switches the display on.
Opening == <<"bus", "lease", "lit_off", "ldo", "dsi_bus", "dbi_io", "panel",
             "framebuffer", "prime", "vsync">>

\* The steps of display_control_deinit.
Deinit == <<"lit_off", "lease", "bus">>

\* Mutant of Closing: the panel is torn down before the backlight is switched off.
ClosingLit ==
    <<"vsync", "panel", "lit_off", "dbi_io", "dsi_bus", "ldo">> \o Deinit \o <<"framebuffer">>

\* The steps of cleanup.
Closing ==
    <<"vsync", "lit_off", "panel", "dbi_io", "dsi_bus", "ldo">> \o Deinit \o <<"framebuffer">>

Handles == {"bus", "lease", "ldo", "dsi_bus", "dbi_io", "panel", "framebuffer", "vsync"}

PanelInit ==
    /\ held = {} /\ light = 0 /\ power = "off" /\ stage = 1 /\ error = 0 /\ faults = 0

\* display_control_is_initialized
Reachable == {"bus", "lease"} \subseteq held

\* A stage succeeds.
OpenStage ==
    /\ power = "opening" /\ stage <= Len(Opening)
    /\ held' = held \cup ({Opening[stage]} \cap Handles)
    /\ light' = IF Opening[stage] = "lit_off" THEN 0 ELSE light
    /\ stage' = stage + 1
    /\ UNCHANGED <<power, error, faults>>

PanelOn ==
    /\ power = "opening" /\ stage > Len(Opening)
    /\ power' = "on"
    /\ UNCHANGED <<held, light, stage, error, faults>>

BeginClose == power' = "closing" /\ stage' = 1 /\ error' = 0

\* acquire() cannot add the device: it deletes the bus it has just created, and keeps it
\* if that is its second failure.
NotAcquired(n) == IF n = 1 THEN held \ {"bus"} ELSE held

\* A stage fails and fail_stage cleans up.
OpenFails ==
    /\ power = "opening" /\ stage <= Len(Opening)
    /\ \E n \in 1..2 :
        /\ faults + n <= MaxFaults
        /\ n = 2 => Opening[stage] = "lease"
        /\ faults' = faults + n
        /\ held' = IF Opening[stage] = "lease" THEN NotAcquired(n) ELSE held
    /\ BeginClose
    /\ UNCHANGED light

\* shutdown() of the ledger answers BUSY as long as a lease is left.
ShutdownBusy == "lease" \in held

\* release() and shutdown() keep in the ledger what the driver did not delete.
Ledger == {"lease", "bus"}

\* The step makes a driver call: the backlight needs the lease, a null handle is skipped.
Calls(step) ==
    CASE step = "lit_off" -> Reachable
      [] step = "bus" -> "bus" \in held /\ ~ShutdownBusy
      [] OTHER -> step \in held \ {"vsync", "framebuffer"}

CloseStep ==
    /\ power = "closing" /\ stage <= Len(Closing)
    /\ light' = IF Closing[stage] = "lit_off" /\ Reachable THEN 0 ELSE light
    /\ held' = IF Closing[stage] = "bus" /\ ShutdownBusy
               THEN held ELSE held \ {Closing[stage]}
    /\ stage' = stage + 1
    /\ UNCHANGED <<power, error, faults>>

\* The driver call fails: a DSI handle is forgotten all the same, and cleanup goes on.
CloseStepFails ==
    /\ power = "closing" /\ stage <= Len(Closing) /\ faults < MaxFaults
    /\ Calls(Closing[stage])
    /\ held' = IF Closing[stage] \in Ledger THEN held ELSE held \ {Closing[stage]}
    /\ error' = 1
    /\ faults' = faults + 1
    /\ stage' = stage + 1
    /\ UNCHANGED <<light, power>>

PanelOff ==
    /\ power = "closing" /\ stage > Len(Closing)
    /\ power' = "off"
    /\ UNCHANGED <<held, light, stage, error, faults>>

\* display_backlight_set: the write reaches the register, or it fails.
BacklightOn == light' = 1 /\ UNCHANGED <<held, power, stage, error, faults>>
BacklightFails ==
    /\ faults < MaxFaults
    /\ faults' = faults + 1
    /\ UNCHANGED <<held, light, power, stage, error>>

PanelSteps == OpenStage \/ PanelOn \/ CloseStep \/ PanelOff
PanelFaults == OpenFails \/ CloseStepFails
=============================================================================
