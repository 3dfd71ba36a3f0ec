---------------------------- MODULE Controllers ----------------------------
(***************************************************************************)
(* The pads behind a serial port (src/crates/ps1-core/src/sio.rs and       *)
(* sio/controllers.rs): a digital pad or a DualShock, whose mode the user  *)
(* changes by its analog button and the game by configuration commands.    *)
(*                                                                         *)
(* A pad answers each byte by one byte.  What it answers is left out but   *)
(* for its identification, and with it the settings of the rumble motors,  *)
(* which only the game reads back.                                         *)
(***************************************************************************)
EXTENDS Integers

VARIABLES controller_type, analog_button,  \* ControllerState, the user's
          shock,     \* DualShockControllerState
          device,    \* active_device of the port, [pad, at, left, entering, ...]
          id,        \* the identification that the pad answered
          answered,  \* bytes of the pad in this communication
          disturbed, \* the user changed something in this communication
          known      \* the mode the game found or set

padVars == <<controller_type, analog_button, shock, device, id, answered, disturbed, known>>

Modes == {"Digital", "Analog"}
Types == {"None", "Digital", "DualShock"}
Commands == {"ChangeMode", "SetLedState", "GetLedState", "VariableResponseA",
             "ConstantValues", "VariableResponseB", "ConfigureRumble"}
Nothing == [pad |-> "None", at |-> "None"]
Disconnected == [pad |-> "None", at |-> "Disconnected"]
NoDevice == [pad |-> "None", at |-> "NoDevice"]
DefaultState == [config |-> FALSE, analog |-> "Digital", locked |-> FALSE,
                 entered |-> FALSE, changed |-> FALSE]

PadInit ==
    /\ controller_type \in Types /\ analog_button = FALSE
    /\ shock = DefaultState
    /\ device = Nothing
    /\ id = 0 /\ answered = 0 /\ disturbed = FALSE /\ known = "Digital"

-----------------------------------------------------------------------------
(* Sio0Devices::connect.  The memory cards' address is MemoryCards'. *)
Select(controller) ==
    /\ device = Nothing
    /\ device' = IF controller /\ controller_type # "None"
                 THEN [pad |-> controller_type, at |-> "IdLow"] ELSE NoDevice
    /\ answered' = 0 /\ disturbed' = FALSE
    /\ UNCHANGED <<controller_type, analog_button, shock, id, known>>

(* The game drops the line whenever it likes. *)
Deselect ==
    /\ device' = Nothing
    /\ UNCHANGED <<controller_type, analog_button, shock, id, answered, disturbed, known>>

(* A byte for a pad in a state, which goes on to another one. *)
Exchange(pad, at) ==
    /\ device.pad = pad /\ device.at = at
    /\ answered' = answered + 1
    /\ UNCHANGED <<controller_type, analog_button, disturbed>>

GoOn(at) == device' = [pad |-> device.pad, at |-> at]
GoOnWith(at, x) == device' = [pad |-> device.pad, at |-> at, x |-> x]
Disconnect == device' = Disconnected
SameShock == UNCHANGED <<shock, known>>
SameId == UNCHANGED id

-----------------------------------------------------------------------------
(* DigitalController::process. *)
DigitalIdLow ==
    /\ Exchange("Digital", "IdLow")
    /\ id' = 65
    /\ GoOn("IdHigh") \/ Disconnect
    /\ SameShock

DigitalNext(at) ==
    /\ Exchange("Digital", at)
    /\ CASE at = "IdHigh"     -> GoOn("InputsLow")
         [] at = "InputsLow"  -> GoOn("InputsHigh")
         [] at = "InputsHigh" -> Disconnect
    /\ SameShock /\ SameId

(***************************************************************************)
(* DualShock::process.                                                     *)
(***************************************************************************)
Shock(at) == Exchange("DualShock", at)

ShockIdLow ==
    /\ Shock("IdLow")
    /\ id' = IF shock.config THEN 243 ELSE IF shock.analog = "Analog" THEN 115 ELSE 65
    /\ \/ GoOnWith("IdHigh", FALSE)
       \/ ~shock.config /\ GoOnWith("IdHigh", TRUE)
       \/ shock.config /\ \E command \in Commands : GoOnWith("ConfigIdHigh", command)
       \/ Disconnect
    /\ SameShock

(* The byte it answers is 0 if the mode changed since the game set it up. *)
ShockIdHigh ==
    /\ Shock("IdHigh")
    /\ GoOnWith("InputsLow", device.x)
    /\ SameShock /\ SameId

AfterIdHigh(command) ==
    CASE command = "ChangeMode"        -> GoOn("ModeChange")
      [] command = "SetLedState"       -> GoOn("LedState")
      [] command = "VariableResponseA" -> GoOn("VariableInput")
      [] command = "VariableResponseB" -> GoOn("VariableInput")
      [] OTHER                         -> GoOnWith("Answering", 6)

ShockConfigIdHigh ==
    /\ Shock("ConfigIdHigh")
    /\ AfterIdHigh(device.x)
    /\ SameShock /\ SameId

\* Mutant: what follows is decided after the pad has entered its configuration.
AnalogAfterEntering(enters) == enters \/ shock.config \/ shock.analog = "Analog"

SendsAnalog(enters) == shock.config \/ shock.analog = "Analog"

Announced == IF id = 115 THEN "Analog" ELSE "Digital"

(* The game enters the configuration by a byte $01. *)
ShockInputsLow(one) ==
    LET enters == device.x /\ one
    IN  /\ Shock("InputsLow")
        /\ GoOnWith("InputsHigh", SendsAnalog(enters))
        /\ shock' = IF enters
                    THEN [shock EXCEPT !.config = TRUE, !.changed = FALSE, !.entered = TRUE]
                    ELSE shock
        /\ known' = IF ~enters THEN known
                    ELSE IF disturbed THEN shock.analog ELSE Announced
        /\ SameId

ShockInputsHigh ==
    /\ Shock("InputsHigh")
    /\ IF device.x THEN GoOnWith("Answering", 4) ELSE Disconnect
    /\ SameShock /\ SameId

(* Four analog axes, zeros, constants, LED state and the rumble settings. *)
ShockAnswering ==
    /\ Shock("Answering")
    /\ IF device.x > 1 THEN GoOnWith("Answering", device.x - 1) ELSE Disconnect
    /\ SameShock /\ SameId

ShockModeChange(zero) ==
    /\ Shock("ModeChange")
    /\ shock' = [shock EXCEPT !.config = @ /\ ~zero]
    /\ GoOnWith("Answering", 5)
    /\ UNCHANGED known /\ SameId

ShockLedState(modes) ==
    /\ Shock("LedState")
    /\ \E mode \in modes \cup {shock.analog} :
           /\ shock' = [shock EXCEPT !.analog = mode]
           /\ known' = IF mode \in modes THEN mode ELSE known
    /\ GoOn("LedLock")
    /\ SameId

ShockLedLock(locks) ==
    /\ Shock("LedLock")
    /\ shock' = [shock EXCEPT !.locked = locks]
    /\ GoOnWith("Answering", 4)
    /\ UNCHANGED known /\ SameId

ShockVariableInput ==
    /\ Shock("VariableInput")
    /\ GoOnWith("Answering", 5)
    /\ SameShock /\ SameId

-----------------------------------------------------------------------------
\* Mutant: a locked mode is changed without notice.
ToggledQuietly(s) ==
    [s EXCEPT !.analog = IF @ = "Analog" THEN "Digital" ELSE "Analog", !.changed = ~s.locked]

Toggled(s) ==
    IF s.locked THEN s
    ELSE [s EXCEPT !.analog = IF @ = "Analog" THEN "Digital" ELSE "Analog", !.changed = TRUE]

(* SerialPort0::set_inputs, each time tick is called: while a pad answers,  *)
(* too.                                                                     *)
SetInputs(type, button) ==
    LET s == IF type # controller_type THEN DefaultState ELSE shock
    IN  /\ controller_type' = type /\ analog_button' = button
        /\ shock' = IF ~analog_button /\ button /\ type = "DualShock" THEN Toggled(s) ELSE s
        /\ disturbed' = (disturbed \/ shock' # shock)
        /\ UNCHANGED <<device, id, answered, known>>

PadNext ==
    \/ \E controller \in BOOLEAN : Select(controller)
    \/ Deselect
    \/ DigitalIdLow \/ \E at \in {"IdHigh", "InputsLow", "InputsHigh"} : DigitalNext(at)
    \/ ShockIdLow \/ ShockIdHigh \/ ShockConfigIdHigh
    \/ \E bit \in BOOLEAN : ShockInputsLow(bit) \/ ShockModeChange(bit) \/ ShockLedLock(bit)
    \/ ShockInputsHigh \/ ShockAnswering \/ ShockVariableInput
    \/ \E modes \in {{}, {"Digital"}, {"Analog"}} : ShockLedState(modes)
    \/ \E type \in Types, button \in BOOLEAN : SetInputs(type, button)

PadSpec == PadInit /\ [][PadNext]_padVars
-----------------------------------------------------------------------------
(* Unless the user changes something meanwhile, a pad that takes a command  *)
(* answers as many bytes as it announced: the low digit of its             *)
(* identification counts halfwords.                                         *)
AnswersAnnounced ==
    (device.at = "Disconnected" /\ ~disturbed) => answered \in {1, 2 + 2 * (id % 16)}

(* A pad that was set up answers as usual only while its mode is the one it *)
(* announced to the game then, or that the game set.  The exception is a    *)
(* change by the user in the communication that entered the configuration,  *)
(* which the game is not told of.                                           *)
GameKnowsMode == (shock.entered /\ ~shock.changed) => shock.analog = known
=============================================================================
