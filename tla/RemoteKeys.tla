----------------------------- MODULE RemoteKeys -----------------------------
(***************************************************************************)
(* What a remote handle keeps of the keys its device is published under    *)
(* (csocketevents.c), and what it forgets when the device is gone (the     *)
(* CPHIDGETCLEARVARS of each class).                                       *)
(*                                                                         *)
(* A handle counts the keys it receives and attaches when it has as many   *)
(* as the key InitKeys says.  A key is counted each time it comes, or once *)
(* while the variables it is kept in are uninitialised (INC_KEYCOUNT), or  *)
(* never.  Two keys may share a variable.  The index of a key is left out: *)
(* one stands for all.                                                     *)
(***************************************************************************)
EXTENDS Naturals, Sequences, FiniteSets

\* The mark of a key that is counted each time it comes.
EachTime == "always"

Each(name) == [name |-> name, vars |-> {EachTime}]
\* INC_KEYCOUNT of variable.
Once(name, variable) == [name |-> name, vars |-> {variable}]
Never(name) == [name |-> name, vars |-> {}]

\* The keys network_phidget_event_handler counts itself.
CommonKeys ==
    <<Each("Label"), Each("InitKeys"), Each("Version"), Each("ID"), Each("Name"),
      Each("Status")>>

-----------------------------------------------------------------------------
(* PWC_SETKEYS of each class, in the order of the code. *)

AccelerometerKeys ==
    <<Each("NumberOfAxes"), Once("Acceleration", "axis"),
      Once("AccelerationMin", "accelerationMin"), Once("AccelerationMax", "accelerationMax"),
      Once("Trigger", "axisChangeTrigger")>>

AdvancedServoKeys ==
    <<Each("NumberOfMotors"), Once("Position", "motorPositionEcho"),
      Once("PositionMin", "motorPositionMin"), Once("PositionMax", "motorPositionMax"),
      Once("PositionMinLimit", "motorPositionMinLimit"),
      Once("PositionMaxLimit", "motorPositionMaxLimit"), Never("Acceleration"),
      Once("AccelerationMax", "accelerationMax"), Once("AccelerationMin", "accelerationMin"),
      Once("Current", "motorSensedCurrent"), Never("VelocityLimit"),
      Once("Velocity", "motorVelocityEcho"), Once("VelocityMax", "velocityMax"),
      Once("VelocityMaxLimit", "velocityMaxLimit"), Once("VelocityMin", "velocityMin"),
      Once("Engaged", "motorEngagedStateEcho"),
      Once("SpeedRampingOn", "motorSpeedRampingStateEcho"),
      Once("Stopped", "motorStoppedState"), Once("ServoParameters", "servoParams")>>

AnalogKeys ==
    <<Each("NumberOfOutputs"), Once("Voltage", "voltageEcho"),
      Once("VoltageMin", "voltageMin"), Once("VoltageMax", "voltageMax"),
      Once("Enabled", "enabledEcho")>>

BridgeKeys ==
    <<Each("NumberOfInputs"), Once("DataRate", "dataRateEcho"),
      Once("DataRateMin", "dataRateMin"), Once("DataRateMax", "dataRateMax"),
      Once("Enabled", "enabledEcho"), Once("BridgeMax", "bridgeMax"),
      Once("BridgeMin", "bridgeMin"), Once("Gain", "gainEcho"),
      Once("BridgeValue", "bridgeValue")>>

EncoderKeys ==
    <<Each("NumberOfEncoders"), Each("NumberOfInputs"), Never("Input"),
      Never("ResetPosition"), Never("Position"), Never("IndexPosition"),
      Once("Enabled", "enableStateEcho")>>

FrequencyCounterKeys ==
    <<Each("NumberOfInputs"), Once("Count", "frequency"), Once("CountReset", "frequency"),
      Once("Enabled", "enabledEcho"), Once("Timeout", "timeout"),
      Once("Filter", "filterEcho")>>

GenericKeys == <<>>

GPSKeys ==
    <<Never("Position"), Once("PositionFix", "fix"), Never("Velocity"),
      Never("Heading"), Never("DateTime")>>

InterfaceKitKeys ==
    <<Each("NumberOfSensors"), Each("NumberOfInputs"), Each("NumberOfOutputs"),
      Once("Input", "physicalState"), Once("Sensor", "sensorValue"),
      Once("RawSensor", "sensorRawValue"), Once("Output", "outputEchoStates"),
      Once("Trigger", "sensorChangeTrigger"), Once("DataRate", "dataRate"),
      Once("DataRateMin", "dataRateMin"), Once("DataRateMax", "dataRateMax"),
      Once("InterruptRate", "interruptRate"), Once("Ratiometric", "ratiometric")>>

IRKeys == <<Never("Code"), Never("Learn"), Never("RawData")>>

LEDKeys ==
    <<Each("NumberOfLEDs"), Once("Brightness", "LED_Power"), Once("Voltage", "voltageEcho"),
      Once("CurrentLimit", "currentLimitEcho"),
      Once("CurrentLimitIndexed", "LED_CurrentLimit")>>

MotorControlKeys ==
    <<Each("NumberOfMotors"), Each("NumberOfInputs"), Each("NumberOfEncoders"),
      Each("NumberOfSensors"), Once("Input", "inputState"), Once("Sensor", "sensorValue"),
      Once("RawSensor", "sensorRawValue"), Once("Ratiometric", "ratiometricEcho"),
      Once("Braking", "motorBrakingEcho"), Once("BackEMF", "motorSensedBackEMF"),
      Once("BackEMFState", "backEMFSensingStateEcho"),
      Once("SupplyVoltage", "supplyVoltage"), Once("Velocity", "motorSpeedEcho"),
      Once("Current", "motorSensedCurrent"), Once("CurrentUpdate", "motorSensedCurrent"),
      Once("Acceleration", "motorAccelerationEcho"),
      Once("AccelerationMin", "accelerationMin"), Once("AccelerationMax", "accelerationMax"),
      Never("ResetEncoderPosition"), Never("EncoderPosition"),
      Never("EncoderPositionUpdate")>>

PHSensorKeys ==
    <<Once("PH", "PH"), Once("PHMin", "phMin"), Once("PHMax", "phMax"),
      Once("Trigger", "PHChangeTrigger"), Once("Potential", "Potential"),
      Once("PotentialMin", "potentialMin"), Once("PotentialMax", "potentialMax")>>

RFIDKeys ==
    <<Each("NumberOfOutputs"), Once("LastTag", "lastTagValid"),
      [name |-> "Tag2", vars |-> {"tagPresent", "lastTagValid"}],
      Once("TagLoss2", "tagPresent"), Once("TagState", "tagPresent"),
      Once("Output", "outputEchoState"), Once("AntennaOn", "antennaEchoState"),
      Once("LEDOn", "ledEchoState")>>

ServoKeys ==
    <<Each("NumberOfMotors"), Once("Position", "motorPositionEcho"),
      Once("Engaged", "motorEngagedStateEcho"),
      Once("PositionMinLimit", "motorPositionMinLimit"),
      Once("PositionMaxLimit", "motorPositionMaxLimit"),
      Once("ServoParameters", "servoParams")>>

SpatialKeys ==
    <<Each("AccelerationAxisCount"), Each("GyroAxisCount"), Each("CompassAxisCount"),
      Once("DataRate", "dataRate"), Once("DataRateMin", "dataRateMin"),
      Once("DataRateMax", "dataRateMax"), Once("InterruptRate", "interruptRate"),
      Once("AccelerationMin", "accelerationMin"), Once("AccelerationMax", "accelerationMax"),
      Once("AngularRateMin", "angularRateMin"), Once("AngularRateMax", "angularRateMax"),
      Once("MagneticFieldMin", "magneticFieldMin"),
      Once("MagneticFieldMax", "magneticFieldMax"),
      Once("SpatialData", "spatialDataNetwork")>>

StepperKeys ==
    <<Each("NumberOfMotors"), Each("NumberOfInputs"), Once("Input", "inputState"),
      Once("CurrentPosition", "motorPositionEcho"), Once("TargetPosition", "motorPosition"),
      Once("PositionMin", "motorPositionMin"), Once("PositionMax", "motorPositionMax"),
      Never("Acceleration"), Once("AccelerationMin", "accelerationMin"),
      Once("AccelerationMax", "accelerationMax"), Never("CurrentLimit"),
      Once("Current", "motorSensedCurrent"), Once("CurrentMin", "currentMin"),
      Once("CurrentMax", "currentMax"), Never("VelocityLimit"),
      Once("Velocity", "motorSpeedEcho"), Once("VelocityMin", "motorSpeedMin"),
      Once("VelocityMax", "motorSpeedMax"), Once("Engaged", "motorEngagedStateEcho"),
      Once("Stopped", "motorStoppedState")>>

TemperatureSensorKeys ==
    <<Each("NumberOfSensors"), Once("Potential", "Potential"),
      Once("PotentialMin", "potentialMin"), Once("PotentialMax", "potentialMax"),
      Once("Temperature", "Temperature"), Once("TemperatureMin", "temperatureMin"),
      Once("TemperatureMax", "temperatureMax"),
      Once("AmbientTemperature", "AmbientTemperature"),
      Once("AmbientTemperatureMin", "ambientTemperatureMin"),
      Once("AmbientTemperatureMax", "ambientTemperatureMax"),
      Once("ThermocoupleType", "ThermocoupleType"), Once("Trigger", "TempChangeTrigger")>>

TextLCDKeys ==
    <<Once("NumberOfRows", "rowCount"), Once("NumberOfColumns", "columnCount"),
      Each("NumberOfScreens"), Once("Backlight", "backlightEcho"), Never("CursorOn"),
      Never("CursorBlink"), Once("Contrast", "contrastEcho"),
      Once("Brightness", "brightnessEcho"), Once("ScreenSize", "screenSize")>>

TextLEDKeys == <<Each("NumberOfRows"), Each("NumberOfColumns"), Never("Brightness")>>

WeightSensorKeys == <<Once("Weight", "Weight"), Once("Trigger", "WeightChangeTrigger")>>

-----------------------------------------------------------------------------
(* CPHIDGETCLEARVARS of each class: the counted variables it sets back to    *)
(* the value INC_KEYCOUNT looks for.                                         *)

AccelerometerClears ==
    {"accelerationMax", "accelerationMin", "axis", "axisChangeTrigger"}

AdvancedServoClears ==
    {"motorPositionMaxLimit", "motorPositionMinLimit", "velocityMaxLimit", "velocityMin",
     "accelerationMax", "accelerationMin", "motorVelocityEcho", "motorPositionEcho",
     "motorSensedCurrent", "motorSpeedRampingStateEcho", "motorStoppedState",
     "motorEngagedStateEcho", "velocityMax", "motorPositionMax", "motorPositionMin",
     "servoParams"}

AnalogClears == {"voltageEcho", "enabledEcho", "voltageMax", "voltageMin"}

BridgeClears ==
    {"bridgeMin", "bridgeMax", "enabledEcho", "gainEcho", "bridgeValue", "dataRateEcho",
     "dataRateMin", "dataRateMax"}

EncoderClears == {"enableStateEcho"}

FrequencyCounterClears == {"timeout", "frequency", "filterEcho", "enabledEcho"}

GenericClears == {}

GPSClears == {"fix"}

InterfaceKitClears ==
    {"ratiometric", "dataRateMin", "dataRateMax", "interruptRate", "physicalState",
     "sensorChangeTrigger", "sensorRawValue", "sensorValue", "dataRate",
     "outputEchoStates"}

IRClears == {}

LEDClears == {"LED_Power", "LED_CurrentLimit", "currentLimitEcho", "voltageEcho"}

MotorControlClears ==
    {"accelerationMax", "accelerationMin", "inputState", "motorSpeedEcho",
     "motorSensedCurrent", "motorSensedBackEMF", "motorAccelerationEcho",
     "motorBrakingEcho", "backEMFSensingStateEcho", "supplyVoltage", "sensorRawValue",
     "sensorValue", "ratiometricEcho"}

PHSensorClears ==
    {"phMax", "phMin", "potentialMax", "potentialMin", "PH", "Potential",
     "PHChangeTrigger"}

RFIDClears ==
    {"antennaEchoState", "ledEchoState", "tagPresent", "lastTagValid", "outputEchoState"}

ServoClears ==
    {"motorPositionMaxLimit", "motorPositionMinLimit", "motorPositionEcho",
     "motorEngagedStateEcho", "servoParams"}

SpatialClears ==
    {"dataRateMin", "dataRate", "dataRateMax", "accelerationMax", "accelerationMin",
     "angularRateMax", "angularRateMin", "magneticFieldMax", "magneticFieldMin",
     "interruptRate", "spatialDataNetwork"}

\* Mutant: the target position is taken for a setting of the user.
StepperClearsButTarget ==
    {"motorSpeedMax", "motorSpeedMin", "accelerationMax", "accelerationMin",
     "motorPositionMax", "motorPositionMin", "currentMax", "currentMin", "inputState",
     "motorSpeedEcho", "motorPositionEcho", "motorSensedCurrent",
     "motorEngagedStateEcho", "motorStoppedState"}

StepperClears ==
    {"motorSpeedMax", "motorSpeedMin", "accelerationMax", "accelerationMin",
     "motorPositionMax", "motorPositionMin", "currentMax", "currentMin", "inputState",
     "motorSpeedEcho", "motorPositionEcho", "motorSensedCurrent",
     "motorEngagedStateEcho", "motorStoppedState", "motorPosition"}

TemperatureSensorClears ==
    {"ambientTemperatureMax", "ambientTemperatureMin", "potentialMax", "potentialMin",
     "AmbientTemperature", "ThermocoupleType", "temperatureMax", "temperatureMin",
     "Potential", "Temperature", "TempChangeTrigger"}

TextLCDClears ==
    {"contrastEcho", "backlightEcho", "brightnessEcho", "screenSize", "rowCount",
     "columnCount"}

TextLEDClears == {}

WeightSensorClears == {"Weight", "WeightChangeTrigger"}

-----------------------------------------------------------------------------
(* By class: the keys (fptrSet), the variables cleared (fptrClear), and the  *)
(* counted variables that setters of the user write (ADDNETWORKKEY).         *)

ClassKeys ==
    [Accelerometer |-> AccelerometerKeys, AdvancedServo |-> AdvancedServoKeys,
     Analog |-> AnalogKeys, Bridge |-> BridgeKeys, Encoder |-> EncoderKeys,
     FrequencyCounter |-> FrequencyCounterKeys, Generic |-> GenericKeys, GPS |-> GPSKeys,
     InterfaceKit |-> InterfaceKitKeys, IR |-> IRKeys, LED |-> LEDKeys,
     MotorControl |-> MotorControlKeys, PHSensor |-> PHSensorKeys, RFID |-> RFIDKeys,
     Servo |-> ServoKeys, Spatial |-> SpatialKeys, Stepper |-> StepperKeys,
     TemperatureSensor |-> TemperatureSensorKeys, TextLCD |-> TextLCDKeys,
     TextLED |-> TextLEDKeys, WeightSensor |-> WeightSensorKeys]

ClassClears ==
    [Accelerometer |-> AccelerometerClears, AdvancedServo |-> AdvancedServoClears,
     Analog |-> AnalogClears, Bridge |-> BridgeClears, Encoder |-> EncoderClears,
     FrequencyCounter |-> FrequencyCounterClears, Generic |-> GenericClears,
     GPS |-> GPSClears, InterfaceKit |-> InterfaceKitClears, IR |-> IRClears,
     LED |-> LEDClears, MotorControl |-> MotorControlClears,
     PHSensor |-> PHSensorClears, RFID |-> RFIDClears, Servo |-> ServoClears,
     Spatial |-> SpatialClears, Stepper |-> StepperClears,
     TemperatureSensor |-> TemperatureSensorClears, TextLCD |-> TextLCDClears,
     TextLED |-> TextLEDClears, WeightSensor |-> WeightSensorClears]

Classes == DOMAIN ClassKeys

\* Where the propname of an ADDNETWORKKEY is a counted variable.
ClassSets(c) ==
    CASE c = "Accelerometer" -> {"axisChangeTrigger"}
      [] c = "AdvancedServo" -> {"motorPositionMax", "motorPositionMin"}
      [] c = "FrequencyCounter" -> {"timeout"}
      [] c = "InterfaceKit" -> {"sensorChangeTrigger", "dataRate", "ratiometric"}
      [] c = "LED" -> {"LED_Power", "LED_CurrentLimit"}
      [] c = "PHSensor" -> {"PHChangeTrigger"}
      [] c = "Spatial" -> {"dataRate"}
      [] c = "Stepper" -> {"motorPosition"}
      [] c = "TemperatureSensor" -> {"TempChangeTrigger", "ThermocoupleType"}
      [] c = "TextLCD" -> {"screenSize"}
      [] c = "WeightSensor" -> {"WeightChangeTrigger"}
      [] OTHER -> {}

\* The keys of a device of class c, by their number.
KeysOf(c) == CommonKeys \o ClassKeys[c]

\* The variables of class c that are counted.
CountedVars(c) ==
    (UNION {ClassKeys[c][i].vars : i \in DOMAIN ClassKeys[c]}) \ {EachTime}

\* The value of InitKeys: the keys counted each time and the variables.
InitKeysOf(c) ==
    Cardinality({i \in DOMAIN KeysOf(c) : KeysOf(c)[i].vars = {EachTime}})
        + Cardinality(CountedVars(c))
=============================================================================
