\* The fan may start although the outdoor sensor has not answered.
CONSTANTS
    DHT_COUNTER = 2
    Unit = 2
    Readings <- MCReadings
    Payloads <- MCPayloads
    AbsHumidity <- MCAbsHumidity
SPECIFICATION Spec
PROPERTIES
    StartsOnBothSensors
