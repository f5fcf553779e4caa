SPECIFICATION LiveSpec
CONSTANTS
    Ids = {e1}
    Consumers <- Names
    Relays <- Single
    ConsumerOf <- SingleOf
    Collectors = {"g1"}
    MaxFails = 1
PROPERTIES DeliveredAndCollected KeepsContract
