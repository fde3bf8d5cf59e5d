------------------------------ MODULE MCOutgoing ------------------------------
EXTENDS Outgoing

SomeTexts == {Absent, 121, 125}
SomeMessages == {0, 5, MAX_ENCODABLE}
SomeIdentifiers == {Absent, 127, 128}
SomeConnacks ==
    {[limit |-> Unlimited, granted |-> {}, denied |-> {}],
     [limit |-> 5, granted |-> {"Alias"}, denied |-> {}],
     [limit |-> 130, granted |-> Features \ {"Alias"}, denied |-> {"Shared", "QoS2", "Alias"}],
     [limit |-> Unlimited, granted |-> {},
      denied |-> {"QoS1", "QoS2", "Retain", "Wildcard", "SubscriptionIdentifier"}]}
===============================================================================
