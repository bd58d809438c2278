---------------------------- MODULE MCConversion ----------------------------
EXTENDS Conversion

\* Long enough for two parts of an answer and its end in each protocol.
EventBounds == [chat |-> 4, messages |-> 9, responses |-> 8]
MessageBounds == [chat |-> 3, messages |-> 3, responses |-> 5]
=============================================================================
