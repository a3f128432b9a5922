-------------------------- MODULE MCDeviceCodeFlow ---------------------------
EXTENDS DeviceCodeFlow

\* The provider's interval: none given, the default of RFC 8628, a longer one.
AskedIntervals == {0, 5, 6}
=============================================================================
