-------------------------- MODULE MCTerminalSession --------------------------
EXTENDS TerminalSession

Message(type, channel, instance, payload, cut) ==
  [MsgType |-> type, Version |-> <<49, 46, 48, 48>>, ChannelID |-> channel,
   InstanceID |-> instance, Numbers |-> [i \in 1..20 |-> 0], Payload |-> payload,
   cut |-> cut]

\* Output behind identifiers of several lengths, empty, cut in the payload
\* and cut in the header, and a status.
Messages ==
  {Message(MessageType.Output, <<99, 100>>, <<105>>, <<97, 98>>, 0),
   Message(MessageType.Output, <<>>, <<105, 106>>, <<99>>, 0),
   Message(MessageType.Output, <<99>>, <<>>, <<>>, 0),
   Message(MessageType.Output, <<99>>, <<105>>, <<97, 98>>, 1),
   Message(MessageType.Output, <<99>>, <<105>>, <<97, 98>>, 3),
   Message(MessageType.Output, <<99>>, <<105>>, <<>>, 25),
   Message(MessageType.Status, <<99>>, <<105>>, <<1>>, 0)}
=============================================================================
