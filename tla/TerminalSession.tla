--------------------------- MODULE TerminalSession ---------------------------
(***************************************************************************)
(* start-session, once its WebSocket is open: the goroutine that shows     *)
(* what the server sends, the goroutine that reads the keyboard in raw     *)
(* mode, and main, which waits for either and then ends the process.       *)
(***************************************************************************)
EXTENDS AxtMessage, SequencesExt

CONSTANTS
  Frames,     \* the messages the server sends, with the field cut, the
              \* number of bytes missing at the end
  MaxFrames,  \* bound: frames the server sends
  MaxKeys     \* bound: chunks read from the keyboard

ASSUME SessionAssumption ==
  /\ MaxFrames \in Nat /\ MaxKeys \in Nat
  /\ \A f \in Frames :
       /\ f.MsgType \in Byte
       /\ f.Version \in Bytes /\ Len(f.Version) = 4
       /\ f.ChannelID \in Bytes /\ Len(f.ChannelID) < 256
       /\ f.InstanceID \in Bytes /\ Len(f.InstanceID) < 256
       /\ f.Numbers \in Bytes /\ Len(f.Numbers) = 20
       /\ f.Payload \in Bytes
       /\ f.cut \in Nat
  /\ Nil \notin Frames \cup AxtMessage

VARIABLES
  main,    \* "select", then "exited" with the whole process
  why,     \* what made it exit
  reader,  \* the goroutine that reads the connection
  frame,   \* the frame it has read and not yet shown
  frames,  \* all it has read
  shown,   \* what it has written, a payload at a time
  input,   \* the goroutine that reads the keyboard
  keys,    \* chunks it has read
  tty      \* the mode of the terminal

vars == <<main, why, reader, frame, frames, shown, input, keys, tty>>

\* What the server sends for a message.
Sent(f) ==
  LET bytes == <<f.MsgType, 0, 0, 0>> \o f.Version \o <<Len(f.ChannelID)>> \o f.ChannelID \o
               <<Len(f.InstanceID)>> \o f.InstanceID \o f.Numbers \o f.Payload
  IN SubSeq(bytes, 1, Len(bytes) - f.cut)

\* The type invariant.
TypeOK ==
  /\ main \in {"select", "exited"}
  /\ why \in {"none", "server", "user", "fatal"}
  /\ reader \in {"reading", "closed"}
  /\ frame \in Frames \cup {Nil}
  /\ frames \in Seq(Frames) /\ Len(frames) <= MaxFrames
  /\ shown \in Seq(Bytes) /\ Len(shown) <= Len(frames)
  /\ input \in {"isatty", "makeraw", "read", "restore", "close", "closed"}
  /\ keys \in 0..MaxKeys
  /\ tty \in {"cooked", "raw", "stuck"}

Init ==
  /\ main = "select" /\ why = "none"
  /\ reader = "reading" /\ frame = Nil /\ frames = <<>> /\ shown = <<>>
  /\ input = "isatty" /\ keys = 0 /\ tty = "cooked"

-----------------------------------------------------------------------------
\* ReadMessage returns.
Receive(f) ==
  /\ main = "select" /\ reader = "reading" /\ frame = Nil
  /\ Len(frames) < MaxFrames
  /\ frames' = Append(frames, f)
  /\ frame' = f
  /\ UNCHANGED <<main, why, reader, shown, input, keys, tty>>

\* shown, after this message: output is written, other messages and what
\* does not decode are passed over.
Shown(f) ==
  LET message == DecodeMessage(Sent(f))
  IN IF message = Nil THEN shown
     ELSE IF message.MsgType = MessageType.Output THEN Append(shown, message.Payload)
     ELSE shown

\* A slip: the frame is not taken off, and shown again.
ShowRepeatedly ==
  /\ main = "select" /\ frame # Nil
  /\ shown' = Shown(frame)
  /\ Len(shown') <= MaxFrames + 1
  /\ UNCHANGED <<main, why, reader, frame, frames, input, keys, tty>>

Show ==
  /\ main = "select" /\ frame # Nil
  /\ shown' = Shown(frame)
  /\ frame' = Nil
  /\ UNCHANGED <<main, why, reader, frames, input, keys, tty>>

\* ReadMessage fails: the goroutine returns, which closes done.
ServerCloses ==
  /\ main = "select" /\ reader = "reading" /\ frame = Nil
  /\ reader' = "closed"
  /\ UNCHANGED <<main, why, frame, frames, shown, input, keys, tty>>

-----------------------------------------------------------------------------
\* log.Fatal: no terminal, or no raw mode.
Fatal ==
  /\ main = "select" /\ input \in {"isatty", "makeraw"}
  /\ main' = "exited" /\ why' = "fatal"
  /\ UNCHANGED <<reader, frame, frames, shown, input, keys, tty>>

IsTerminal ==
  /\ main = "select" /\ input = "isatty"
  /\ input' = "makeraw"
  /\ UNCHANGED <<main, why, reader, frame, frames, shown, keys, tty>>

MakeRaw ==
  /\ main = "select" /\ input = "makeraw"
  /\ input' = "read"
  /\ tty' = "raw"
  /\ UNCHANGED <<main, why, reader, frame, frames, shown, keys>>

\* Up to three bytes that are not a single q: they are described to the user.
Key ==
  /\ main = "select" /\ input = "read" /\ keys < MaxKeys
  /\ keys' = keys + 1
  /\ UNCHANGED <<main, why, reader, frame, frames, shown, input, tty>>

\* A single q, or an error of the keyboard, ends the loop.
Quit ==
  /\ main = "select" /\ input = "read"
  /\ input' = "restore"
  /\ UNCHANGED <<main, why, reader, frame, frames, shown, keys, tty>>

\* A slip: the deferred calls in the other order.
RestoreAfterClose ==
  /\ main = "select" /\ input = "restore"
  /\ input' = "closed"
  /\ UNCHANGED <<main, why, reader, frame, frames, shown, keys, tty>>

\* The deferred calls run in reverse: first the terminal, which may fail ...
Restore ==
  /\ main = "select" /\ input = "restore"
  /\ input' = "close"
  /\ tty' \in {"cooked", "stuck"}
  /\ UNCHANGED <<main, why, reader, frame, frames, shown, keys>>

\* ... then close(inputDone).
CloseInputDone ==
  /\ main = "select" /\ input = "close"
  /\ input' = "closed"
  /\ UNCHANGED <<main, why, reader, frame, frames, shown, keys, tty>>

-----------------------------------------------------------------------------
\* A slip: main waits for both.
SelectBoth ==
  /\ main = "select"
  /\ reader = "closed" /\ input = "closed"
  /\ why' \in {"server", "user"}
  /\ main' = "exited"
  /\ UNCHANGED <<reader, frame, frames, shown, input, keys, tty>>

\* The select: main returns, and the goroutines end where they are.
Select ==
  /\ main = "select"
  /\ \/ reader = "closed" /\ why' = "server"
     \/ input = "closed" /\ why' = "user"
  /\ main' = "exited"
  /\ UNCHANGED <<reader, frame, frames, shown, input, keys, tty>>

\* What goes on without the server or the user.
Step ==
  Show \/ Fatal \/ IsTerminal \/ MakeRaw \/ Restore \/ CloseInputDone \/ Select

Next ==
  \/ \E f \in Frames : Receive(f)
  \/ ServerCloses
  \/ Key \/ Quit
  \/ Step

Spec == Init /\ [][Next]_vars

\* A goroutine that can run does, and select notices a closed channel.
FairSpec ==
  /\ Spec
  /\ WF_vars(Show)
  /\ WF_vars(Fatal \/ IsTerminal \/ MakeRaw \/ Restore \/ CloseInputDone)
  /\ WF_vars(Select)

-----------------------------------------------------------------------------
(* Properties.                                                             *)

\* How many of the messages the goroutine is done with.
Done == IF frame = Nil THEN Len(frames) ELSE Len(frames) - 1

\* Output that was not cut off in its header, and what arrived of its payload.
IsOutput(f) == f.MsgType = MessageType.Output /\ f.cut <= Len(f.Payload)

Arrived(f) == SubSeq(f.Payload, 1, Len(f.Payload) - f.cut)

\* What the user reads is what the server wrote: the payloads of its output
\* messages, each once and in order (at[i] is the message that shown[i] is of),
\* wherever the identifiers before them end, and nothing of other messages or
\* of those cut off in the header
\* (session_manager/axt_message.go:143, start_session/command.go:103-114).
ShownInOrder ==
  \E at \in [DOMAIN shown -> 1..Done] :
    /\ \A i, j \in DOMAIN shown : i < j => at[i] < at[j]
    /\ \A k \in 1..Done : IsOutput(frames[k]) <=> \E i \in DOMAIN shown : at[i] = k
    /\ \A i \in DOMAIN shown : shown[i] = Arrived(frames[at[i]])

\* "Restore the original terminal state when the program exits".
RestoredAtExit ==
  main = "exited" => tty # "raw"

\* A user who ends the session gets the terminal back, unless restoring it
\* fails: the deferred restore comes before the deferred close, so that main
\* cannot exit between them (start_session/command.go:118, 144).
QuitRestores ==
  why = "user" => tty # "raw"

\* The session ends when the server closes the connection or the user quits,
\* whatever the other side is doing (start_session/command.go:203-208).
SessionEnds ==
  reader = "closed" \/ input = "restore" ~> main = "exited"
=============================================================================
