--------------------------- MODULE WebSocketSession ---------------------------
(***************************************************************************)
(* The frame loop of one WebSocket session (WebSocketRuntime.handle_session *)
(* with parse_ws_frame) against a client that sends frames in pieces.  A   *)
(* frame is two pieces; what is wrong with it shows in the first.          *)
(***************************************************************************)
EXTENDS Integers, Sequences

CONSTANTS
  FrameTimeout,   \* websocket_frame_idle_timeout
  SessionIdleTimeout,    \* websocket_idle_timeout
  MaxFrames,      \* bounds of the model: frames the client sends,
  MaxSeconds      \* and seconds a session is watched

ASSUME LoopTimeouts == FrameTimeout \in Nat

VARIABLES
  stream,    \* pieces sent and not yet received
  frames,    \* buffer: pieces received and not yet consumed
  half,      \* the client has sent the first piece of a frame only: its kind, or "no"
  count,     \* frames begun
  wpc,       \* "recv", "parse", "message" or "ended"
  timer,     \* the timeout of the socket, "idle" or "frame"
  since,     \* incomplete_since
  heard,     \* when the last bytes arrived, or the session came back to read
  seconds    \* monotonic clock

sessionLoopVars == <<stream, frames, half, count, wpc, timer, since, heard, seconds>>

NotSet == -1

\* fault: a reserved bit, an unknown or continuation opcode, a fragment, no mask, an oversized
\* control frame or message.
FrameKinds == {"text", "ping", "pong", "binary", "close", "fault"}
FramePart(kind, part) == [kind |-> kind, part |-> part]

LoopInit ==
  /\ stream = << >> /\ frames = << >> /\ half = "no" /\ count = 0
  /\ wpc = "recv" /\ timer = "idle" /\ since = NotSet /\ heard = 0 /\ seconds = 0
-----------------------------------------------------------------------------
BeginFrame ==
  /\ half = "no" /\ count < MaxFrames /\ wpc # "ended"
  /\ \E k \in FrameKinds : stream' = Append(stream, FramePart(k, 1)) /\ half' = k
  /\ count' = count + 1
  /\ UNCHANGED <<frames, wpc, timer, since, heard, seconds>>

EndFrame ==
  /\ half # "no" /\ wpc # "ended"
  /\ stream' = Append(stream, FramePart(half, 2)) /\ half' = "no"
  /\ UNCHANGED <<frames, count, wpc, timer, since, heard, seconds>>

Recv ==
  /\ wpc = "recv" /\ stream # << >>
  /\ frames' = frames \o stream /\ stream' = << >>
  /\ wpc' = "parse" /\ heard' = seconds
  /\ UNCHANGED <<half, count, timer, since, seconds>>

EndSession ==
  /\ wpc' = "ended" /\ frames' = << >> /\ stream' = << >>
  /\ UNCHANGED <<half, count, timer, since, heard, seconds>>

\* The client hangs up.
HungUp == wpc = "recv" /\ stream = << >> /\ EndSession

Limit == IF timer = "frame" THEN FrameTimeout ELSE SessionIdleTimeout
TimedOut == wpc = "recv" /\ stream = << >> /\ seconds - heard >= Limit

FrameExpired == TimedOut /\ frames # << >> /\ since # NotSet /\ seconds - since >= FrameTimeout /\ EndSession

\* Without a frame in the buffer the client gets a ping; either way the loop reads again.
ReadAgain ==
  /\ TimedOut /\ ~(frames # << >> /\ since # NotSet /\ seconds - since >= FrameTimeout)
  /\ heard' = seconds
  /\ UNCHANGED <<stream, frames, half, count, wpc, timer, since, seconds>>
-----------------------------------------------------------------------------
Complete == Len(frames) >= 2

\* Mutant: the timeout of the socket stays the idle one.
ArmFrameTimerNever == UNCHANGED timer

ArmFrameTimer == timer' = "frame"

ParseFault == wpc = "parse" /\ frames # << >> /\ frames[1].kind = "fault" /\ EndSession

ParseIncomplete ==
  /\ wpc = "parse" /\ ~Complete /\ (frames # << >> => frames[1].kind # "fault")
  /\ IF frames # << >> /\ since = NotSet
     THEN since' = seconds /\ ArmFrameTimer
     ELSE UNCHANGED <<since, timer>>
  /\ wpc' = "recv" /\ heard' = seconds
  /\ UNCHANGED <<stream, frames, half, count, seconds>>

\* A complete frame leaves the buffer and the timers are set anew; a close or a binary frame
\* ends the session, a text frame goes to the handler, a ping is answered.
ParseFrame ==
  /\ wpc = "parse" /\ Complete /\ frames[1].kind # "fault"
  /\ IF frames[1].kind \in {"close", "binary"} THEN EndSession
     ELSE /\ frames' = SubSeq(frames, 3, Len(frames))
          /\ since' = (IF Len(frames) > 2 THEN seconds ELSE NotSet)
          /\ IF Len(frames) > 2 THEN ArmFrameTimer ELSE timer' = "idle"
          /\ wpc' = (IF frames[1].kind = "text" THEN "message" ELSE "parse")
          /\ UNCHANGED <<stream, half, count, heard, seconds>>

\* _handle_bounded_ws_message returns, with a reply or, without a dispatch slot, a close frame.
MessageHandled ==
  /\ wpc = "message" /\ wpc' = "parse"
  /\ UNCHANGED <<stream, frames, half, count, timer, since, heard, seconds>>

\* A reply cannot be sent, or the handler fails.
MessageFails == wpc = "message" /\ EndSession

\* Handling a message takes time; a read that timed out, or that has bytes to return, returns.
LoopTick ==
  /\ seconds < MaxSeconds /\ ~TimedOut /\ wpc \in {"recv", "message"}
  /\ (wpc = "recv" => stream = << >>)
  /\ seconds' = seconds + 1
  /\ UNCHANGED <<stream, frames, half, count, wpc, timer, since, heard>>

LoopNext ==
  \/ BeginFrame \/ EndFrame \/ Recv \/ HungUp \/ FrameExpired \/ ReadAgain
  \/ ParseFault \/ ParseIncomplete \/ ParseFrame \/ MessageHandled \/ MessageFails \/ LoopTick

LoopSpec == LoopInit /\ [][LoopNext]_sessionLoopVars
-----------------------------------------------------------------------------
(* A client that stops in the middle of a frame holds its session no longer than the    *)
(* frame timeout: whatever frames came before, however long their messages took, the    *)
(* loop never waits for the missing piece with the longer timeout of an idle session.   *)
HalfFramesExpire ==
  (wpc = "recv" /\ frames # << >>) => seconds - heard <= FrameTimeout
==============================================================================
