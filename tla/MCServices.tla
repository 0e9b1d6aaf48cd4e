------------------------------ MODULE MCServices ------------------------------
(***************************************************************************)
(* The path of a request and of its answer - the connection up to its      *)
(* handler and back, the loop of a WebSocket session, the reading of an    *)
(* upload from its carriers, the names of files, what browsers make of the *)
(* answers - and the small services behind it: upload sessions, ECDH       *)
(* session keys and the certificate manager.  Here they share no state and *)
(* never call each other, so a behaviour of all together is an             *)
(* interleaving of one behaviour of each; scope names the one that moves,  *)
(* the others rest.                                                        *)
(***************************************************************************)
EXTENDS AdvancedSessions, SessionKeys, TlsManager, RequestPath, WebSocketSession, AdvancedPayload,
        FileRequests, Replies

VARIABLE scope

vars == <<scope, sessionVars, keyVars, tlsVars, pathVars, sessionLoopVars, payloadVars, filesVars,
          replyVars, cross>>

\* Compressed bodies: within the limit, at it, over it, in two members, cut short, followed by
\* garbage, and empty.
CompressedStreams ==
  { <<Piece(2, TRUE)>>, <<Piece(2, FALSE), Piece(1, TRUE)>>, <<Piece(2, TRUE), Piece(1, TRUE)>>,
    <<Piece(3, FALSE), Piece(5, TRUE)>>, <<Piece(3, TRUE), Piece(5, TRUE)>>,
    <<Piece(3, TRUE), Garbage>>, <<Piece(1, FALSE)>>, <<Piece(0, TRUE)>>, <<Piece(9, TRUE)>> }

\* A component that rests is left in one of its initial states.
Init ==
  /\ scope \in {"sessions", "keys", "tls", "path", "websocket", "payload", "files", "replies",
               "pages"}
  /\ SessionInit /\ (scope # "sessions" => basic)
  /\ KeyInit /\ TlsInit /\ (scope # "tls" => cert = NoCert)
  /\ PathInit /\ (scope # "path" => config.auth /\ config.loopback)
  /\ LoopInit /\ PayloadInit /\ FilesInit /\ ReplyInit /\ CrossInit

SessionScope ==
  /\ scope = "sessions" /\ SessionNext
  /\ UNCHANGED <<scope, keyVars, tlsVars, pathVars, sessionLoopVars, payloadVars, filesVars,
                 replyVars, cross>>
KeyScope ==
  /\ scope = "keys" /\ KeyNext
  /\ UNCHANGED <<scope, sessionVars, tlsVars, pathVars, sessionLoopVars, payloadVars, filesVars,
                 replyVars, cross>>
TlsScope ==
  /\ scope = "tls" /\ TlsNext
  /\ UNCHANGED <<scope, sessionVars, keyVars, pathVars, sessionLoopVars, payloadVars, filesVars,
                 replyVars, cross>>
PathScope ==
  /\ scope = "path" /\ PathNext
  /\ UNCHANGED <<scope, sessionVars, keyVars, tlsVars, sessionLoopVars, payloadVars, filesVars,
                 replyVars, cross>>
LoopScope ==
  /\ scope = "websocket" /\ LoopNext
  /\ UNCHANGED <<scope, sessionVars, keyVars, tlsVars, pathVars, payloadVars, filesVars,
                 replyVars, cross>>
PayloadScope ==
  /\ scope = "payload" /\ PayloadNext
  /\ UNCHANGED <<scope, sessionVars, keyVars, tlsVars, pathVars, sessionLoopVars, filesVars,
                 replyVars, cross>>
FilesScope ==
  /\ scope = "files" /\ FilesNext
  /\ UNCHANGED <<scope, sessionVars, keyVars, tlsVars, pathVars, sessionLoopVars, payloadVars,
                 replyVars, cross>>
ReplyScope ==
  /\ scope = "replies" /\ ReplyNext
  /\ UNCHANGED <<scope, sessionVars, keyVars, tlsVars, pathVars, sessionLoopVars, payloadVars,
                 filesVars, cross>>
CrossScope ==
  /\ scope = "pages" /\ CrossNext
  /\ UNCHANGED <<scope, sessionVars, keyVars, tlsVars, pathVars, sessionLoopVars, payloadVars,
                 filesVars, replyVars>>

Next ==
  \/ SessionScope \/ KeyScope \/ TlsScope \/ PathScope
  \/ LoopScope \/ PayloadScope \/ FilesScope \/ ReplyScope
  \/ CrossScope

Spec == Init /\ [][Next]_vars

(* Both directions of a connection: requests are read where they were begun, answers    *)
(* end where their client takes them to end, and a page that may not be answered is     *)
(* not.                                                                                 *)
ExchangesSound == FramesAligned /\ RepliesSound

\* The threads of one component and the servers of another are given the same model values,
\* and so are tokens and key identifiers: one permutation renames them all, which is sound
\* for each and much cheaper for TLC than a permutation of every set on its own.
Symmetric == Permutations(Threads) \cup Permutations(Tokens)
===============================================================================
