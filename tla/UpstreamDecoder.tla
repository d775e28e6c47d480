-------------------------- MODULE UpstreamDecoder --------------------------
(***************************************************************************)
(* The decoder of agy-bridge-go (internal/protocols/upstream_decoder.go):  *)
(* it reads the upstream's event stream and hands the handler one event at *)
(* a time: a part, a finish reason, an error or the end.  A chunk may hold *)
(* several parts and a finish reason; the parts come first.  Usage figures *)
(* are handed on as they are and left out.                                 *)
(***************************************************************************)
EXTENDS Sequences

CONSTANTS
  Reasons,       \* finish reasons
  NoReason       \* Go's ""

VARIABLES
  arrived,           \* history: the parts read so far
  pendingParts,      \* parts of the chunk not yet handed out
  pendingTerminal,   \* its finish reason, if not yet handed out
  terminalReceived   \* a finish reason was handed out

decoderVars == <<arrived, pendingParts, pendingTerminal, terminalReceived>>

DecoderInit ==
  /\ arrived = <<>> /\ pendingParts = <<>>
  /\ pendingTerminal = NoReason /\ terminalReceived = FALSE

Drained == pendingParts = <<>> /\ pendingTerminal = NoReason

(* The next data line with something in it.                                *)
ReadChunk(parts, reason) ==
  /\ Drained
  /\ parts # <<>> \/ reason # NoReason
  /\ arrived' = arrived \o parts
  /\ pendingParts' = parts
  /\ pendingTerminal' = reason
  /\ UNCHANGED terminalReceived

NextPart(part) ==
  /\ pendingParts # <<>>
  /\ part = Head(pendingParts)
  /\ pendingParts' = Tail(pendingParts)
  /\ UNCHANGED <<arrived, pendingTerminal, terminalReceived>>

NextTerminal(reason) ==
  /\ pendingParts = <<>> /\ pendingTerminal # NoReason
  /\ reason = pendingTerminal
  /\ pendingTerminal' = NoReason
  /\ terminalReceived' = TRUE
  /\ UNCHANGED <<arrived, pendingParts>>

(* The stream breaks off: an error event or a failed read.                 *)
Broken == Drained /\ UNCHANGED decoderVars

(* io.EOF is only reported after a finish reason; without one the end is   *)
(* an error too.                                                           *)
CleanEnd == Drained /\ terminalReceived /\ UNCHANGED decoderVars
=============================================================================
