----------------------------- MODULE MCRelayPages -----------------------------
(* Two letters, and chunks of one character; the relay takes texts of one.   *)
(* An editor given two a makes one of them.                                  *)
EXTENDS RelayPages, TLC

CONSTANTS a, b
MCChar == {a, b}
MCHostTexts == {<<a>>}
MCGuestTexts == {<<>>}
MCTypedTexts == {<<b>>, <<b, b>>}
MCPastedTexts == {<<a, a>>}
MCWritten == <<a, a>> :> <<a>>
=============================================================================
