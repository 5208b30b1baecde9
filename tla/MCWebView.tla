------------------------------ MODULE MCWebView -------------------------------
(* Two letters and texts of up to two characters, one character to a chunk  *)
(* and to an INSERT. Of the text ab the page makes bab, which is too long,  *)
(* and of a it makes b.                                                     *)
EXTENDS WebViewWindow, TLC

CONSTANTS a, b
MCChar == {a, b}
MCOpeningTexts == {<<>>, <<a, b>>}
MCTypedTexts == {<<a>>, <<b, a>>, <<b, b, a>>}
MCWritten == <<a, b>> :> <<b, a, b>> @@ <<a>> :> <<b>>
=============================================================================
