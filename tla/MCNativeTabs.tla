----------------------------- MODULE MCNativeTabs -----------------------------
(* Up to three tabs over texts with a byte order mark, an unpaired surrogate and neither. *)
EXTENDS NativeTabs

MCUnit == {"x", "mark", "lone"}
MCText == {<<>>, <<"x">>, <<"mark", "x">>, <<"x", "lone">>}
MCFound == {Absent, Broken, Utf8(<<"mark", "x">>), Utf16(<<"x", "lone">>)}
=============================================================================
