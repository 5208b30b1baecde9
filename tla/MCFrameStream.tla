---------------------------- MODULE MCFrameStream -----------------------------
(* Texts with every character that is escaped or has no single byte; messages around *)
(* the limit of a frame; numbers around the limit of a number.                        *)
EXTENDS FrameStream

Of(type, session, text, pos) ==
    [type |-> type, session |-> session, client |-> <<"A">>, text |-> text, pos |-> pos]

MCMessage == {Of("APPLY", <<"s">>, <<<<"q", "b">>>>, <<12>>),
              Of("APPLY", <<"s">>, <<<<"b">>>>, <<>>),
              Of("APPLY", <<"s">>, <<<<"nl", "wide", "n">>>>, <<>>),
              Of("INSERT", <<"s">>, <<>>, <<0>>),
              Of("INSERT", <<"s">>, <<<<"wide", "wide">>>>, <<>>),
              Of("APPLY", <<"s">>, <<<<"wide", "wide">>>>, <<7>>),
              Of("APPLY", <<"s">>, <<<<"lone">>>>, <<>>),
              Of("APPLY", <<>>, <<>>, <<>>),
              Of("UNKNOWN", <<"s">>, <<>>, <<>>)}
=============================================================================
