----------------------------- MODULE MC_Router -----------------------------
EXTENDS Router, TLC

\* Two devices: one whose name holds a space and a "__", one plain.
MCNameOf == "1" :> <<"__", " ">> @@ "2" :> <<"x">>
MCIds == {"1", "2"}
MCSafeTokens == {"x", " ", "__"}
=============================================================================
