--------------------------- MODULE MC_MakeDepends ---------------------------
(* An instance of MakeDepends for TLC: two packages whose names share a     *)
(* prefix, one located through the environment; a second map file; one     *)
(* dependencies.default file holding any line of up to three characters or *)
(* one of the entry shapes of longer lines.                                 *)
EXTENDS MakeDepends

MCChars == {"a", "b", "=", ";", " ", "x"}

\* Entry shapes longer than three characters.
MCShapes == {<<"a", "=", "x", ";">>, <<"a", "b", "=", "x">>,
             <<"a", "=", "x", " ", "b">>, <<"a", "=", "x", " ", ";">>,
             <<"a", "=", "x", ";", "b", "=", "x", ";">>,
             <<"a", "=", "x", ";", " ", "b", "=", "x", ";">>,
             <<"a", "=", "x", " ", "b", "=", "x">>}

MCContents == {<<l>> : l \in BoundedSeq(MCChars, 3) \cup MCShapes}
                  \cup {<<<<"a", "=", "x">>, <<"b", "=", "x", ";">>>>}

MCJson ==
    ("yanda_packages.json" :> <<[key |-> <<"a">>, val |-> <<"ENV", ":", "V">>],
                                [key |-> <<"a", "b">>, val |-> <<"p">>]>>)
    @@ ("alt.json" :> <<[key |-> <<"b">>, val |-> <<"q">>]>>)

\* V unset, set to the empty string, or set.
MCEnvs == {[n \in {} |-> <<>>], <<"V">> :> <<>>, <<"V">> :> <<"e">>}

MCArgvs == {<<>>, <<[opt |-> "-s", arg |-> "other"]>>,
            <<[opt |-> "-d", arg |-> "alt.json"]>>,
            <<[opt |-> "-d", arg |-> "missing.json"]>>,
            <<[opt |-> "-s", arg |-> "default"], [opt |-> "-h", arg |-> ""]>>,
            <<[opt |-> "bad", arg |-> ""]>>}

MCTree == ("default" :> {"d1"}) @@ ("other" :> {})
=============================================================================
